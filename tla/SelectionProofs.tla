-------------------------- MODULE SelectionProofs --------------------------
(***************************************************************************)
(* What Only selects, for every sequence and every set.  The induction is  *)
(* over sets of natural numbers, and rests on the well-foundedness of      *)
(* strict inclusion between finite sets.                                   *)
(***************************************************************************)
EXTENDS Selection, Functions, FiniteSetTheorems, WellFoundedInduction, TLAPS

LEMMA LeastNatural ==
  ASSUME NEW T \in SUBSET Nat, T # {}
  PROVE  \E x \in T : \A y \in T : x <= y
<1> DEFINE B == {1..n : n \in T}
<1>1. B \subseteq FiniteSubsetsOf(Nat) /\ B # {}
  <2>1. \A n \in T : 1..n \in SUBSET Nat /\ IsFiniteSet(1..n)
    BY FS_Interval
  <2>2. QED
    BY <2>1 DEF FiniteSubsetsOf
<1>2. PICK b \in B : \A c \in B : ~(<<c, b>> \in StrictSubsetOrdering(Nat))
  BY <1>1, WFMin, FS_StrictSubsetOrderingWellFounded
<1>3. PICK x \in T : b = 1..x
  OBVIOUS
<1>4. ASSUME NEW y \in T, y < x PROVE FALSE
  <2>0. ~(<<1..y, 1..x>> \in StrictSubsetOrdering(Nat))
    BY <1>2, <1>3
  <2>1. ~(1..y \subseteq 1..x /\ 1..y # 1..x)
    BY <2>0 DEF StrictSubsetOrdering
  <2>2. x \in 1..x /\ x \notin 1..y /\ 1..y \subseteq 1..x
    BY <1>4
  <2>3. QED
    BY <2>1, <2>2
<1>5. QED
  BY <1>4

\* Induction, for a set of numbers.
LEMMA Induction ==
  ASSUME NEW T \in SUBSET Nat, 0 \in T, \A n \in T : n + 1 \in T
  PROVE  T = Nat
<1>1. ASSUME Nat \ T # {} PROVE FALSE
  <2>1. PICK x \in Nat \ T : \A y \in Nat \ T : x <= y
    BY <1>1, LeastNatural
  <2>2. x # 0 /\ x - 1 \in Nat
    BY <2>1
  <2>3. x - 1 \in T
    BY <2>1, <2>2
  <2>4. QED
    BY <2>1, <2>2, <2>3
<1>2. QED
  BY <1>1

\* A bounded nonempty set has a greatest element.
LEMMA GreatestOf ==
  ASSUME NEW n \in Nat, NEW T \in SUBSET (1..n), T # {}
  PROVE  \E x \in T : \A y \in T : x >= y
<1> DEFINE D == {n - x : x \in T}
<1>1. \A x \in T : n - x \in Nat /\ x \in Nat
  OBVIOUS
<1>2. D \in SUBSET Nat /\ D # {}
  BY <1>1
<1>3. PICK d \in D : \A e \in D : d <= e
  <2> HIDE DEF D
  <2> QED BY <1>2, LeastNatural
<1>4. PICK x \in T : d = n - x
  OBVIOUS
<1>5. ASSUME NEW y \in T PROVE x >= y
  <2>1. n - x <= n - y
    BY <1>3, <1>4
  <2>2. QED
    BY <1>1, <2>1
<1>6. QED
  BY <1>5

-----------------------------------------------------------------------------

\* f is what kept stands for, up to m.
Filters(f, s, S, m) ==
  f = [n \in 0..m |->
         IF n = 0 THEN <<>>
         ELSE IF s[n] \in S THEN Append(f[n - 1], s[n]) ELSE f[n - 1]]

LEMMA FiltersExists ==
  ASSUME NEW s, NEW S, NEW m \in Nat
  PROVE  \E f : Filters(f, s, S, m)
<1> DEFINE T == {n \in Nat : \E f : Filters(f, s, S, n)}
<1>1. 0 \in T
  <2>1. Filters([n \in 0..0 |-> <<>>], s, S, 0)
    BY DEF Filters
  <2>2. QED
    BY <2>1
<1>2. ASSUME NEW n \in T PROVE n + 1 \in T
  <2>1. PICK f : Filters(f, s, S, n)
    OBVIOUS
  <2> DEFINE last == IF s[n + 1] \in S THEN Append(f[n], s[n + 1]) ELSE f[n]
             g == [i \in 0..(n + 1) |-> IF i = n + 1 THEN last ELSE f[i]]
  <2>2. \A i \in 0..n : g[i] = f[i]
    OBVIOUS
  <2>3. \A i \in 0..n : f[i] = IF i = 0 THEN <<>>
                               ELSE IF s[i] \in S THEN Append(f[i - 1], s[i]) ELSE f[i - 1]
    BY <2>1 DEF Filters
  <2>4. \A i \in 0..(n + 1) : g[i] = IF i = 0 THEN <<>>
                               ELSE IF s[i] \in S THEN Append(g[i - 1], s[i]) ELSE g[i - 1]
    <3> SUFFICES ASSUME NEW i \in 0..(n + 1)
                 PROVE  g[i] = IF i = 0 THEN <<>>
                               ELSE IF s[i] \in S THEN Append(g[i - 1], s[i]) ELSE g[i - 1]
      OBVIOUS
    <3>1. CASE i = n + 1
      <4>1. i # 0 /\ i - 1 = n /\ n \in 0..n
        BY <3>1
      <4>2. g[i] = last /\ g[i - 1] = f[n]
        BY <2>2, <3>1, <4>1
      <4>3. QED
        BY <3>1, <4>1, <4>2
    <3>2. CASE i = 0
      BY <2>2, <2>3, <3>2
    <3>3. CASE i \in 1..n
      <4>1. i - 1 \in 0..n /\ i \in 0..n /\ i # 0
        BY <3>3
      <4>2. g[i] = f[i] /\ g[i - 1] = f[i - 1]
        BY <2>2, <4>1
      <4>3. QED
        BY <2>3, <4>1, <4>2
    <3>4. QED
      BY <3>1, <3>2, <3>3
  <2>5. Filters(g, s, S, n + 1)
    BY <2>4 DEF Filters
  <2>6. QED
    BY <2>5
<1>3. QED
  BY <1>1, <1>2, Induction

\* What is selected keeps its order: the places it comes from ascend, and no
\* element of S is left out.
Places(h, t, s, n, S) ==
  /\ h \in [1..Len(t) -> 1..n]
  /\ \A j, k \in 1..Len(t) : j < k => h[j] < h[k]
  /\ \A k \in 1..Len(t) : t[k] = s[h[k]]
  /\ \A i \in 1..n : s[i] \in S => \E k \in 1..Len(t) : h[k] = i

\* Only gives elements of the sequence that are in S, all of them, in their
\* order: what the filter and removeAll of the sources do.
THEOREM OnlyFacts ==
  ASSUME NEW T, NEW s \in Seq(T), NEW S
  PROVE  /\ Only(s, S) \in Seq(T \cap S)
         /\ \E h : Places(h, Only(s, S), s, Len(s), S)
<1>1. PICK f : /\ Only(s, S) = f[Len(s)]
               /\ Filters(f, s, S, Len(s))
  <2>0. Len(s) \in Nat
    OBVIOUS
  <2>1. \E f : Filters(f, s, S, Len(s))
    BY <2>0, FiltersExists
  <2>2. Only(s, S) = (CHOOSE f : Filters(f, s, S, Len(s)))[Len(s)]
    BY DEF Only, Filters
  <2>3. QED
    BY <2>1, <2>2
<1> DEFINE Good(n) == f[n] \in Seq(T \cap S) /\ \E h : Places(h, f[n], s, n, S)
           G == {n \in Nat : n <= Len(s) => Good(n)}
<1>2. 0 \in G
  <2>1. f[0] = <<>>
    BY <1>1 DEF Filters
  <2>2. f[0] \in Seq(T \cap S) /\ Len(f[0]) = 0
    BY <2>1
  <2>3. Places(<<>>, f[0], s, 0, S)
    BY <2>2 DEF Places
  <2>4. QED
    BY <2>2, <2>3
<1>3. ASSUME NEW n \in G PROVE n + 1 \in G
  <2> SUFFICES ASSUME n + 1 <= Len(s) PROVE Good(n + 1)
    OBVIOUS
  <2>1. f[n] \in Seq(T \cap S) /\ \E h : Places(h, f[n], s, n, S)
    OBVIOUS
  <2>2. PICK h : Places(h, f[n], s, n, S)
    BY <2>1
  <2>3. f[n + 1] = IF s[n + 1] \in S THEN Append(f[n], s[n + 1]) ELSE f[n]
    <3>1. n + 1 \in 0..Len(s) /\ n + 1 # 0 /\ (n + 1) - 1 = n
      OBVIOUS
    <3>2. QED
      BY <1>1, <3>1 DEF Filters
  <2>4. CASE s[n + 1] \notin S
    <3>1. f[n + 1] = f[n]
      BY <2>3, <2>4
    <3>2. Places(h, f[n], s, n + 1, S)
      BY <2>2, <2>4 DEF Places
    <3>3. QED
      BY <2>1, <3>1, <3>2
  <2>5. CASE s[n + 1] \in S
    <3> DEFINE l == Len(f[n])
               t == f[n + 1]
               g == [k \in 1..(l + 1) |-> IF k = l + 1 THEN n + 1 ELSE h[k]]
    <3>1. s[n + 1] \in T \cap S
      BY <2>5
    <3>2. /\ t \in Seq(T \cap S) /\ Len(t) = l + 1 /\ l \in Nat
          /\ \A k \in 1..l : t[k] = f[n][k]
          /\ t[l + 1] = s[n + 1]
      BY <2>1, <2>3, <2>5, <3>1
    <3>3. /\ h \in [1..l -> 1..n]
          /\ \A j, k \in 1..l : j < k => h[j] < h[k]
          /\ \A k \in 1..l : f[n][k] = s[h[k]]
          /\ \A i \in 1..n : s[i] \in S => \E k \in 1..l : h[k] = i
      BY <2>2 DEF Places
    <3>4. \A k \in 1..l : g[k] = h[k] /\ g[k] \in 1..n
      <4>1. \A k \in 1..l : k \in 1..(l + 1) /\ k # l + 1
        BY <3>2
      <4>2. \A k \in 1..l : g[k] = h[k]
        BY <4>1
      <4>3. QED
        BY <3>3, <4>2
    <3>5. g[l + 1] = n + 1 /\ l + 1 \in 1..Len(t)
      BY <3>2
    <3> HIDE DEF l, t
    <3>6. g \in [1..Len(t) -> 1..(n + 1)]
      <4>1. \A k \in 1..(l + 1) : (IF k = l + 1 THEN n + 1 ELSE h[k]) \in 1..(n + 1)
        BY <3>2, <3>3
      <4>2. QED
        BY <3>2, <4>1
    <3> HIDE DEF g
    <3>0. 1..Len(t) = 1..l \cup {l + 1}
      BY <3>2
    <3>7. \A j, k \in 1..Len(t) : j < k => g[j] < g[k]
      <4> SUFFICES ASSUME NEW j \in 1..Len(t), NEW k \in 1..Len(t), j < k
                   PROVE  g[j] < g[k]
        OBVIOUS
      <4>1. j \in 1..l /\ g[j] = h[j] /\ h[j] \in 1..n
        BY <3>2, <3>3, <3>4
      <4>2. CASE k = l + 1
        BY <3>5, <4>1, <4>2
      <4>3. CASE k \in 1..l
        BY <3>3, <3>4, <4>1, <4>3
      <4>4. QED
        BY <3>0, <4>2, <4>3
    <3>8. \A k \in 1..Len(t) : t[k] = s[g[k]]
      BY <3>0, <3>2, <3>3, <3>4, <3>5
    <3>9. \A i \in 1..(n + 1) : s[i] \in S => \E k \in 1..Len(t) : g[k] = i
      <4> SUFFICES ASSUME NEW i \in 1..(n + 1), s[i] \in S
                   PROVE  \E k \in 1..Len(t) : g[k] = i
        OBVIOUS
      <4>1. CASE i = n + 1
        BY <3>5, <4>1
      <4>2. CASE i \in 1..n
        <5>1. PICK k \in 1..l : h[k] = i
          BY <3>3, <4>2
        <5>2. QED
          BY <3>0, <3>4, <5>1
      <4>3. QED
        BY <4>1, <4>2
    <3>10. Places(g, t, s, n + 1, S)
      BY <3>6, <3>7, <3>8, <3>9 DEF Places
    <3>11. QED
      BY <3>2, <3>10 DEF t
  <2>6. QED
    BY <2>4, <2>5
<1>4. G = Nat
  BY <1>2, <1>3, Induction
<1>5. Len(s) \in G
  BY <1>4
<1>6. QED
  BY <1>1, <1>5

\* What is in it ...
LEMMA OnlyRange ==
  ASSUME NEW T, NEW s \in Seq(T), NEW S
  PROVE  Range(Only(s, S)) = Range(s) \cap S
<1> DEFINE t == Only(s, S)
<1>1. t \in Seq(T \cap S) /\ \E h : Places(h, t, s, Len(s), S)
  BY OnlyFacts
<1>2. PICK h : Places(h, t, s, Len(s), S)
  BY <1>1
<1>3. DOMAIN t = 1..Len(t) /\ DOMAIN s = 1..Len(s)
  BY <1>1
<1>4. ASSUME NEW k \in 1..Len(t) PROVE t[k] \in Range(s) \cap S
  <2>1. h[k] \in 1..Len(s) /\ t[k] = s[h[k]]
    BY <1>2 DEF Places
  <2>2. t[k] \in T \cap S
    BY <1>1
  <2>3. QED
    BY <1>3, <2>1, <2>2 DEF Range
<1>5. ASSUME NEW i \in 1..Len(s), s[i] \in S PROVE s[i] \in Range(t)
  <2>1. PICK k \in 1..Len(t) : h[k] = i
    BY <1>2, <1>5 DEF Places
  <2>2. t[k] = s[i]
    BY <1>2, <2>1 DEF Places
  <2>3. QED
    BY <1>3, <2>2 DEF Range
<1>6. QED
  BY <1>3, <1>4, <1>5 DEF Range

\* ... and how long it is: an ascending map into 1..n is nowhere below its
\* argument.
LEMMA OnlyIsNoLonger ==
  ASSUME NEW T, NEW s \in Seq(T), NEW S
  PROVE  Len(Only(s, S)) <= Len(s)
<1>1. PICK m \in Nat : m = Len(Only(s, S))
  <2>1. Only(s, S) \in Seq(T \cap S)
    BY OnlyFacts
  <2>2. QED
    BY <2>1
<1>2. PICK n \in Nat : n = Len(s)
  OBVIOUS
<1>3. PICK h \in [1..m -> 1..n] : \A j, k \in 1..m : j < k => h[j] < h[k]
  <2>1. PICK g : Places(g, Only(s, S), s, Len(s), S)
    BY OnlyFacts
  <2>2. QED
    BY <1>1, <1>2, <2>1 DEF Places
<1> DEFINE G == {k \in Nat : k \in 1..m => h[k] >= k}
<1>4. 0 \in G
  OBVIOUS
<1>5. ASSUME NEW k \in G PROVE k + 1 \in G
  <2>1. CASE k \in 1..m /\ k + 1 \in 1..m
    BY <1>3, <1>5, <2>1
  <2>2. CASE k = 0 /\ k + 1 \in 1..m
    BY <1>3, <1>5, <2>2
  <2>3. QED
    BY <1>5, <2>1, <2>2
<1>6. G = Nat
  <2>1. G \in SUBSET Nat
    OBVIOUS
  <2> HIDE DEF G
  <2>2. QED
    BY <1>4, <1>5, <2>1, Induction
<1>7. CASE m = 0
  BY <1>1, <1>2, <1>7
<1>8. CASE m # 0
  <2>1. m \in 1..m /\ m \in G
    BY <1>6, <1>8
  <2>2. h[m] \in 1..n /\ h[m] >= m
    BY <1>3, <2>1
  <2>3. QED
    BY <1>1, <1>2, <2>2
<1>9. QED
  BY <1>7, <1>8
=============================================================================
