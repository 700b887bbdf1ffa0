------------------------- MODULE AtomicWriteProofs -------------------------
(***************************************************************************)
(* _atomic_write is atomic for any number of writers and any payloads.     *)
(***************************************************************************)
EXTENDS AtomicWrite, TLAPS

Whole(f) == f.data \in Payloads /\ f.synced /\ f.mode = "exact"

\* The strengthening: how far the temporary file of a writer is known to be
\* complete at each call, and that whole files only ever reach the path.
IInv ==
  /\ TypeOK
  /\ Whole(path) /\ Whole(durable)
  /\ NoLitterWithoutCrash
  /\ \A w \in Writers :
       /\ pc[w] \in {"fsync", "chmod", "replace"} => tmp[w].data = payload[w]
       /\ pc[w] \in {"chmod", "replace"} => tmp[w].synced
       /\ pc[w] = "replace" => tmp[w].mode = "exact"

LEMMA IInvInit == Init => IInv
<1> SUFFICES ASSUME Init PROVE IInv
  OBVIOUS
<1>1. path \in File /\ Whole(path) /\ durable = path
  BY DEF Init, Good, File, Modes, Whole
<1>2. Fresh \in File
  BY DEF Fresh, File, Modes
<1>3. TypeOK
  BY <1>1, <1>2 DEF Init, TypeOK, Calls
<1>4. NoLitterWithoutCrash
  BY DEF Init, NoLitterWithoutCrash
<1>5. QED
  BY <1>1, <1>3, <1>4 DEF Init, IInv

LEMMA IInvStep == IInv /\ [Next]_vars => IInv'
<1> SUFFICES ASSUME IInv, [Next]_vars
             PROVE  IInv'
  OBVIOUS
<1> USE DEF IInv, TypeOK, Whole, NoLitterWithoutCrash, File, Modes, Calls
<1>1. ASSUME NEW w \in Writers, NEW p \in Payloads, MakeTemp(w, p)
      PROVE  IInv'
  BY <1>1 DEF MakeTemp, Fresh
<1>2. ASSUME NEW w \in Writers, WriteTemp(w)
      PROVE  IInv'
  BY <1>2 DEF WriteTemp, OnTemp
<1>3. ASSUME NEW w \in Writers, SyncTemp(w)
      PROVE  IInv'
  BY <1>3 DEF SyncTemp, OnTemp
<1>4. ASSUME NEW w \in Writers, ChmodTemp(w)
      PROVE  IInv'
  BY <1>4 DEF ChmodTemp, OnTemp
<1>5. ASSUME NEW w \in Writers, Replace(w)
      PROVE  IInv'
  BY <1>5 DEF Replace
<1>6. ASSUME NEW w \in Writers, Recheck(w)
      PROVE  IInv'
  BY <1>6 DEF Recheck
<1>7. ASSUME NEW w \in Writers, Fail(w)
      PROVE  IInv'
  BY <1>7 DEF Fail
<1>8. ASSUME NEW w \in Writers, UnlinkTemp(w)
      PROVE  IInv'
  BY <1>8 DEF UnlinkTemp, Fresh
<1>9. ASSUME NEW w \in Writers, FailRecheck(w)
      PROVE  IInv'
  BY <1>9 DEF FailRecheck
<1>10. CASE Commit
  BY <1>10 DEF Commit
<1>11. CASE Kill
  BY <1>11 DEF Kill, Stop, Fresh
<1>12. CASE PowerLoss
  BY <1>12 DEF PowerLoss, Stop, Fresh
<1>13. CASE UNCHANGED vars
  BY <1>13 DEF vars
<1>14. QED
  BY <1>1, <1>2, <1>3, <1>4, <1>5, <1>6, <1>7, <1>8, <1>9, <1>10, <1>11, <1>12,
     <1>13 DEF Next, Write

LEMMA IInvInvariant == Spec => []IInv
BY IInvInit, IInvStep, PTL DEF Spec

\* A reader always finds a complete payload, after any kill or power loss.
THEOREM Completeness == Spec => []PathIsComplete
<1>1. IInv => PathIsComplete
  BY DEF IInv, Whole, PathIsComplete
<1>2. QED
  BY <1>1, IInvInvariant, PTL

\* A payload is never visible with a mode other than the one asked for.
THEOREM ExactMode == Spec => []ModeIsExact
<1>1. IInv => ModeIsExact
  BY DEF IInv, Whole, ModeIsExact
<1>2. QED
  BY <1>1, IInvInvariant, PTL

\* Failed writes clean up after themselves.
THEOREM NoLitter == Spec => []NoLitterWithoutCrash
<1>1. IInv => NoLitterWithoutCrash
  BY DEF IInv
<1>2. QED
  BY <1>1, IInvInvariant, PTL

\* The path changes by one rename of a whole file, or back to a whole one.
THEOREM Atomicity == Spec => ChangesAreWhole
<1>1. IInv /\ [Next]_vars =>
        [path'.data # path.data =>
           /\ path'.data \in Payloads
           /\ \/ \E w \in Writers : pc[w] = "replace" /\ path' = Good(payload[w])
              \/ crashed' /\ path' = durable]_vars
  <2> SUFFICES ASSUME IInv, [Next]_vars, path'.data # path.data
               PROVE  /\ path'.data \in Payloads
                      /\ \/ \E w \in Writers : pc[w] = "replace" /\ path' = Good(payload[w])
                         \/ crashed' /\ path' = durable
    OBVIOUS
  <2>0. path'.data \in Payloads
    <3>1. IInv'
      BY IInvStep
    <3>2. QED
      BY <3>1 DEF IInv, Whole
  <2>1. CASE PowerLoss
    BY <2>0, <2>1 DEF PowerLoss, Stop, IInv, Whole
  <2>2. CASE \E w \in Writers : Replace(w)
    <3>1. PICK w \in Writers : Replace(w)
      BY <2>2
    <3>2. /\ pc[w] = "replace" /\ path' = tmp[w] /\ tmp[w] \in File
          /\ tmp[w].data = payload[w] /\ tmp[w].synced /\ tmp[w].mode = "exact"
      BY <3>1 DEF Replace, IInv, TypeOK
    <3>3. tmp[w] = Good(payload[w])
      BY <3>2 DEF File, Good
    <3>4. QED
      BY <2>0, <3>2, <3>3
  <2>3. CASE \E w \in Writers : Recheck(w)
    BY <2>3 DEF Recheck, IInv, TypeOK, File
  <2>4. QED
    BY <2>0, <2>1, <2>2, <2>3 DEF Next, Write, vars, MakeTemp, WriteTemp, SyncTemp, ChmodTemp,
       OnTemp, Fail, UnlinkTemp, FailRecheck, Commit, Kill
<1>2. QED
  BY <1>1, IInvInvariant, PTL DEF Spec, ChangesAreWhole
=============================================================================
