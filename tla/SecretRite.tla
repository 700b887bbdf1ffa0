----------------------------- MODULE SecretRite -----------------------------
(***************************************************************************)
(* The rites that put a provider key into Google Secret Manager            *)
(* (store_discord_token_in_gcp in discord_gcp.py, and, call for call the   *)
(* same, store_cursor_api_key_in_gcp in cursor_gcp.py): validate live, add *)
(* a version, read the latest back, validate again.  Several rites run at  *)
(* once on one secret, and the provider revokes keys meanwhile.            *)
(*                                                                         *)
(* The provider and gcloud are external: a secret keeps its versions in    *)
(* the order they were added, a gcloud call fails, or times out whether or *)
(* not it took effect, and the answer to "add" may name no version.        *)
(***************************************************************************)
EXTENDS Integers, Sequences

CONSTANTS
  Rites,   \* runs of a gcp-store rite
  Keys     \* what is pasted at their prompts

VARIABLES
  live,       \* keys the provider accepts
  exists,     \* is there a secret?
  versions,   \* its versions, oldest first
  pc,         \* the next call of each rite
  candidate,  \* the key it was given
  version,    \* the version "add" named, 0 for none
  stored,     \* what it read back
  validated,  \* auxiliary: keys that passed a preflight
  readAt      \* auxiliary: the place of the version it read back

riteVars == <<live, exists, versions, pc, candidate, version, stored, validated, readAt>>
store == <<exists, versions>>

RiteCalls == {"preflight", "describe", "create", "add", "access", "compare",
          "postflight", "verified", "failed"}

RiteInit ==
  /\ live \in SUBSET Keys
  /\ exists \in BOOLEAN
  /\ versions = <<>>
  /\ pc = [r \in Rites |-> "preflight"]
  /\ candidate \in [Rites -> Keys]
  /\ version = [r \in Rites |-> 0]
  /\ stored \in {[r \in Rites |-> k] : k \in Keys}
  /\ validated = {}
  /\ readAt = [r \in Rites |-> 0]

GoOn(r, next) == pc' = [pc EXCEPT ![r] = next]

-----------------------------------------------------------------------------
(* validator: the provider knows the key, its identity and guild are right. *)

Accepted(k) == k \in live

Preflight(r) ==
  /\ pc[r] = "preflight"
  /\ Accepted(candidate[r])
  /\ validated' = validated \cup {candidate[r]}
  /\ GoOn(r, "describe")
  /\ UNCHANGED <<live, store, candidate, version, stored, readAt>>

\* The key that was read back is validated, not the one that was typed.
Postflight(r) ==
  /\ pc[r] = "postflight" /\ Accepted(stored[r])
  /\ GoOn(r, "verified")
  /\ UNCHANGED <<live, store, candidate, version, stored, validated, readAt>>

-----------------------------------------------------------------------------
(* gcloud *)

\* secrets describe: any answer but success counts as "there is none".
Describe(r) ==
  /\ pc[r] = "describe"
  /\ \/ exists /\ GoOn(r, "add")
     \/ GoOn(r, "create")
  /\ UNCHANGED <<live, store, candidate, version, stored, validated, readAt>>

Create(r) ==
  /\ pc[r] = "create" /\ ~exists
  /\ exists' = TRUE
  /\ GoOn(r, "add")
  /\ UNCHANGED <<live, versions, candidate, version, stored, validated, readAt>>

\* secrets versions add, with the key on stdin.
Add(r) ==
  /\ pc[r] = "add"
  /\ versions' = Append(versions, candidate[r])
  /\ version' \in {[version EXCEPT ![r] = n] : n \in {0, Len(versions) + 1}}
  /\ GoOn(r, "access")
  /\ UNCHANGED <<live, exists, candidate, stored, validated, readAt>>

\* Mutant: the first version is read back.
Access_Oldest(r) ==
  /\ pc[r] = "access"
  /\ stored' = [stored EXCEPT ![r] = versions[1]]
  /\ readAt' = [readAt EXCEPT ![r] = Len(versions)]
  /\ GoOn(r, "compare")
  /\ UNCHANGED <<live, store, candidate, version, validated>>

\* secrets versions access latest.
Access(r) ==
  /\ pc[r] = "access"
  /\ stored' = [stored EXCEPT ![r] = versions[Len(versions)]]
  /\ readAt' = [readAt EXCEPT ![r] = Len(versions)]
  /\ GoOn(r, "compare")
  /\ UNCHANGED <<live, store, candidate, version, validated>>

\* Mutant: the value read back is validated but not compared.
Compare_Skipped(r) ==
  /\ pc[r] = "compare"
  /\ GoOn(r, "postflight")
  /\ UNCHANGED <<live, store, candidate, version, stored, validated, readAt>>

\* hmac.compare_digest.
Compare(r) ==
  /\ pc[r] = "compare" /\ stored[r] = candidate[r]
  /\ GoOn(r, "postflight")
  /\ UNCHANGED <<live, store, candidate, version, stored, validated, readAt>>

\* A call that takes effect and yet fails: gcloud timed out.
TimeOut(r) ==
  /\ \/ /\ pc[r] = "create" /\ exists' = TRUE
        /\ UNCHANGED versions
     \/ /\ pc[r] = "add" /\ versions' = Append(versions, candidate[r])
        /\ UNCHANGED exists
  /\ GoOn(r, "failed")
  /\ UNCHANGED <<live, candidate, version, stored, validated, readAt>>

\* Any step raises: the provider refuses, gcloud fails, times out or is not
\* there, the values differ.
Fail(r) ==
  /\ pc[r] \in RiteCalls \ {"verified", "failed"}
  /\ pc[r] = "compare" => stored[r] # candidate[r]
  /\ GoOn(r, "failed")
  /\ UNCHANGED <<live, store, candidate, version, stored, validated, readAt>>

\* The provider resets a key.
Revoke ==
  /\ \E k \in live : live' = live \ {k}
  /\ UNCHANGED <<store, pc, candidate, version, stored, validated, readAt>>

Rite(r) ==
  \/ Preflight(r) \/ Describe(r) \/ Create(r) \/ Add(r) \/ Access(r)
  \/ Compare(r) \/ Postflight(r)
  \/ TimeOut(r) \/ Fail(r)

RiteNext == (\E r \in Rites : Rite(r)) \/ Revoke

RiteSpec == RiteInit /\ [][RiteNext]_riteVars

-----------------------------------------------------------------------------
(* Properties *)

\* Type invariant.
TypeOK ==
  /\ live \subseteq Keys /\ exists \in BOOLEAN
  /\ versions \in Seq(Keys)
  /\ pc \in [Rites -> RiteCalls]
  /\ candidate \in [Rites -> Keys]
  /\ version \in [Rites -> Nat]
  /\ stored \in [Rites -> Keys]
  /\ validated \subseteq Keys
  /\ readAt \in [Rites -> Nat]

\* Nothing is stored that the provider did not accept first, whatever the
\* other rites do ("Only then does it send the token").
OnlyValidatedStored == \A i \in DOMAIN versions : versions[i] \in validated

\* The version the receipt of r speaks of: the one "add" named, or "latest".
Denoted(r) == IF version[r] > 0 THEN version[r] ELSE Len(versions)

\* A receipt tells the truth about the store: the version it speaks of holds
\* the key that was pasted.  A receipt that says "latest" does so only until
\* the next version is added, by whatever rite, after the one it read back.
ReceiptIsTrue ==
  \A r \in Rites :
    pc[r] = "verified" /\ (version[r] = 0 => Len(versions) = readAt[r]) =>
      Denoted(r) \in DOMAIN versions /\ versions[Denoted(r)] = candidate[r]

\* A rite reports stored-and-verified only while the key it was given is live,
\* also when another rite stored a different key in between ("live-validated
\* before and after durable storage").
StoredIsValidatedAgain ==
  [][\A r \in Rites : pc[r] # "verified" /\ pc'[r] = "verified" => candidate[r] \in live]_riteVars
=============================================================================
