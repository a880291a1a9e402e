----------------------------- MODULE LiveClaims -----------------------------
(***************************************************************************)
(* What the investigation registry promises, without rows, versions,       *)
(* transactions or retries: a symptom (a cluster and a symptom signature)  *)
(* is worked on by at most one investigation at a time, and it never       *)
(* passes from one investigation to another in a single step: the holder   *)
(* lets go first.                                                          *)
(***************************************************************************)
CONSTANTS
  Symptoms,   \* the (cluster, signature) pairs an investigation can be about
  Ids,        \* investigation ids
  None        \* no investigation

VARIABLE holder   \* symptom -> the investigation that is live for it, or None

LInit == holder = [s \in Symptoms |-> None]

(* An investigation becomes live for a symptom nobody holds.               *)
Acquire(s, i) ==
  /\ holder[s] = None
  /\ holder' = [holder EXCEPT ![s] = i]

(* Investigations come to an end; a batch may end in one step.             *)
Release(S) ==
  holder' = [s \in Symptoms |-> IF s \in S THEN None ELSE holder[s]]

LNext ==
  \/ \E s \in Symptoms, i \in Ids : Acquire(s, i)
  \/ \E S \in SUBSET Symptoms : Release(S)

LSpec == LInit /\ [][LNext]_holder
=============================================================================
