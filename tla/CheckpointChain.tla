-------------------------- MODULE CheckpointChain --------------------------
(***************************************************************************)
(* What the checkpoint table of one thread promises when the operations    *)
(* on it come one at a time: an append-only log of checkpoints and a head  *)
(* that a write extends and a rollback moves to an older checkpoint in one *)
(* step.  A checkpoint's number is its distance from the first one along   *)
(* the way the head has gone: it repeats once the head has been moved      *)
(* back, and starts at zero again when the head is lost, so that it        *)
(* neither tells checkpoints apart nor grows within the thread.            *)
(***************************************************************************)
EXTENDS Naturals

CONSTANTS
  CheckpointIds,  \* the checkpoints a thread may ever have
  None            \* no head, no checkpoint

VARIABLES
  log,    \* checkpoint -> its sequence number, or None when it is not there
  head    \* the checkpoint the next write builds on, or None

CInit ==
  /\ log = [k \in CheckpointIds |-> None]
  /\ head = None

Append(k) ==
  /\ log[k] = None
  /\ log' = [log EXCEPT ![k] = IF head = None THEN 0 ELSE log[head] + 1]
  /\ head' = k

Rewind(k) ==
  /\ log[k] # None
  /\ head' = k
  /\ UNCHANGED log

(* A rollback is torn by a crash: the next write begins at zero again.     *)
LoseHead ==
  /\ head' = None
  /\ UNCHANGED log

Forget ==
  /\ log' = [k \in CheckpointIds |-> None]
  /\ head' = None

CNext ==
  \/ \E k \in CheckpointIds : Append(k)
  \/ \E k \in CheckpointIds : Rewind(k)
  \/ LoseHead
  \/ Forget

CSpec == CInit /\ [][CNext]_<<log, head>>
=============================================================================
