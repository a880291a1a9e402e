-------------------------- MODULE CheckpointStore --------------------------
(***************************************************************************)
(* The checkpoints of one thread (PostgresCheckpointRepository) and the    *)
(* operations of CheckpointManager and ResumeManager on them and on the    *)
(* status of the thread's investigation.                                   *)
(*                                                                         *)
(* Every statement outside a transaction commits by itself, so an          *)
(* operation is as many actions as it has statements that matter, and      *)
(* op[c] is where client c is in its operation.  Nothing in the code keeps *)
(* two operations on a thread apart; Exclusive says whether its callers    *)
(* do.  The repository's delete of a single row is left out: nothing in    *)
(* the code calls it, and it could take the head away.                     *)
(***************************************************************************)
EXTENDS Naturals, FiniteSets

CONSTANTS
  CheckpointIds,  \* the checkpoint ids the writes draw (uuid4)
  Clients,        \* processes that operate on the thread
  Payloads,       \* what a stored payload hydrates to, see PayloadKinds
  Exclusive,      \* TRUE: an operation begins when no other one is under way
  None            \* no row, no operation

(* The state could not be serialised or does not deserialise; its          *)
(* guardrails say that the global timeout has been triggered; neither.     *)
PayloadKinds == {"lost", "timed_out", "sound"}

(* pending_context is treated by every operation here as active is.        *)
InvStatuses == {"claimed", "active", "hitl_paused", "resolved"}

Terminal(s) == s = "resolved"

ASSUME CheckpointAssumption ==
  /\ Payloads \subseteq PayloadKinds
  /\ Exclusive \in BOOLEAN
  /\ None \notin CheckpointIds

(* The bound: list_chain(limit=1000) returns every row of the thread.      *)
ASSUME ChainFits ==
  IsFiniteSet(CheckpointIds) /\ Cardinality(CheckpointIds) <= 1000

VARIABLES
  table,   \* CheckpointIds -> the row with that primary key, or None
  used,    \* the ids that have been drawn
  inv,     \* status of the investigation in the registry
  op,      \* Clients -> the operation the client is in, or None
  torn     \* history: a rollback has died between two of its statements

vars == <<table, used, inv, op, torn>>

Row ==
  [seq: Nat, latest: BOOLEAN, status: {"active", "hitl_paused"},
   payload: Payloads]

Copy == [id: CheckpointIds, row: Row]

Operations ==
  [kind: {"write"}, seq: Nat, follows: BOOLEAN]
    \cup [kind: {"insert"}, seq: Nat, demote: SUBSET CheckpointIds]
    \cup [kind: {"pause", "resume"}, cp: CheckpointIds]
    \cup [kind: {"check", "set_paused", "set_resumed", "set_claimed",
                  "set_rolled_back"}]
    \cup [kind: {"rollback"}, target: Copy, demote: SUBSET Copy,
          saved: SUBSET CheckpointIds]

ASSUME NoneIsNothing == None \notin Row /\ None \notin Operations /\ None \notin Nat

TypeOK ==
  /\ table \in [CheckpointIds -> Row \cup {None}]
  /\ used \subseteq CheckpointIds
  /\ inv \in InvStatuses
  /\ op \in [Clients -> Operations \cup {None}]
  /\ torn \in BOOLEAN

-----------------------------------------------------------------------------
Stored == {k \in CheckpointIds : table[k] # None}

(* get_latest has no ORDER BY: when several rows are marked, any is first. *)
Latest == {k \in Stored : table[k].latest}

Idle(c) == op[c] = None

Doing(c, kind) == op[c] # None /\ op[c].kind = kind

Quiet == \A c \in Clients : Idle(c)

MayBegin(c) == Idle(c) /\ (Exclusive => Quiet)

Goto(c, o) == op' = [op EXCEPT ![c] = o]

(* The operation returns or raises.                                        *)
EndOp(c) == op' = [op EXCEPT ![c] = None]

-----------------------------------------------------------------------------
(* Mutant: the sequence number is the number of checkpoints.               *)
BeginWriteByCount(c) ==
  /\ MayBegin(c)
  /\ Goto(c, [kind |-> "write", seq |-> Cardinality(Stored),
              follows |-> Latest # {}])
  /\ UNCHANGED <<table, used, inv, torn>>

(* Mutant: the number is max(sequence_number) + 1, which is NULL of no     *)
(* rows.                                                                   *)
BeginWriteOfMax(c) ==
  /\ MayBegin(c)
  /\ \/ /\ Stored = {}
        /\ Goto(c, [kind |-> "write", seq |-> None, follows |-> FALSE])
     \/ \E k \in Stored :
          /\ \A j \in Stored : table[j].seq <= table[k].seq
          /\ Goto(c, [kind |-> "write", seq |-> table[k].seq + 1,
                      follows |-> Latest # {}])
  /\ UNCHANGED <<table, used, inv, torn>>

(* write_checkpoint.  The sequence number comes from a get_latest outside  *)
(* the transaction.                                                        *)
BeginWrite(c) ==
  /\ MayBegin(c)
  /\ \/ /\ Latest = {}
        /\ Goto(c, [kind |-> "write", seq |-> 0, follows |-> FALSE])
     \/ \E k \in Latest :
          Goto(c, [kind |-> "write", seq |-> table[k].seq + 1, follows |-> TRUE])
  /\ UNCHANGED <<table, used, inv, torn>>

(* The UPDATE of the READ COMMITTED transaction picks the rows that are    *)
(* marked in its snapshot.  It then waits for the locks of other           *)
(* transactions; what they have committed by then it re-reads row by row,  *)
(* which the commit below does, but it finds no further rows.              *)
DemoteInTransaction(c) ==
  /\ Doing(c, "write")
  /\ Goto(c, [kind |-> "insert", seq |-> op[c].seq,
              demote |-> IF op[c].follows THEN Latest ELSE {}])
  /\ UNCHANGED <<table, used, inv, torn>>

Demoted(rows) ==
  [k \in CheckpointIds |->
     IF k \in rows \cap Stored THEN [table[k] EXCEPT !.latest = FALSE]
     ELSE table[k]]

(* The transaction commits the demotion and the new row together.          *)
CommitWrite(c, k, p) ==
  /\ Doing(c, "insert")
  /\ k \notin used
  /\ used' = used \cup {k}
  /\ table' = [Demoted(op[c].demote) EXCEPT ![k] =
                 [seq |-> op[c].seq, latest |-> TRUE, status |-> "active",
                  payload |-> p]]
  /\ EndOp(c)
  /\ UNCHANGED <<inv, torn>>

-----------------------------------------------------------------------------
(* CheckpointManager.pause.  A latest checkpoint that is marked paused     *)
(* ends the call at once.                                                  *)
BeginPause(c) ==
  /\ MayBegin(c)
  /\ \E k \in Latest :
       /\ table[k].status # "hitl_paused"
       /\ Goto(c, [kind |-> "pause", cp |-> k])
  /\ UNCHANGED <<table, used, inv, torn>>

(* mark_checkpoint_paused, mark_checkpoint_resumed: UPDATE by primary key. *)
Marked(k, s) ==
  IF k \in Stored THEN [table EXCEPT ![k].status = s] ELSE table

MarkPaused(c) ==
  /\ Doing(c, "pause")
  /\ table' = Marked(op[c].cp, "hitl_paused")
  /\ Goto(c, [kind |-> "set_paused"])
  /\ UNCHANGED <<used, inv, torn>>

(* The unversioned update_status that ends an operation.                   *)
SetStatus(c, kind, s) ==
  /\ Doing(c, kind)
  /\ inv' = s
  /\ EndOp(c)
  /\ UNCHANGED <<table, used, torn>>

-----------------------------------------------------------------------------
(* Mutant: the resume does not look at the status.                         *)
BeginResumeUnchecked(c) ==
  /\ MayBegin(c)
  /\ \E k \in Latest : table[k].payload # "timed_out"
  /\ Goto(c, [kind |-> "check"])
  /\ UNCHANGED <<table, used, inv, torn>>

(* ResumeManager.resume.  snapshot() reads the latest checkpoint, the      *)
(* registry row and the payload; is_resumable decides on what it read.     *)
BeginResume(c) ==
  /\ MayBegin(c)
  /\ inv \in {"hitl_paused", "active"}
  /\ \E k \in Latest : table[k].payload # "timed_out"
  /\ Goto(c, [kind |-> "check"])
  /\ UNCHANGED <<table, used, inv, torn>>

(* The topology check refuses, or the checkpoint is gone: resume raises.   *)
ResumeRefused(c) ==
  /\ Doing(c, "check")
  /\ EndOp(c)
  /\ UNCHANGED <<table, used, inv, torn>>

(* CheckpointManager.resume reads the latest checkpoint anew, and the      *)
(* status no more.                                                         *)
TakeLatest(c) ==
  /\ Doing(c, "check")
  /\ \E k \in Latest : Goto(c, [kind |-> "resume", cp |-> k])
  /\ UNCHANGED <<table, used, inv, torn>>

(* A payload that does not hydrate raises only after the status is set.    *)
MarkResumed(c) ==
  /\ Doing(c, "resume")
  /\ table' = Marked(op[c].cp, "active")
  /\ Goto(c, [kind |-> "set_resumed"])
  /\ UNCHANGED <<used, inv, torn>>

-----------------------------------------------------------------------------
(* CheckpointManager.restart: the first checkpoint is loaded for the       *)
(* caller; the marks in the table stay as they are.                        *)
BeginRestart(c) ==
  /\ MayBegin(c)
  /\ Stored # {}
  /\ Goto(c, [kind |-> "set_claimed"])
  /\ UNCHANGED <<table, used, inv, torn>>

(* CheckpointManager.rollback: the target and the chain are read ...       *)
CopyOf(k) == [id |-> k, row |-> table[k]]

(* Mutant: only what is newer than the target is demoted, as the comment   *)
(* in rollback has it; a target newer than the head leaves the head.       *)
BeginRollbackNewer(c, k) ==
  /\ MayBegin(c)
  /\ k \in Stored
  /\ Goto(c, [kind |-> "rollback", target |-> CopyOf(k),
              demote |-> {CopyOf(j) : j \in {i \in Latest :
                                              table[i].seq > table[k].seq}},
              saved |-> {}])
  /\ UNCHANGED <<table, used, inv, torn>>

BeginRollback(c, k) ==
  /\ MayBegin(c)
  /\ k \in Stored
  /\ Goto(c, [kind |-> "rollback", target |-> CopyOf(k),
              demote |-> {CopyOf(j) : j \in Latest \ {k}}, saved |-> {}])
  /\ UNCHANGED <<table, used, inv, torn>>

(* save: an upsert of a whole row as it was read, whatever happened to the *)
(* row since; a row that was deleted is inserted again.                    *)
Upsert(id, row) == table' = [table EXCEPT ![id] = row]

(* Mutant: what is newer than the target is deleted.                       *)
DeleteNext(c) ==
  /\ Doing(c, "rollback")
  /\ \E m \in {n \in op[c].demote : n.id \notin op[c].saved} :
       /\ Upsert(m.id, None)
       /\ op' = [op EXCEPT ![c].saved = @ \cup {m.id}]
  /\ UNCHANGED <<used, inv, torn>>

(* ... each marked row is saved back as historical, newest first ...       *)
DemoteNext(c) ==
  LET left == {m \in op[c].demote : m.id \notin op[c].saved}
  IN /\ Doing(c, "rollback")
     /\ \E m \in left :
          /\ \A n \in left : n.row.seq <= m.row.seq
          /\ Upsert(m.id, [m.row EXCEPT !.latest = FALSE])
          /\ op' = [op EXCEPT ![c].saved = @ \cup {m.id}]
     /\ UNCHANGED <<used, inv, torn>>

(* Mutant: the target is saved without the mark.                           *)
PromoteUnmarked(c) ==
  /\ Doing(c, "rollback")
  /\ \A m \in op[c].demote : m.id \in op[c].saved
  /\ Upsert(op[c].target.id, [op[c].target.row EXCEPT !.status = "active"])
  /\ Goto(c, [kind |-> "set_rolled_back"])
  /\ UNCHANGED <<used, inv, torn>>

(* ... and then the target is promoted.                                    *)
Promote(c) ==
  /\ Doing(c, "rollback")
  /\ \A m \in op[c].demote : m.id \in op[c].saved
  /\ Upsert(op[c].target.id,
            [op[c].target.row EXCEPT !.latest = TRUE, !.status = "active"])
  /\ Goto(c, [kind |-> "set_rolled_back"])
  /\ UNCHANGED <<used, inv, torn>>

-----------------------------------------------------------------------------
(* The investigation goes on and ends by versioned writes to the registry. *)
Work(s) ==
  /\ Exclusive => Quiet
  /\ \/ inv = "claimed" /\ s = "active"
     \/ ~Terminal(inv) /\ Terminal(s)
  /\ inv' = s
  /\ UNCHANGED <<table, used, op, torn>>

(* Mutant: the job does not wait for the end.                              *)
DeleteThreadEarly ==
  /\ Exclusive => Quiet
  /\ table' = [k \in CheckpointIds |-> None]
  /\ UNCHANGED <<used, inv, op, torn>>

(* delete_thread, by the retention job, of an investigation that has       *)
(* ended.                                                                  *)
DeleteThread ==
  /\ Exclusive => Quiet
  /\ Terminal(inv)
  /\ table' = [k \in CheckpointIds |-> None]
  /\ UNCHANGED <<used, inv, op, torn>>

(* The client dies or a statement raises; what it has committed stays.     *)
Crash(c) ==
  /\ ~Idle(c)
  /\ EndOp(c)
  /\ torn' = (torn \/ Doing(c, "rollback"))
  /\ UNCHANGED <<table, used, inv>>

-----------------------------------------------------------------------------
Init ==
  /\ table = [k \in CheckpointIds |-> None]
  /\ used = {}
  /\ inv = "claimed"
  /\ op = [c \in Clients |-> None]
  /\ torn = FALSE

WriteStep(c) ==
  \/ BeginWrite(c)
  \/ DemoteInTransaction(c)
  \/ \E k \in CheckpointIds, p \in Payloads : CommitWrite(c, k, p)

PauseStep(c) ==
  \/ BeginPause(c)
  \/ MarkPaused(c)
  \/ SetStatus(c, "set_paused", "hitl_paused")

ResumeStep(c) ==
  \/ BeginResume(c)
  \/ ResumeRefused(c)
  \/ TakeLatest(c)
  \/ MarkResumed(c)
  \/ SetStatus(c, "set_resumed", "active")

RestartStep(c) ==
  \/ BeginRestart(c)
  \/ SetStatus(c, "set_claimed", "claimed")

RollbackStep(c) ==
  \/ \E k \in CheckpointIds : BeginRollback(c, k)
  \/ DemoteNext(c)
  \/ Promote(c)
  \/ SetStatus(c, "set_rolled_back", "active")

Next ==
  \/ \E c \in Clients :
       \/ WriteStep(c)
       \/ PauseStep(c)
       \/ ResumeStep(c)
       \/ RestartStep(c)
       \/ RollbackStep(c)
       \/ Crash(c)
  \/ \E s \in InvStatuses : Work(s)
  \/ DeleteThread

Spec == Init /\ [][Next]_vars

-----------------------------------------------------------------------------
(* A thread that has checkpoints has a latest one, from which it can be    *)
(* resumed, except while a rollback is between its demotions and its       *)
(* promotion or after one died there: whatever else writes, rolls back or  *)
(* deletes at the same time (write_checkpoint, rollback).                  *)
HeadNeverLost ==
  \/ Stored = {}
  \/ Latest # {}
  \/ \E c \in Clients : Doing(c, "rollback")
  \/ torn

(* History is immutable: the audit trail of a thread loses no checkpoint   *)
(* but by the deletion of the whole thread, and no operation, not even the *)
(* stale full-row saves of a rollback, changes what a checkpoint holds.    *)
HistoryIsImmutable ==
  [][\A k \in Stored :
       \/ table'[k] # None /\ table'[k].seq = table[k].seq
                           /\ table'[k].payload = table[k].payload
       \/ \A j \in CheckpointIds : table'[j] = None
    ]_vars

(* At most one row is marked latest, so that get_latest, resume and the    *)
(* next write agree on the head (write_checkpoint: "Atomically marks the   *)
(* previous latest checkpoint as historical and writes the new one as      *)
(* latest").  Exclusive operations keep it; concurrent writes do not.      *)
AtMostOneLatest == \A j, k \in Latest : j = k

(* "Monotonically increasing within a thread" (CheckpointState): a new     *)
(* checkpoint is numbered above those the thread has.  After a rollback    *)
(* write_checkpoint counts on from the promoted row, and from 0 again      *)
(* when a crash has left no latest one.                                    *)
SequenceGrows ==
  [][\A k \in used' \ used : \A j \in Stored : table'[k].seq > table[j].seq]_vars

(* A resume never brings back an investigation that has ended: it is       *)
(* "Raises: ValueError: investigation is not in a resumable state"         *)
(* (ResumeManager.resume).  The status is read once and written much       *)
(* later, so only exclusive operations keep this.                          *)
ResumeRespectsEnd ==
  [][\A c \in Clients :
       SetStatus(c, "set_resumed", "active") => ~Terminal(inv)]_vars

(* An investigation that waits for a human has a checkpoint from which the *)
(* answer can be taken up (pause, delete_thread, rollback): no sequence of *)
(* exclusive operations strands it.                                        *)
PausedHasCheckpoint ==
  inv = "hitl_paused" =>
    \/ Latest # {}
    \/ \E c \in Clients : Doing(c, "rollback")
    \/ torn

(* One operation at a time, the table is a CheckpointChain; the head of a  *)
(* rollback under way is the row it has demoted.                           *)
Log == [k \in CheckpointIds |-> IF table[k] = None THEN None ELSE table[k].seq]

Head ==
  LET rolling == {c \in Clients : Doing(c, "rollback") /\ op[c].saved # {}}
  IN IF rolling # {} THEN CHOOSE k \in CheckpointIds :
                            \E c \in rolling : k \in op[c].saved
     ELSE IF Latest = {} THEN None
     ELSE CHOOSE k \in Latest : TRUE

Chain == INSTANCE CheckpointChain WITH log <- Log, head <- Head

ImplementsCheckpointChain == Chain!CSpec
=============================================================================
