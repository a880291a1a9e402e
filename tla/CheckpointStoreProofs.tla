------------------------ MODULE CheckpointStoreProofs ------------------------
(***************************************************************************)
(* Proofs about CheckpointStore, for any number of checkpoints and         *)
(* clients, whether or not operations exclude each other.                  *)
(***************************************************************************)
EXTENDS CheckpointStore, TLAPS

(* The operation a client is in, by its kind.                              *)
LEMMA OperationKinds ==
  ASSUME TypeOK, NEW c \in Clients
  PROVE  /\ Doing(c, "write") =>
              /\ op[c].seq \in Nat /\ op[c].follows \in BOOLEAN
         /\ Doing(c, "insert") =>
              /\ op[c].seq \in Nat /\ op[c].demote \in SUBSET CheckpointIds
         /\ Doing(c, "pause") \/ Doing(c, "resume") => op[c].cp \in CheckpointIds
         /\ Doing(c, "rollback") =>
              op[c] \in [kind: {"rollback"}, target: Copy, demote: SUBSET Copy,
                         saved: SUBSET CheckpointIds]
  BY DEF TypeOK, Operations, Doing

LEMMA StoredRow ==
  ASSUME TypeOK, NEW k \in Stored
  PROVE  k \in CheckpointIds /\ table[k] \in Row
  BY DEF TypeOK, Stored

LEMMA CopyType ==
  ASSUME TypeOK, NEW k \in Stored
  PROVE  CopyOf(k) \in Copy
  BY StoredRow DEF CopyOf, Copy

(* What the statements do to a row keeps its type.                         *)
LEMMA RowEdits ==
  ASSUME NEW row \in Row, NEW b \in BOOLEAN, NEW s \in {"active", "hitl_paused"}
  PROVE  /\ [row EXCEPT !.latest = b] \in Row
         /\ [row EXCEPT !.status = s] \in Row
         /\ [row EXCEPT !.latest = b, !.status = s] \in Row
<1>1. [row EXCEPT !.latest = b] \in Row
  BY Zenon DEF Row
<1>2. [row EXCEPT !.status = s] \in Row
  BY Zenon DEF Row
<1>3. [row EXCEPT !.latest = b, !.status = s] \in Row
  BY Zenon DEF Row
<1> QED
  BY <1>1, <1>2, <1>3

LEMMA EndOpType ==
  ASSUME TypeOK, NEW c \in Clients, EndOp(c)
  PROVE  op' \in [Clients -> Operations \cup {None}]
  BY DEF TypeOK, EndOp

LEMMA GotoType ==
  ASSUME TypeOK, NEW c \in Clients, NEW o \in Operations, Goto(c, o)
  PROVE  op' \in [Clients -> Operations \cup {None}]
  BY DEF TypeOK, Goto

LEMMA UpsertType ==
  ASSUME TypeOK, NEW k \in CheckpointIds, NEW row \in Row, Upsert(k, row)
  PROVE  table' \in [CheckpointIds -> Row \cup {None}]
  BY DEF TypeOK, Upsert

LEMMA MarkedType ==
  ASSUME TypeOK, NEW k \in CheckpointIds, NEW s \in {"active", "hitl_paused"}
  PROVE  Marked(k, s) \in [CheckpointIds -> Row \cup {None}]
<1>1. CASE k \in Stored
  <2>1. [table[k] EXCEPT !.status = s] \in Row
    BY <1>1, StoredRow, RowEdits
  <2> QED
    BY <1>1, <2>1 DEF Marked, TypeOK
<1>2. CASE k \notin Stored
  BY <1>2 DEF Marked, TypeOK
<1> QED
  BY <1>1, <1>2

LEMMA DemotedType ==
  ASSUME TypeOK, NEW rows \in SUBSET CheckpointIds
  PROVE  Demoted(rows) \in [CheckpointIds -> Row \cup {None}]
<1>1. \A k \in Stored : [table[k] EXCEPT !.latest = FALSE] \in Row
  BY StoredRow, RowEdits
<1> QED
  BY <1>1 DEF Demoted, TypeOK, Stored

-----------------------------------------------------------------------------
LEMMA TypeStep == TypeOK /\ [Next]_vars => TypeOK'
<1> SUFFICES ASSUME TypeOK, [Next]_vars PROVE TypeOK'
  OBVIOUS
<1>1. ASSUME NEW c \in Clients, WriteStep(c) PROVE TypeOK'
  <2>1. CASE BeginWrite(c)
    <3>1. ASSUME NEW k \in Latest
          PROVE  [kind |-> "write", seq |-> table[k].seq + 1, follows |-> TRUE]
                   \in Operations
      BY <3>1, StoredRow DEF Latest, Row, Operations
    <3>2. [kind |-> "write", seq |-> 0, follows |-> FALSE] \in Operations
      BY DEF Operations
    <3> QED
      BY <2>1, <3>1, <3>2, GotoType DEF BeginWrite, TypeOK
  <2>2. CASE DemoteInTransaction(c)
    <3>1. op[c].seq \in Nat
      BY <2>2, OperationKinds DEF DemoteInTransaction
    <3>2. (IF op[c].follows THEN Latest ELSE {}) \in SUBSET CheckpointIds
      BY DEF Latest, Stored
    <3>3. [kind |-> "insert", seq |-> op[c].seq,
           demote |-> IF op[c].follows THEN Latest ELSE {}] \in Operations
      BY <3>1, <3>2 DEF Operations
    <3> QED
      BY <2>2, <3>3, GotoType DEF DemoteInTransaction, TypeOK
  <2>3. ASSUME NEW k \in CheckpointIds, NEW p \in Payloads, CommitWrite(c, k, p)
        PROVE  TypeOK'
    <3> DEFINE row == [seq |-> op[c].seq, latest |-> TRUE, status |-> "active",
                       payload |-> p]
    <3>1. op[c].seq \in Nat /\ op[c].demote \in SUBSET CheckpointIds
      BY <2>3, OperationKinds DEF CommitWrite
    <3>2. row \in Row
      BY <3>1 DEF Row
    <3>3. Demoted(op[c].demote) \in [CheckpointIds -> Row \cup {None}]
      BY <3>1, DemotedType
    <3>4. table' = [Demoted(op[c].demote) EXCEPT ![k] = row]
      BY <2>3 DEF CommitWrite
    <3> HIDE DEF row
    <3>5. table' \in [CheckpointIds -> Row \cup {None}]
      BY <3>2, <3>3, <3>4
    <3> QED
      BY <2>3, <3>5, EndOpType DEF CommitWrite, TypeOK
  <2> QED
    BY <1>1, <2>1, <2>2, <2>3 DEF WriteStep
<1>2. ASSUME NEW c \in Clients, NEW kind, NEW s \in InvStatuses,
             SetStatus(c, kind, s)
      PROVE  TypeOK'
  BY <1>2, EndOpType DEF SetStatus, TypeOK
<1>3. ASSUME NEW c \in Clients, PauseStep(c) PROVE TypeOK'
  <2>1. CASE BeginPause(c)
    <3>1. \A k \in Latest : [kind |-> "pause", cp |-> k] \in Operations
      BY DEF Latest, Stored, Operations
    <3> QED
      BY <2>1, <3>1, GotoType DEF BeginPause, TypeOK
  <2>2. CASE MarkPaused(c)
    <3>1. [kind |-> "set_paused"] \in Operations
      BY DEF Operations
    <3> QED
      BY <2>2, <3>1, GotoType, OperationKinds, MarkedType DEF MarkPaused, TypeOK
  <2> QED
    BY <1>2, <1>3, <2>1, <2>2 DEF PauseStep, InvStatuses
<1>4. ASSUME NEW c \in Clients, ResumeStep(c) PROVE TypeOK'
  <2>1. CASE BeginResume(c)
    <3>1. [kind |-> "check"] \in Operations
      BY DEF Operations
    <3> QED
      BY <2>1, <3>1, GotoType DEF BeginResume, TypeOK
  <2>2. CASE ResumeRefused(c)
    BY <2>2, EndOpType DEF ResumeRefused, TypeOK
  <2>3. CASE TakeLatest(c)
    <3>1. \A k \in Latest : [kind |-> "resume", cp |-> k] \in Operations
      BY DEF Latest, Stored, Operations
    <3> QED
      BY <2>3, <3>1, GotoType DEF TakeLatest, TypeOK
  <2>4. CASE MarkResumed(c)
    <3>1. [kind |-> "set_resumed"] \in Operations
      BY DEF Operations
    <3> QED
      BY <2>4, <3>1, GotoType, OperationKinds, MarkedType DEF MarkResumed, TypeOK
  <2> QED
    BY <1>2, <1>4, <2>1, <2>2, <2>3, <2>4 DEF ResumeStep, InvStatuses
<1>5. ASSUME NEW c \in Clients, RestartStep(c) PROVE TypeOK'
  <2>1. CASE BeginRestart(c)
    <3>1. [kind |-> "set_claimed"] \in Operations
      BY DEF Operations
    <3> QED
      BY <2>1, <3>1, GotoType DEF BeginRestart, TypeOK
  <2> QED
    BY <1>2, <1>5, <2>1 DEF RestartStep, InvStatuses
<1>6. ASSUME NEW c \in Clients, RollbackStep(c) PROVE TypeOK'
  <2>1. ASSUME NEW k \in CheckpointIds, BeginRollback(c, k) PROVE TypeOK'
    <3>1. \A j \in Latest : CopyOf(j) \in Copy
      BY CopyType DEF Latest
    <3>2. CopyOf(k) \in Copy
      BY <2>1, CopyType DEF BeginRollback
    <3>3. [kind |-> "rollback", target |-> CopyOf(k),
           demote |-> {CopyOf(j) : j \in Latest \ {k}}, saved |-> {}]
             \in Operations
      BY <3>1, <3>2 DEF Operations
    <3> QED
      BY <2>1, <3>3, GotoType DEF BeginRollback, TypeOK
  <2>2. CASE DemoteNext(c)
    <3>1. op[c] \in [kind: {"rollback"}, target: Copy, demote: SUBSET Copy,
                     saved: SUBSET CheckpointIds]
      BY <2>2, OperationKinds DEF DemoteNext
    <3>2. PICK m \in op[c].demote :
            /\ Upsert(m.id, [m.row EXCEPT !.latest = FALSE])
            /\ op' = [op EXCEPT ![c].saved = @ \cup {m.id}]
      BY <2>2 DEF DemoteNext
    <3>3. m.id \in CheckpointIds /\ m.row \in Row
      BY <3>1 DEF Copy
    <3>4. [op[c] EXCEPT !.saved = @ \cup {m.id}] \in Operations
      BY <3>1, <3>3 DEF Operations
    <3>5. op' \in [Clients -> Operations \cup {None}]
      BY <3>2, <3>4 DEF TypeOK
    <3>6. table' \in [CheckpointIds -> Row \cup {None}]
      BY <3>2, <3>3, RowEdits, UpsertType
    <3> QED
      BY <2>2, <3>5, <3>6 DEF DemoteNext, TypeOK
  <2>3. CASE Promote(c)
    <3>1. op[c].target \in Copy
      BY <2>3, OperationKinds DEF Promote
    <3>2. op[c].target.id \in CheckpointIds /\ op[c].target.row \in Row
      BY <3>1 DEF Copy
    <3>3. table' \in [CheckpointIds -> Row \cup {None}]
      BY <2>3, <3>2, RowEdits, UpsertType DEF Promote
    <3>4. [kind |-> "set_rolled_back"] \in Operations
      BY DEF Operations
    <3> QED
      BY <2>3, <3>3, <3>4, GotoType DEF Promote, TypeOK
  <2> QED
    BY <1>2, <1>6, <2>1, <2>2, <2>3 DEF RollbackStep, InvStatuses
<1>7. ASSUME NEW c \in Clients, Crash(c) PROVE TypeOK'
  BY <1>7, EndOpType DEF Crash, TypeOK, Doing
<1>8. ASSUME NEW s \in InvStatuses, Work(s) PROVE TypeOK'
  BY <1>8 DEF Work, TypeOK
<1>9. CASE DeleteThread
  BY <1>9 DEF DeleteThread, TypeOK
<1>10. CASE UNCHANGED vars
  BY <1>10 DEF vars, TypeOK
<1> QED
  BY <1>1, <1>3, <1>4, <1>5, <1>6, <1>7, <1>8, <1>9, <1>10 DEF Next

(* Every reachable state is well typed, whatever runs at the same time.    *)
THEOREM CheckpointTypes == Spec => []TypeOK
<1>1. Init => TypeOK
  BY DEF Init, TypeOK, InvStatuses
<1> QED
  BY <1>1, TypeStep, PTL DEF Spec

-----------------------------------------------------------------------------
(* The marks on a checkpoint's status move no head.                        *)
LEMMA MarkedKeepsHead ==
  ASSUME TypeOK, NEW k \in CheckpointIds, NEW s \in {"active", "hitl_paused"},
         table' = Marked(k, s)
  PROVE  Stored' = Stored /\ Latest' = Latest
<1>1. ASSUME NEW j \in CheckpointIds
      PROVE  /\ table'[j] # None <=> table[j] # None
             /\ table[j] # None => table'[j].latest = table[j].latest
  <2>1. CASE j = k /\ k \in Stored
    <3>1. table[k] \in Row /\ table'[k] = [table[k] EXCEPT !.status = s]
      BY <2>1, StoredRow DEF Marked, TypeOK
    <3>2. table'[k] \in Row
      BY <3>1, RowEdits
    <3> QED
      BY <2>1, <3>1, <3>2, NoneIsNothing DEF Row
  <2>2. CASE ~(j = k /\ k \in Stored)
    BY <2>2 DEF Marked, TypeOK
  <2> QED
    BY <2>1, <2>2
<1> QED
  BY <1>1 DEF Stored, Latest

(* An operation other than a rollback that begins, goes on or ends hides   *)
(* no rollback.                                                            *)
Rolling == {c \in Clients : Doing(c, "rollback")}

LEMMA OthersKeepRolling ==
  ASSUME TypeOK, NEW c \in Clients, ~Doing(c, "rollback"),
         \A d \in Clients \ {c} : op'[d] = op[d]
  PROVE  Rolling \subseteq Rolling'
  BY DEF Rolling, Doing

LEMMA HeadStep == TypeOK /\ HeadNeverLost /\ [Next]_vars => HeadNeverLost'
<1> SUFFICES ASSUME TypeOK, HeadNeverLost, [Next]_vars PROVE HeadNeverLost'
  OBVIOUS
<1>1. ASSUME Stored' = Stored, Latest' = Latest, torn' = torn,
             Rolling \subseteq Rolling'
      PROVE  HeadNeverLost'
  BY <1>1 DEF HeadNeverLost, Rolling
<1>2. UNCHANGED table => Stored' = Stored /\ Latest' = Latest
  BY DEF Stored, Latest
<1>3. ASSUME NEW c \in Clients, ~Doing(c, "rollback"),
             EndOp(c) \/ \E o \in Operations : Goto(c, o)
      PROVE  Rolling \subseteq Rolling'
  <2>1. \A d \in Clients \ {c} : op'[d] = op[d]
    BY <1>3 DEF EndOp, Goto, TypeOK
  <2> QED
    BY <1>3, <2>1, OthersKeepRolling
<1>4. ASSUME NEW c \in Clients, ~Doing(c, "rollback"),
             \A d \in Clients \ {c} : op'[d] = op[d], UNCHANGED <<table, torn>>
      PROVE  HeadNeverLost'
  BY <1>1, <1>2, <1>4, OthersKeepRolling
<1>5. ASSUME NEW c \in Clients,
             BeginWrite(c) \/ BeginPause(c) \/ BeginResume(c) \/ BeginRestart(c)
             \/ TakeLatest(c) \/ DemoteInTransaction(c) \/ ResumeRefused(c)
             \/ \E k \in CheckpointIds : BeginRollback(c, k)
      PROVE  HeadNeverLost'
  <2>1. ~Doing(c, "rollback")
    BY <1>5 DEF BeginWrite, BeginPause, BeginResume, BeginRestart, TakeLatest,
       DemoteInTransaction, ResumeRefused, BeginRollback, MayBegin, Idle, Doing
  <2>2. (\A d \in Clients \ {c} : op'[d] = op[d]) /\ UNCHANGED <<table, torn>>
    BY <1>5 DEF BeginWrite, BeginPause, BeginResume, BeginRestart, TakeLatest,
       DemoteInTransaction, ResumeRefused, BeginRollback, Goto, EndOp, TypeOK
  <2> QED
    BY <1>4, <2>1, <2>2
<1>6. ASSUME NEW c \in Clients, NEW kind, NEW s, kind # "rollback",
             SetStatus(c, kind, s)
      PROVE  HeadNeverLost'
  <2>1. ~Doing(c, "rollback")
    BY <1>6 DEF SetStatus, Doing
  <2>2. (\A d \in Clients \ {c} : op'[d] = op[d]) /\ UNCHANGED <<table, torn>>
    BY <1>6 DEF SetStatus, EndOp, TypeOK
  <2> QED
    BY <1>4, <2>1, <2>2
<1>7. ASSUME NEW c \in Clients, NEW k \in CheckpointIds, NEW p \in Payloads,
             CommitWrite(c, k, p)
      PROVE  HeadNeverLost'
  <2> DEFINE row == [seq |-> op[c].seq, latest |-> TRUE, status |-> "active",
                     payload |-> p]
  <2>1. op[c].seq \in Nat /\ op[c].demote \in SUBSET CheckpointIds
    BY <1>7, OperationKinds DEF CommitWrite
  <2>2. row \in Row
    BY <2>1 DEF Row
  <2>3. table'[k] = row
    BY <1>7, <2>1, DemotedType DEF CommitWrite
  <2>4. k \in Latest'
    BY <2>2, <2>3, NoneIsNothing DEF Latest, Stored
  <2> QED
    BY <2>4 DEF HeadNeverLost
<1>8. ASSUME NEW c \in Clients, MarkPaused(c) \/ MarkResumed(c)
      PROVE  HeadNeverLost'
  <2>1. ~Doing(c, "rollback") /\ op[c].cp \in CheckpointIds
    BY <1>8, OperationKinds DEF MarkPaused, MarkResumed, Doing
  <2>2. Stored' = Stored /\ Latest' = Latest
    BY <1>8, <2>1, MarkedKeepsHead DEF MarkPaused, MarkResumed
  <2>3. \A d \in Clients \ {c} : op'[d] = op[d]
    BY <1>8 DEF MarkPaused, MarkResumed, Goto, TypeOK
  <2> QED
    BY <1>1, <1>8, <2>1, <2>2, <2>3, OthersKeepRolling DEF MarkPaused, MarkResumed
<1>9. ASSUME NEW c \in Clients, DemoteNext(c) PROVE HeadNeverLost'
  <2>1. op[c] \in [kind: {"rollback"}, target: Copy, demote: SUBSET Copy,
                   saved: SUBSET CheckpointIds]
    BY <1>9, OperationKinds DEF DemoteNext
  <2>2. PICK m \in op[c].demote : op' = [op EXCEPT ![c].saved = @ \cup {m.id}]
    BY <1>9 DEF DemoteNext
  <2>3. [op[c] EXCEPT !.saved = @ \cup {m.id}] \in Operations
    BY <2>1 DEF Operations, Copy
  <2>4. op'[c] \in Operations /\ op'[c].kind = "rollback"
    BY <2>1, <2>2, <2>3 DEF TypeOK
  <2>5. Doing(c, "rollback")'
    BY <2>4, NoneIsNothing DEF Doing
  <2> QED
    BY <2>5 DEF HeadNeverLost
<1>10. ASSUME NEW c \in Clients, Promote(c) PROVE HeadNeverLost'
  <2>1. op[c].target.id \in CheckpointIds /\ op[c].target.row \in Row
    BY <1>10, OperationKinds DEF Promote, Copy
  <2> DEFINE new == [op[c].target.row EXCEPT !.latest = TRUE, !.status = "active"]
  <2>2. new \in Row
    BY <2>1, RowEdits
  <2>3. table'[op[c].target.id] = new /\ new.latest
    BY <1>10, <2>1 DEF Promote, Upsert, TypeOK, Row
  <2>4. op[c].target.id \in Latest'
    BY <2>1, <2>2, <2>3, NoneIsNothing DEF Latest, Stored
  <2> QED
    BY <2>4 DEF HeadNeverLost
<1>11. ASSUME NEW c \in Clients, Crash(c) PROVE HeadNeverLost'
  <2>1. CASE Doing(c, "rollback")
    BY <1>11, <2>1 DEF Crash, HeadNeverLost
  <2>2. CASE ~Doing(c, "rollback")
    <3>1. torn' = torn
      BY <1>11, <2>2 DEF Crash, TypeOK
    <3>2. \A d \in Clients \ {c} : op'[d] = op[d]
      BY <1>11 DEF Crash, EndOp, TypeOK
    <3> QED
      BY <1>4, <1>11, <2>2, <3>1, <3>2 DEF Crash
  <2> QED
    BY <2>1, <2>2
<1>12. ASSUME NEW s \in InvStatuses, Work(s) PROVE HeadNeverLost'
  BY <1>12 DEF Work, HeadNeverLost, Stored, Latest, Doing
<1>13. CASE DeleteThread
  BY <1>13 DEF DeleteThread, HeadNeverLost, Stored
<1>14. CASE UNCHANGED vars
  BY <1>14 DEF vars, HeadNeverLost, Stored, Latest, Doing
<1> QED
  BY <1>5, <1>6, <1>7, <1>8, <1>9, <1>10, <1>11, <1>12, <1>13, <1>14
  DEF Next, WriteStep, PauseStep, ResumeStep, RestartStep, RollbackStep

(* A thread never loses its head to concurrency: only a rollback that is   *)
(* under way or has died leaves checkpoints without a latest one.          *)
THEOREM HeadIsKept == Spec => []HeadNeverLost
<1>1. Init => HeadNeverLost
  BY DEF Init, HeadNeverLost, Stored
<1> QED
  BY <1>1, HeadStep, CheckpointTypes, PTL DEF Spec

-----------------------------------------------------------------------------
(* Exclusive operations.  What an operation has read still covers every    *)
(* marked row when it comes to write.                                      *)
AloneOrIdle == \A c, d \in Clients : ~Idle(c) /\ ~Idle(d) => c = d

WriteCovers ==
  \A c \in Clients :
    /\ Doing(c, "write") /\ ~op[c].follows => Latest = {}
    /\ Doing(c, "insert") => Latest \subseteq op[c].demote

RollbackCovers ==
  \A c \in Clients : Doing(c, "rollback") =>
    \A k \in Latest :
      \/ k = op[c].target.id
      \/ \E m \in op[c].demote : m.id = k /\ k \notin op[c].saved

OneHeadInv == AloneOrIdle /\ AtMostOneLatest /\ WriteCovers /\ RollbackCovers

(* A step of the operation under way leaves every other client idle.       *)
LEMMA AloneStep ==
  ASSUME TypeOK, AloneOrIdle, NEW c \in Clients,
         ~Idle(c) \/ Quiet, \A d \in Clients \ {c} : op'[d] = op[d]
  PROVE  \A d \in Clients \ {c} : op'[d] = None
  BY DEF AloneOrIdle, Idle, Quiet

LEMMA AloneKeeps ==
  ASSUME NEW c \in Clients, \A d \in Clients \ {c} : op'[d] = None,
         AtMostOneLatest',
         Doing(c, "write")' /\ ~op'[c].follows => Latest' = {},
         Doing(c, "insert")' => Latest' \subseteq op'[c].demote,
         Doing(c, "rollback")' =>
           \A k \in Latest' :
             \/ k = op'[c].target.id
             \/ \E m \in op'[c].demote : m.id = k /\ k \notin op'[c].saved
  PROVE  OneHeadInv'
<1>1. \A d \in Clients : (\E kind : Doing(d, kind)') => d = c
  BY DEF Doing
<1>2. AloneOrIdle'
  BY DEF AloneOrIdle, Idle
<1> QED
  BY <1>1, <1>2 DEF OneHeadInv, WriteCovers, RollbackCovers

LEMMA OneHeadStep ==
  ASSUME Exclusive, TypeOK, OneHeadInv, [Next]_vars
  PROVE  OneHeadInv'
<1> USE DEF OneHeadInv
<1>1. UNCHANGED table => Stored' = Stored /\ Latest' = Latest
  BY DEF Stored, Latest
<1>2. UNCHANGED table => AtMostOneLatest'
  BY <1>1 DEF AtMostOneLatest
<1>3. ASSUME NEW c \in Clients, ~Idle(c) \/ Quiet,
             \/ EndOp(c)
             \/ \E o \in Operations : /\ Goto(c, o)
                                     /\ o.kind \notin {"write", "insert", "rollback"},
             AtMostOneLatest'
      PROVE  OneHeadInv'
  <2>1. \A d \in Clients \ {c} : op'[d] = op[d]
    BY <1>3 DEF EndOp, Goto, TypeOK
  <2>2. ~Doing(c, "write")' /\ ~Doing(c, "insert")' /\ ~Doing(c, "rollback")'
    BY <1>3 DEF EndOp, Goto, TypeOK, Doing
  <2> QED
    BY <1>3, <2>1, <2>2, AloneStep, AloneKeeps
<1>4. ASSUME NEW c \in Clients, NEW o \in Operations, Goto(c, o),
             ~Idle(c) \/ Quiet, UNCHANGED table,
             o.kind = "write" /\ ~o.follows => Latest = {},
             o.kind = "insert" => Latest \subseteq o.demote,
             o.kind = "rollback" =>
               \A k \in Latest :
                 \/ k = o.target.id
                 \/ \E m \in o.demote : m.id = k /\ k \notin o.saved
      PROVE  OneHeadInv'
  <2>1. op'[c] = o /\ \A d \in Clients \ {c} : op'[d] = op[d]
    BY <1>4 DEF Goto, TypeOK
  <2> QED
    BY <1>1, <1>2, <1>4, <2>1, AloneStep, AloneKeeps DEF Doing
<1>5. ASSUME NEW c \in Clients, BeginWrite(c) PROVE OneHeadInv'
  <2>1. Quiet
    BY <1>5 DEF BeginWrite, MayBegin
  <2>2. ASSUME NEW k \in Latest
        PROVE  [kind |-> "write", seq |-> table[k].seq + 1, follows |-> TRUE]
                 \in Operations
    BY <2>2, StoredRow DEF Latest, Row, Operations
  <2>3. [kind |-> "write", seq |-> 0, follows |-> FALSE] \in Operations
    BY DEF Operations
  <2> QED
    BY <1>4, <1>5, <2>1, <2>2, <2>3 DEF BeginWrite
<1>6. ASSUME NEW c \in Clients, DemoteInTransaction(c) PROVE OneHeadInv'
  <2> DEFINE o == [kind |-> "insert", seq |-> op[c].seq,
                   demote |-> IF op[c].follows THEN Latest ELSE {}]
  <2>1. op[c].seq \in Nat /\ op[c].follows \in BOOLEAN
    BY <1>6, OperationKinds DEF DemoteInTransaction
  <2>2. Latest \subseteq CheckpointIds
    BY DEF Latest, Stored
  <2>3. o \in Operations
    BY <2>1, <2>2 DEF Operations
  <2>4. ~op[c].follows => Latest = {}
    BY <1>6 DEF DemoteInTransaction, WriteCovers
  <2>5. Latest \subseteq o.demote
    BY <2>1, <2>4
  <2> QED
    BY <1>4, <1>6, <2>3, <2>5 DEF DemoteInTransaction, Idle, Doing
<1>7. ASSUME NEW c \in Clients, NEW k \in CheckpointIds, NEW p \in Payloads,
             CommitWrite(c, k, p)
      PROVE  OneHeadInv'
  <2>1. op[c].demote \in SUBSET CheckpointIds /\ Latest \subseteq op[c].demote
    BY <1>7, OperationKinds DEF CommitWrite, WriteCovers
  <2>2. ASSUME NEW j \in CheckpointIds, j # k, table'[j] # None
        PROVE  ~table'[j].latest
    <3>1. table'[j] = Demoted(op[c].demote)[j]
      BY <1>7, <2>1, <2>2, DemotedType DEF CommitWrite
    <3>2. CASE j \in op[c].demote \cap Stored
      BY <3>1, <3>2, StoredRow DEF Demoted, Row
    <3>3. CASE j \notin op[c].demote \cap Stored
      BY <2>1, <2>2, <3>1, <3>3 DEF Demoted, Latest, Stored
    <3> QED
      BY <3>2, <3>3
  <2>3. AtMostOneLatest'
    BY <2>2 DEF AtMostOneLatest, Latest, Stored
  <2> QED
    BY <1>3, <1>7, <2>3 DEF CommitWrite, Idle, Doing
<1>8. ASSUME NEW c \in Clients, MarkPaused(c) \/ MarkResumed(c)
      PROVE  OneHeadInv'
  <2>1. op[c].cp \in CheckpointIds
    BY <1>8, OperationKinds DEF MarkPaused, MarkResumed
  <2>2. AtMostOneLatest'
    BY <1>8, <2>1, MarkedKeepsHead DEF MarkPaused, MarkResumed, AtMostOneLatest
  <2>3. [kind |-> "set_paused"] \in Operations /\ [kind |-> "set_resumed"] \in Operations
    BY DEF Operations
  <2> QED
    BY <1>3, <1>8, <2>2, <2>3 DEF MarkPaused, MarkResumed, Idle, Doing
<1>9. ASSUME NEW c \in Clients, NEW kind, NEW s, SetStatus(c, kind, s)
      PROVE  OneHeadInv'
  BY <1>2, <1>3, <1>9 DEF SetStatus, Idle, Doing
<1>10. ASSUME NEW c \in Clients,
              BeginPause(c) \/ BeginResume(c) \/ BeginRestart(c)
       PROVE  OneHeadInv'
  <2>1. Quiet /\ UNCHANGED table
    BY <1>10 DEF BeginPause, BeginResume, BeginRestart, MayBegin
  <2>2. /\ \A k \in Latest : [kind |-> "pause", cp |-> k] \in Operations
        /\ [kind |-> "check"] \in Operations
        /\ [kind |-> "set_claimed"] \in Operations
    BY DEF Latest, Stored, Operations
  <2> QED
    BY <1>2, <1>3, <1>10, <2>1, <2>2 DEF BeginPause, BeginResume, BeginRestart
<1>11. ASSUME NEW c \in Clients, TakeLatest(c) \/ ResumeRefused(c) \/ Crash(c)
       PROVE  OneHeadInv'
  <2>1. ~Idle(c) /\ UNCHANGED table
    BY <1>11 DEF TakeLatest, ResumeRefused, Crash, Doing, Idle
  <2>2. \A k \in Latest : [kind |-> "resume", cp |-> k] \in Operations
    BY DEF Latest, Stored, Operations
  <2> QED
    BY <1>2, <1>3, <1>11, <2>1, <2>2 DEF TakeLatest, ResumeRefused, Crash
<1>12. ASSUME NEW c \in Clients, NEW k \in CheckpointIds, BeginRollback(c, k)
       PROVE  OneHeadInv'
  <2> DEFINE o == [kind |-> "rollback", target |-> CopyOf(k),
                   demote |-> {CopyOf(j) : j \in Latest \ {k}}, saved |-> {}]
  <2>1. Quiet /\ k \in Stored /\ Goto(c, o) /\ UNCHANGED table
    BY <1>12 DEF BeginRollback, MayBegin
  <2>2. /\ CopyOf(k) \in Copy
        /\ \A j \in Latest : CopyOf(j) \in Copy
    BY <2>1, CopyType DEF Latest
  <2>3. o \in Operations
    BY <2>2 DEF Operations
  <2>4. ASSUME NEW j \in Latest, j # k
        PROVE  \E m \in o.demote : m.id = j /\ j \notin o.saved
    <3>1. CopyOf(j) \in o.demote /\ CopyOf(j).id = j
      BY <2>4 DEF CopyOf
    <3> QED
      BY <3>1
  <2>5. o.kind = "rollback" /\ o.target.id = k
    BY DEF CopyOf
  <2> HIDE DEF o
  <2> QED
    BY <1>4, <2>1, <2>3, <2>4, <2>5
<1>13. ASSUME NEW c \in Clients, DemoteNext(c) PROVE OneHeadInv'
  <2>1. op[c] \in [kind: {"rollback"}, target: Copy, demote: SUBSET Copy,
                   saved: SUBSET CheckpointIds]
    BY <1>13, OperationKinds DEF DemoteNext
  <2>2. PICK m \in op[c].demote :
          /\ Upsert(m.id, [m.row EXCEPT !.latest = FALSE])
          /\ op' = [op EXCEPT ![c].saved = @ \cup {m.id}]
    BY <1>13 DEF DemoteNext
  <2>3. m.id \in CheckpointIds /\ m.row \in Row
    BY <2>1 DEF Copy
  <2>4. /\ op'[c].kind = "rollback"
        /\ op'[c].target = op[c].target
        /\ op'[c].demote = op[c].demote
        /\ op'[c].saved = op[c].saved \cup {m.id}
        /\ \A d \in Clients \ {c} : op'[d] = op[d]
    BY <2>1, <2>2 DEF TypeOK
  <2>5. Latest' \subseteq Latest \ {m.id}
    BY <2>2, <2>3 DEF Upsert, Latest, Stored, TypeOK, Row
  <2>6. AtMostOneLatest'
    BY <2>5 DEF AtMostOneLatest
  <2>7. \A k \in Latest' :
          \/ k = op'[c].target.id
          \/ \E n \in op'[c].demote : n.id = k /\ k \notin op'[c].saved
    BY <1>13, <2>4, <2>5 DEF RollbackCovers, DemoteNext
  <2>8. \A d \in Clients \ {c} : op'[d] = None
    BY <1>13, <2>4, AloneStep DEF DemoteNext, Idle, Doing
  <2>9. ~Doing(c, "write")' /\ ~Doing(c, "insert")'
    BY <2>4 DEF Doing
  <2> QED
    BY <2>6, <2>7, <2>8, <2>9, AloneKeeps
<1>14. ASSUME NEW c \in Clients, Promote(c) PROVE OneHeadInv'
  <2>1. op[c].target.id \in CheckpointIds
    BY <1>14, OperationKinds DEF Promote, Copy
  <2>2. Latest \subseteq {op[c].target.id}
    BY <1>14 DEF Promote, RollbackCovers
  <2>3. Latest' \subseteq {op[c].target.id}
    BY <1>14, <2>1, <2>2 DEF Promote, Upsert, Latest, Stored, TypeOK
  <2>4. AtMostOneLatest'
    BY <2>3 DEF AtMostOneLatest
  <2>5. [kind |-> "set_rolled_back"] \in Operations
    BY DEF Operations
  <2> QED
    BY <1>3, <1>14, <2>4, <2>5 DEF Promote, Idle, Doing
<1>15. ASSUME NEW s \in InvStatuses, Work(s) PROVE OneHeadInv'
  <2>1. UNCHANGED <<table, op>>
    BY <1>15 DEF Work
  <2> QED
    BY <1>1, <2>1 DEF AloneOrIdle, Idle, AtMostOneLatest, WriteCovers,
       RollbackCovers, Doing
<1>16. CASE DeleteThread
  <2>1. Quiet /\ UNCHANGED op
    BY <1>16 DEF DeleteThread
  <2>2. Latest' = {}
    BY <1>16 DEF DeleteThread, Latest, Stored
  <2> QED
    BY <2>1, <2>2 DEF AloneOrIdle, Idle, AtMostOneLatest, WriteCovers,
       RollbackCovers, Doing, Quiet
<1>17. CASE UNCHANGED vars
  BY <1>1, <1>17 DEF vars, AloneOrIdle, Idle, AtMostOneLatest, WriteCovers,
     RollbackCovers, Doing
<1> QED
  BY <1>5, <1>6, <1>7, <1>8, <1>9, <1>10, <1>11, <1>12, <1>13, <1>14, <1>15,
     <1>16, <1>17
  DEF Next, WriteStep, PauseStep, ResumeStep, RestartStep, RollbackStep

(* One operation at a time keeps one head, through crashes, rollbacks to   *)
(* older and newer checkpoints and deletions.                              *)
THEOREM OneHead == Exclusive /\ Spec => []AtMostOneLatest
<1> SUFFICES ASSUME Exclusive PROVE Spec => []AtMostOneLatest
  OBVIOUS
<1>1. Init => OneHeadInv
  BY DEF Init, OneHeadInv, AloneOrIdle, Idle, AtMostOneLatest, WriteCovers,
     RollbackCovers, Doing, Latest, Stored
<1>2. TypeOK /\ OneHeadInv /\ [Next]_vars => OneHeadInv'
  BY OneHeadStep
<1>3. OneHeadInv => AtMostOneLatest
  BY DEF OneHeadInv
<1> QED
  BY <1>1, <1>2, <1>3, CheckpointTypes, PTL DEF Spec

-----------------------------------------------------------------------------
(* The rows a rollback has read are saved back much later.  They never     *)
(* disagree with the table, or with one another, about what a checkpoint   *)
(* holds: ids are drawn once.                                              *)
SameContent(a, b) == a.seq = b.seq /\ a.payload = b.payload

Holds(c) ==
  IF Doing(c, "rollback") THEN op[c].demote \cup {op[c].target} ELSE {}

Copies == UNION {Holds(c) : c \in Clients}

CopiesAgree ==
  /\ Stored \subseteq used
  /\ \A m \in Copies : m.id \in used
  /\ \A m \in Copies : m.id \in Stored => SameContent(m.row, table[m.id])
  /\ \A m, n \in Copies : m.id = n.id => SameContent(m.row, n.row)

(* No stored row is lost or changed; every row comes from somewhere.       *)
Kept ==
  \A k \in Stored : k \in Stored' /\ SameContent(table'[k], table[k])

RowsFrom ==
  \A k \in Stored' :
    \/ k \in Stored /\ SameContent(table'[k], table[k])
    \/ k \notin used /\ k \in used'
    \/ \E m \in Copies : m.id = k /\ SameContent(table'[k], m.row)

LEMMA CopiesKept ==
  ASSUME CopiesAgree, RowsFrom, used \subseteq used', Copies' \subseteq Copies
  PROVE  CopiesAgree'
<1>1. Stored' \subseteq used'
  BY DEF CopiesAgree, RowsFrom
<1>2. ASSUME NEW m \in Copies', m.id \in Stored'
      PROVE  SameContent(m.row, table'[m.id])
  <2>1. m \in Copies /\ m.id \in used
    BY DEF CopiesAgree
  <2>2. CASE m.id \in Stored /\ SameContent(table'[m.id], table[m.id])
    BY <2>1, <2>2 DEF CopiesAgree, SameContent
  <2>3. CASE \E n \in Copies : n.id = m.id /\ SameContent(table'[m.id], n.row)
    BY <2>1, <2>3 DEF CopiesAgree, SameContent
  <2> QED
    BY <1>2, <2>1, <2>2, <2>3 DEF RowsFrom
<1> QED
  BY <1>1, <1>2 DEF CopiesAgree

LEMMA NoNewCopies ==
  ASSUME TypeOK, NEW c \in Clients,
         EndOp(c) \/ \E o \in Operations : Goto(c, o) /\ o.kind # "rollback"
  PROVE  Copies' \subseteq Copies
<1>1. \A d \in Clients \ {c} : op'[d] = op[d]
  BY DEF EndOp, Goto, TypeOK
<1>2. ~Doing(c, "rollback")'
  BY DEF EndOp, Goto, TypeOK, Doing
<1>3. \A d \in Clients : Holds(d)' \subseteq Holds(d)
  BY <1>1, <1>2 DEF Holds, Doing
<1> QED
  BY <1>3 DEF Copies

(* A row saved back holds what the row holds.                              *)
LEMMA SavedBack ==
  ASSUME TypeOK, CopiesAgree, NEW m \in Copies, NEW row \in Row,
         SameContent(row, m.row), Upsert(m.id, row), m.id \in CheckpointIds
  PROVE  Kept /\ RowsFrom
<1>1. table'[m.id] = row /\ \A k \in CheckpointIds \ {m.id} : table'[k] = table[k]
  BY DEF Upsert, TypeOK
<1>2. row # None
  BY NoneIsNothing
<1>3. m.id \in Stored => SameContent(row, table[m.id])
  BY DEF CopiesAgree, SameContent
<1> QED
  BY <1>1, <1>2, <1>3 DEF Kept, RowsFrom, Stored, SameContent

LEMMA ContentStep ==
  ASSUME TypeOK, CopiesAgree, [Next]_vars
  PROVE  CopiesAgree' /\ (Kept \/ DeleteThread)
<1>1. UNCHANGED table => Kept /\ RowsFrom
  BY DEF Kept, RowsFrom, Stored, SameContent
<1>2. ASSUME NEW c \in Clients, UNCHANGED <<table, used>>,
             EndOp(c) \/ \E o \in Operations : Goto(c, o) /\ o.kind # "rollback"
      PROVE  CopiesAgree' /\ Kept
  BY <1>1, <1>2, NoNewCopies, CopiesKept
<1>3. ASSUME NEW c \in Clients, BeginWrite(c) PROVE CopiesAgree' /\ Kept
  <2>1. \A k \in Latest :
          [kind |-> "write", seq |-> table[k].seq + 1, follows |-> TRUE] \in Operations
    BY StoredRow DEF Latest, Row, Operations
  <2>2. [kind |-> "write", seq |-> 0, follows |-> FALSE] \in Operations
    BY DEF Operations
  <2> QED
    BY <1>2, <1>3, <2>1, <2>2 DEF BeginWrite
<1>4. ASSUME NEW c \in Clients, DemoteInTransaction(c) PROVE CopiesAgree' /\ Kept
  <2>1. op[c].seq \in Nat /\ (IF op[c].follows THEN Latest ELSE {}) \subseteq CheckpointIds
    BY <1>4, OperationKinds DEF DemoteInTransaction, Latest, Stored
  <2>2. [kind |-> "insert", seq |-> op[c].seq,
         demote |-> IF op[c].follows THEN Latest ELSE {}] \in Operations
    BY <2>1 DEF Operations
  <2> QED
    BY <1>2, <1>4, <2>2 DEF DemoteInTransaction
<1>5. ASSUME NEW c \in Clients, NEW k \in CheckpointIds, NEW p \in Payloads,
             CommitWrite(c, k, p)
      PROVE  CopiesAgree' /\ Kept
  <2>1. op[c].demote \in SUBSET CheckpointIds
    BY <1>5, OperationKinds DEF CommitWrite
  <2>2. k \notin Stored
    BY <1>5 DEF CommitWrite, CopiesAgree
  <2>3. ASSUME NEW j \in CheckpointIds, j # k
        PROVE  /\ table'[j] # None <=> table[j] # None
               /\ table[j] # None => SameContent(table'[j], table[j])
    <3>1. table'[j] = Demoted(op[c].demote)[j]
      BY <1>5, <2>1, <2>3, DemotedType DEF CommitWrite
    <3>2. CASE j \in op[c].demote \cap Stored
      <4>1. table[j] \in Row /\ table'[j] = [table[j] EXCEPT !.latest = FALSE]
        BY <3>1, <3>2, StoredRow DEF Demoted
      <4>2. table'[j] \in Row
        BY <4>1, RowEdits
      <4> QED
        BY <3>2, <4>1, <4>2, NoneIsNothing DEF SameContent, Row, Stored
    <3>3. CASE j \notin op[c].demote \cap Stored
      BY <3>1, <3>3 DEF Demoted, SameContent
    <3> QED
      BY <3>2, <3>3
  <2>4. Kept
    BY <2>2, <2>3 DEF Kept, Stored
  <2>5. RowsFrom
    BY <1>5, <2>3 DEF RowsFrom, Stored, CommitWrite
  <2> QED
    BY <1>5, <2>4, <2>5, NoNewCopies, CopiesKept DEF CommitWrite
<1>6. ASSUME NEW c \in Clients, MarkPaused(c) \/ MarkResumed(c)
      PROVE  CopiesAgree' /\ Kept
  <2> DEFINE k == op[c].cp
  <2>1. PICK s \in {"active", "hitl_paused"} : table' = Marked(k, s)
    BY <1>6 DEF MarkPaused, MarkResumed
  <2>2. k \in CheckpointIds
    BY <1>6, OperationKinds DEF MarkPaused, MarkResumed
  <2>3. Stored' = Stored
    BY <2>1, <2>2, MarkedKeepsHead
  <2>4. ASSUME NEW j \in Stored PROVE SameContent(table'[j], table[j])
    BY <2>1, <2>2, <2>4, StoredRow DEF Marked, SameContent, Row, TypeOK
  <2>5. Kept /\ RowsFrom
    BY <2>3, <2>4 DEF Kept, RowsFrom
  <2>6. [kind |-> "set_paused"] \in Operations /\ [kind |-> "set_resumed"] \in Operations
    BY DEF Operations
  <2>7. Copies' \subseteq Copies
    BY <1>6, <2>6, NoNewCopies DEF MarkPaused, MarkResumed
  <2> QED
    BY <1>6, <2>5, <2>7, CopiesKept DEF MarkPaused, MarkResumed
<1>7. ASSUME NEW c \in Clients,
             BeginPause(c) \/ BeginResume(c) \/ BeginRestart(c) \/ TakeLatest(c)
      PROVE  CopiesAgree' /\ Kept
  <2>1. /\ \A k \in Latest : [kind |-> "pause", cp |-> k] \in Operations
        /\ \A k \in Latest : [kind |-> "resume", cp |-> k] \in Operations
        /\ [kind |-> "check"] \in Operations
        /\ [kind |-> "set_claimed"] \in Operations
    BY DEF Latest, Stored, Operations
  <2> QED
    BY <1>2, <1>7, <2>1 DEF BeginPause, BeginResume, BeginRestart, TakeLatest
<1>8. ASSUME NEW c \in Clients,
             ResumeRefused(c) \/ Crash(c) \/ \E kind, s : SetStatus(c, kind, s)
      PROVE  CopiesAgree' /\ Kept
  BY <1>2, <1>8 DEF ResumeRefused, Crash, SetStatus
<1>9. ASSUME NEW c \in Clients, NEW k \in CheckpointIds, BeginRollback(c, k)
      PROVE  CopiesAgree' /\ Kept
  <2> DEFINE new == {CopyOf(j) : j \in Stored}
  <2>1. UNCHANGED <<table, used>> /\ \A d \in Clients \ {c} : op'[d] = op[d]
    BY <1>9 DEF BeginRollback, Goto, TypeOK
  <2>2. \A d \in Clients \ {c} : Holds(d)' = Holds(d)
    BY <2>1 DEF Holds, Doing
  <2>3. Holds(c)' \subseteq new
    BY <1>9 DEF BeginRollback, Goto, TypeOK, Holds, Doing, Latest
  <2>4. Copies' \subseteq Copies \cup new
    BY <2>2, <2>3 DEF Copies
  <2>5. \A m \in new : m.id \in Stored /\ m.row = table[m.id]
    BY DEF CopyOf
  <2>6. Stored' = Stored
    BY <2>1 DEF Stored
  <2> HIDE DEF new
  <2>7. \A m \in Copies' : m.id \in used /\
          (m.id \in Stored => SameContent(m.row, table[m.id]))
    BY <2>4, <2>5 DEF CopiesAgree, SameContent
  <2>8. \A m, n \in Copies' : m.id = n.id => SameContent(m.row, n.row)
    BY <2>4, <2>5 DEF CopiesAgree, SameContent
  <2> QED
    BY <1>1, <2>1, <2>6, <2>7, <2>8 DEF CopiesAgree
<1>10. ASSUME NEW c \in Clients, DemoteNext(c) PROVE CopiesAgree' /\ Kept
  <2>1. op[c] \in [kind: {"rollback"}, target: Copy, demote: SUBSET Copy,
                   saved: SUBSET CheckpointIds]
    BY <1>10, OperationKinds DEF DemoteNext
  <2>2. PICK m \in op[c].demote :
          /\ Upsert(m.id, [m.row EXCEPT !.latest = FALSE])
          /\ op' = [op EXCEPT ![c].saved = @ \cup {m.id}]
    BY <1>10 DEF DemoteNext
  <2>3. m.id \in CheckpointIds /\ m.row \in Row /\ m \in Copies
    BY <1>10, <2>1 DEF Copy, Copies, Holds, DemoteNext
  <2> DEFINE row == [m.row EXCEPT !.latest = FALSE]
  <2>4. row \in Row /\ SameContent(row, m.row)
    BY <2>3, RowEdits DEF SameContent, Row
  <2>5. Kept /\ RowsFrom
    BY <2>2, <2>3, <2>4, SavedBack
  <2>6. /\ op'[c].target = op[c].target
        /\ op'[c].demote = op[c].demote
        /\ \A d \in Clients \ {c} : op'[d] = op[d]
    BY <2>1, <2>2 DEF TypeOK
  <2>7. \A d \in Clients : Holds(d)' \subseteq Holds(d)
    BY <1>10, <2>6 DEF Holds, Doing, DemoteNext
  <2>8. Copies' \subseteq Copies
    BY <2>7 DEF Copies
  <2> QED
    BY <1>10, <2>5, <2>8, CopiesKept DEF DemoteNext
<1>11. ASSUME NEW c \in Clients, Promote(c) PROVE CopiesAgree' /\ Kept
  <2> DEFINE m == op[c].target
             row == [m.row EXCEPT !.latest = TRUE, !.status = "active"]
  <2>1. m.id \in CheckpointIds /\ m.row \in Row /\ m \in Copies
    BY <1>11, OperationKinds DEF Copy, Copies, Holds, Promote
  <2>2. row \in Row
    BY <2>1, RowEdits
  <2>3. SameContent(row, m.row)
    BY <2>1 DEF SameContent, Row
  <2>4. Kept /\ RowsFrom
    BY <1>11, <2>1, <2>2, <2>3, SavedBack DEF Promote
  <2>5. [kind |-> "set_rolled_back"] \in Operations
    BY DEF Operations
  <2> QED
    BY <1>11, <2>4, <2>5, NoNewCopies, CopiesKept DEF Promote
<1>12. ASSUME NEW s \in InvStatuses, Work(s) PROVE CopiesAgree' /\ Kept
  <2>1. UNCHANGED <<table, used, op>>
    BY <1>12 DEF Work
  <2> QED
    BY <1>1, <2>1 DEF CopiesAgree, Stored, Copies, Holds, Doing
<1>13. CASE DeleteThread
  <2>1. Stored' = {} /\ UNCHANGED <<used, op>>
    BY <1>13 DEF DeleteThread, Stored
  <2>2. Copies' = Copies
    BY <2>1 DEF Copies, Holds, Doing
  <2> QED
    BY <1>13, <2>1, <2>2 DEF CopiesAgree
<1>14. CASE UNCHANGED vars
  BY <1>1, <1>14 DEF vars, CopiesAgree, Stored, Copies, Holds, Doing
<1> QED
  BY <1>3, <1>4, <1>5, <1>6, <1>7, <1>8, <1>9, <1>10, <1>11, <1>12, <1>13, <1>14
  DEF Next, WriteStep, PauseStep, ResumeStep, RestartStep, RollbackStep

(* The audit trail of a thread loses no checkpoint and changes none, but   *)
(* by the deletion of the thread; not by the stale saves of rollbacks.     *)
THEOREM HistoryKept == Spec => HistoryIsImmutable
<1>1. Init => CopiesAgree
  BY DEF Init, CopiesAgree, Copies, Holds, Doing, Stored
<1>2. TypeOK /\ CopiesAgree /\ [Next]_vars => CopiesAgree'
  BY ContentStep
<1>3. TypeOK /\ CopiesAgree /\ [Next]_vars =>
        [\A k \in Stored :
           \/ table'[k] # None /\ table'[k].seq = table[k].seq
                               /\ table'[k].payload = table[k].payload
           \/ \A j \in CheckpointIds : table'[j] = None]_vars
  BY ContentStep DEF Kept, SameContent, Stored, DeleteThread
<1> QED
  BY <1>1, <1>2, <1>3, CheckpointTypes, PTL DEF Spec, HistoryIsImmutable

-----------------------------------------------------------------------------
(* What an exclusive operation has read is still so when it writes: a      *)
(* write builds on the head of now, a rollback holds at most the head and  *)
(* its target is there, and what is about to be paused, or is, has a       *)
(* checkpoint.                                                             *)
BuildsOnHead(c) ==
  Doing(c, "write") \/ Doing(c, "insert") =>
    /\ Latest = {} => op[c].seq = 0
    /\ \A k \in Latest : op[c].seq = table[k].seq + 1

RewindsHead(c) ==
  Doing(c, "rollback") =>
    /\ op[c].target.id \in Stored
    /\ \A m, n \in op[c].demote : m = n
    /\ \A m \in op[c].demote : m.id \in op[c].saved \/ m.id \in Latest
    /\ op[c].saved \subseteq {m.id : m \in op[c].demote}

PausesRow(c) == Doing(c, "pause") \/ Doing(c, "set_paused") => Stored # {}

Sound(c) == BuildsOnHead(c) /\ RewindsHead(c) /\ PausesRow(c)

WaitsOnRow == inv = "hitl_paused" => Stored # {}

ChainInv == WaitsOnRow /\ \A c \in Clients : Sound(c)

LEMMA IdleSound == ASSUME NEW c, Idle(c) PROVE Sound(c)
  BY DEF Idle, Sound, BuildsOnHead, RewindsHead, PausesRow, Doing

(* The operation under way ends.                                           *)
LEMMA EndKeeps ==
  ASSUME TypeOK, AloneOrIdle, NEW c \in Clients, ~Idle(c), EndOp(c), WaitsOnRow'
  PROVE  ChainInv' /\ Quiet'
<1>1. \A d \in Clients \ {c} : op'[d] = op[d]
  BY DEF EndOp, TypeOK
<1>2. \A d \in Clients : op'[d] = None
  BY <1>1, AloneStep DEF EndOp, TypeOK
<1>3. ASSUME NEW d \in Clients PROVE Sound(d)'
  BY <1>2 DEF Sound, BuildsOnHead, RewindsHead, PausesRow, Doing
<1> QED
  BY <1>2, <1>3 DEF ChainInv, Quiet, Idle

(* The operation under way, or the first one, goes on as o.                *)
LEMMA GotoKeeps ==
  ASSUME TypeOK, AloneOrIdle, NEW c \in Clients, ~Idle(c) \/ Quiet,
         NEW o \in Operations, Goto(c, o), WaitsOnRow', UNCHANGED <<Stored, Latest>>,
         o.kind \in {"write", "insert"} =>
           /\ Latest = {} => o.seq = 0
           /\ \A k \in Latest : o.seq = table'[k].seq + 1,
         o.kind = "rollback" =>
           /\ o.target.id \in Stored
           /\ \A m, n \in o.demote : m = n
           /\ \A m \in o.demote : m.id \in o.saved \/ m.id \in Latest
           /\ o.saved \subseteq {m.id : m \in o.demote},
         o.kind \in {"pause", "set_paused"} => Stored # {}
  PROVE  ChainInv'
<1>1. op'[c] = o /\ \A d \in Clients \ {c} : op'[d] = op[d]
  BY DEF Goto, TypeOK
<1>2. \A d \in Clients \ {c} : op'[d] = None
  BY <1>1, AloneStep
<1>3. ASSUME NEW d \in Clients \ {c} PROVE Sound(d)'
  BY <1>2 DEF Sound, BuildsOnHead, RewindsHead, PausesRow, Doing
<1>4. /\ BuildsOnHead(c)'
      /\ RewindsHead(c)'
      /\ PausesRow(c)'
  BY <1>1 DEF BuildsOnHead, RewindsHead, PausesRow, Doing
<1> QED
  BY <1>3, <1>4 DEF ChainInv, Sound

LEMMA SameTable == UNCHANGED table => UNCHANGED <<Stored, Latest>>
  BY DEF Stored, Latest

LEMMA ChainStep ==
  ASSUME Exclusive, TypeOK, OneHeadInv, CopiesAgree, ChainInv, [Next]_vars
  PROVE  ChainInv'
<1> USE DEF OneHeadInv, ChainInv
<1>1. ASSUME NEW c \in Clients, NEW k \in Latest
      PROVE  /\ [kind |-> "write", seq |-> table[k].seq + 1, follows |-> TRUE]
                   \in Operations
             /\ [kind |-> "pause", cp |-> k] \in Operations
             /\ [kind |-> "resume", cp |-> k] \in Operations
             /\ table[k].seq \in Nat /\ k \in Stored
  BY StoredRow DEF Latest, Stored, Row, Operations
<1>2. /\ [kind |-> "write", seq |-> 0, follows |-> FALSE] \in Operations
      /\ \A kind \in {"check", "set_paused", "set_resumed", "set_claimed",
                      "set_rolled_back"} : [kind |-> kind] \in Operations
  BY DEF Operations
<1>3. UNCHANGED <<table, inv>> => WaitsOnRow'
  BY DEF WaitsOnRow, Stored
<1>4. ASSUME NEW c \in Clients, BeginWrite(c) PROVE ChainInv'
  <2>1. Quiet /\ UNCHANGED <<table, inv>>
    BY <1>4 DEF BeginWrite, MayBegin
  <2>2. ASSUME Latest = {}, Goto(c, [kind |-> "write", seq |-> 0, follows |-> FALSE])
        PROVE  ChainInv'
    BY <1>2, <1>3, <2>1, <2>2, GotoKeeps, SameTable
  <2>3. ASSUME NEW k \in Latest,
               Goto(c, [kind |-> "write", seq |-> table[k].seq + 1, follows |-> TRUE])
        PROVE  ChainInv'
    <3>1. \A j \in Latest : table[j] = table[k]
      BY <2>3 DEF AtMostOneLatest
    <3> QED
      BY <1>1, <1>3, <2>1, <2>3, <3>1, GotoKeeps, SameTable
  <2> QED
    BY <1>4, <2>2, <2>3 DEF BeginWrite
<1>5. ASSUME NEW c \in Clients, DemoteInTransaction(c) PROVE ChainInv'
  <2> DEFINE o == [kind |-> "insert", seq |-> op[c].seq,
                   demote |-> IF op[c].follows THEN Latest ELSE {}]
  <2>1. op[c].seq \in Nat /\ Latest \subseteq CheckpointIds
    BY <1>5, OperationKinds DEF DemoteInTransaction, Latest, Stored
  <2>2. o \in Operations
    BY <2>1 DEF Operations
  <2>3. BuildsOnHead(c) /\ Doing(c, "write")
    BY <1>5 DEF DemoteInTransaction, Sound
  <2>4. /\ Latest = {} => o.seq = 0
        /\ \A k \in Latest : o.seq = table[k].seq + 1
    BY <2>3 DEF BuildsOnHead
  <2>5. ~Idle(c) /\ Goto(c, o) /\ UNCHANGED <<table, inv>>
    BY <1>5 DEF DemoteInTransaction, Idle, Doing
  <2>6. o.kind = "insert"
    OBVIOUS
  <2> HIDE DEF o
  <2> QED
    BY <1>3, <2>2, <2>4, <2>5, <2>6, GotoKeeps, SameTable
<1>6. ASSUME NEW c \in Clients, NEW k \in CheckpointIds, NEW p \in Payloads,
             CommitWrite(c, k, p)
      PROVE  ChainInv'
  <2>1. op[c].demote \in SUBSET CheckpointIds /\ op[c].seq \in Nat
    BY <1>6, OperationKinds DEF CommitWrite
  <2>2. table'[k] = [seq |-> op[c].seq, latest |-> TRUE, status |-> "active",
                     payload |-> p]
    BY <1>6, <2>1, DemotedType DEF CommitWrite
  <2>3. table'[k] \in Row
    BY <2>1, <2>2 DEF Row
  <2>4. k \in Stored'
    BY <2>3, NoneIsNothing DEF Stored
  <2> QED
    BY <1>6, <2>4, EndKeeps DEF CommitWrite, WaitsOnRow, Idle, Doing
<1>7. ASSUME NEW c \in Clients, BeginPause(c) \/ TakeLatest(c)
      PROVE  ChainInv'
  <2>1. PICK k \in Latest : \/ BeginPause(c) /\ Goto(c, [kind |-> "pause", cp |-> k])
                            \/ TakeLatest(c) /\ Goto(c, [kind |-> "resume", cp |-> k])
    BY <1>7 DEF BeginPause, TakeLatest
  <2>2. UNCHANGED <<table, inv>> /\ (~Idle(c) \/ Quiet)
    BY <1>7 DEF BeginPause, TakeLatest, MayBegin, Idle, Doing
  <2> QED
    BY <1>1, <1>3, <2>1, <2>2, GotoKeeps, SameTable
<1>8. ASSUME NEW c \in Clients, MarkPaused(c) \/ MarkResumed(c) PROVE ChainInv'
  <2>1. PICK kind \in {"set_paused", "set_resumed"} :
          /\ Goto(c, [kind |-> kind])
          /\ kind = "set_paused" => Doing(c, "pause")
          /\ kind = "set_resumed" => Doing(c, "resume")
    BY <1>8 DEF MarkPaused, MarkResumed
  <2>2. op[c].cp \in CheckpointIds
    BY <1>8, OperationKinds DEF MarkPaused, MarkResumed
  <2>3. UNCHANGED <<Stored, Latest, inv>>
    BY <1>8, <2>2, MarkedKeepsHead DEF MarkPaused, MarkResumed
  <2>4. ~Idle(c) /\ PausesRow(c)
    BY <1>8 DEF MarkPaused, MarkResumed, Idle, Doing, Sound
  <2>5. WaitsOnRow'
    BY <2>3 DEF WaitsOnRow
  <2>6. [kind |-> kind] \in Operations
    BY <1>2
  <2>7. kind = "set_paused" => Stored # {}
    BY <2>1, <2>3, <2>4 DEF PausesRow
  <2> QED
    BY <2>1, <2>3, <2>4, <2>5, <2>6, <2>7, GotoKeeps
<1>9. ASSUME NEW c \in Clients, BeginResume(c) \/ BeginRestart(c) PROVE ChainInv'
  <2>1. PICK kind \in {"check", "set_claimed"} : Goto(c, [kind |-> kind])
    BY <1>9 DEF BeginResume, BeginRestart
  <2>2. UNCHANGED <<table, inv>> /\ Quiet
    BY <1>9 DEF BeginResume, BeginRestart, MayBegin
  <2> QED
    BY <1>2, <1>3, <2>1, <2>2, GotoKeeps, SameTable
<1>10. ASSUME NEW c \in Clients, ResumeRefused(c) \/ Crash(c) PROVE ChainInv'
  BY <1>3, <1>10, EndKeeps DEF ResumeRefused, Crash, Idle, Doing
<1>11. ASSUME NEW c \in Clients, NEW kind, NEW s, SetStatus(c, kind, s),
              s = "hitl_paused" => kind = "set_paused"
       PROVE  ChainInv'
  <2>1. s = "hitl_paused" => Stored # {}
    BY <1>11 DEF SetStatus, Sound, PausesRow
  <2>2. WaitsOnRow'
    BY <1>11, <2>1, SameTable DEF SetStatus, WaitsOnRow
  <2> QED
    BY <1>11, <2>2, EndKeeps DEF SetStatus, Idle, Doing
<1>12. ASSUME NEW c \in Clients, NEW k \in CheckpointIds, BeginRollback(c, k)
       PROVE  ChainInv'
  <2> DEFINE o == [kind |-> "rollback", target |-> CopyOf(k),
                   demote |-> {CopyOf(j) : j \in Latest \ {k}}, saved |-> {}]
  <2>1. Quiet /\ k \in Stored /\ Goto(c, o) /\ UNCHANGED <<table, inv>>
    BY <1>12 DEF BeginRollback, MayBegin
  <2>2. /\ CopyOf(k) \in Copy
        /\ \A j \in Latest : CopyOf(j) \in Copy
    BY <2>1, CopyType DEF Latest
  <2>3. o \in Operations
    BY <2>2 DEF Operations
  <2>4. /\ o.target.id \in Stored
        /\ \A m, n \in o.demote : m = n
        /\ \A m \in o.demote : m.id \in o.saved \/ m.id \in Latest
        /\ o.saved \subseteq {m.id : m \in o.demote}
    BY <2>1 DEF CopyOf, AtMostOneLatest
  <2>5. o.kind = "rollback"
    OBVIOUS
  <2> HIDE DEF o
  <2> QED
    BY <1>3, <2>1, <2>3, <2>4, <2>5, GotoKeeps, SameTable
<1>13. ASSUME NEW c \in Clients, DemoteNext(c) PROVE ChainInv'
  <2>1. op[c] \in [kind: {"rollback"}, target: Copy, demote: SUBSET Copy,
                   saved: SUBSET CheckpointIds]
    BY <1>13, OperationKinds DEF DemoteNext
  <2>2. PICK m \in op[c].demote :
          /\ Upsert(m.id, [m.row EXCEPT !.latest = FALSE])
          /\ op' = [op EXCEPT ![c].saved = @ \cup {m.id}]
    BY <1>13 DEF DemoteNext
  <2>3. m.id \in CheckpointIds /\ m.row \in Row
    BY <2>1 DEF Copy
  <2>4. [m.row EXCEPT !.latest = FALSE] \in Row
    BY <2>3, RowEdits
  <2>5. Stored' = Stored \cup {m.id}
    BY <2>2, <2>3, <2>4, NoneIsNothing DEF Upsert, Stored, TypeOK
  <2>6. /\ op'[c].kind = "rollback"
        /\ op'[c].target = op[c].target
        /\ op'[c].demote = op[c].demote
        /\ op'[c].saved = op[c].saved \cup {m.id}
        /\ \A d \in Clients \ {c} : op'[d] = op[d]
    BY <2>1, <2>2 DEF TypeOK
  <2>7. RewindsHead(c) /\ Doing(c, "rollback")
    BY <1>13 DEF DemoteNext, Sound
  <2>8. RewindsHead(c)'
    BY <2>2, <2>5, <2>6, <2>7 DEF RewindsHead
  <2>9. Sound(c)'
    BY <2>6, <2>8 DEF Sound, BuildsOnHead, PausesRow, Doing
  <2>10. \A d \in Clients \ {c} : op'[d] = None
    BY <2>6, <2>7, AloneStep DEF Idle, Doing
  <2>11. ASSUME NEW d \in Clients \ {c} PROVE Sound(d)'
    BY <2>10 DEF Sound, BuildsOnHead, RewindsHead, PausesRow, Doing
  <2>12. WaitsOnRow'
    BY <1>13, <2>5 DEF DemoteNext, WaitsOnRow
  <2> QED
    BY <2>9, <2>11, <2>12
<1>14. ASSUME NEW c \in Clients, Promote(c) PROVE ChainInv'
  <2>1. op[c].target.id \in CheckpointIds /\ op[c].target.row \in Row
    BY <1>14, OperationKinds DEF Promote, Copy
  <2>2. RewindsHead(c) /\ Doing(c, "rollback") /\ ~Idle(c)
    BY <1>14 DEF Promote, Sound, Idle, Doing
  <2> DEFINE new == [op[c].target.row EXCEPT !.latest = TRUE, !.status = "active"]
  <2>3. new \in Row
    BY <2>1, RowEdits
  <2>4. table' = [table EXCEPT ![op[c].target.id] = new]
    BY <1>14 DEF Promote, Upsert
  <2> HIDE DEF new
  <2>5. op[c].target.id \in Stored'
    BY <2>1, <2>3, <2>4, NoneIsNothing DEF Stored, TypeOK
  <2>6. WaitsOnRow'
    BY <2>5 DEF WaitsOnRow
  <2>7. \A d \in Clients \ {c} : op'[d] = op[d]
    BY <1>14 DEF Promote, Goto, TypeOK
  <2>8. \A d \in Clients \ {c} : op'[d] = None
    BY <2>2, <2>7, AloneStep
  <2>9. op'[c] = [kind |-> "set_rolled_back"]
    BY <1>14 DEF Promote, Goto, TypeOK
  <2>10. ASSUME NEW d \in Clients PROVE Sound(d)'
    BY <2>8, <2>9 DEF Sound, BuildsOnHead, RewindsHead, PausesRow, Doing
  <2> QED
    BY <2>6, <2>10
<1>15. ASSUME NEW s \in InvStatuses, Work(s) PROVE ChainInv'
  <2>1. Quiet /\ UNCHANGED <<table, op>> /\ inv' # "hitl_paused"
    BY <1>15 DEF Work, Terminal
  <2>2. \A c \in Clients : Idle(c)'
    BY <2>1 DEF Quiet, Idle
  <2>3. ASSUME NEW c \in Clients PROVE Sound(c)'
    BY <2>2 DEF Idle, Sound, BuildsOnHead, RewindsHead, PausesRow, Doing
  <2> QED
    BY <2>1, <2>3 DEF WaitsOnRow
<1>16. CASE DeleteThread
  <2>1. Quiet /\ UNCHANGED <<inv, op>> /\ inv # "hitl_paused"
    BY <1>16 DEF DeleteThread, Terminal
  <2>2. \A c \in Clients : Idle(c)'
    BY <2>1 DEF Quiet, Idle
  <2>3. ASSUME NEW c \in Clients PROVE Sound(c)'
    BY <2>2 DEF Idle, Sound, BuildsOnHead, RewindsHead, PausesRow, Doing
  <2> QED
    BY <2>1, <2>3 DEF WaitsOnRow
<1>17. CASE UNCHANGED vars
  BY <1>17 DEF vars, WaitsOnRow, Sound, BuildsOnHead, RewindsHead,
     PausesRow, Doing, Stored, Latest
<1> QED
  BY <1>4, <1>5, <1>6, <1>7, <1>8, <1>9, <1>10, <1>11, <1>12, <1>13, <1>14,
     <1>15, <1>16, <1>17
  DEF Next, WriteStep, PauseStep, ResumeStep, RestartStep, RollbackStep

(* The invariant of exclusive operations, with what it rests on.           *)
ExclusiveInv == TypeOK /\ OneHeadInv /\ CopiesAgree /\ ChainInv

LEMMA ExclusiveInvariant == Exclusive /\ Spec => []ExclusiveInv
<1> SUFFICES ASSUME Exclusive PROVE Spec => []ExclusiveInv
  OBVIOUS
<1>1. Init => ExclusiveInv
  <2> SUFFICES ASSUME Init PROVE ExclusiveInv
    OBVIOUS
  <2>1. TypeOK
    BY DEF Init, TypeOK, InvStatuses
  <2>2. Stored = {} /\ \A c \in Clients : Idle(c)
    BY DEF Init, Stored, Idle
  <2>3. OneHeadInv
    BY <2>2 DEF OneHeadInv, AloneOrIdle, Idle, AtMostOneLatest, WriteCovers,
       RollbackCovers, Doing, Latest
  <2>4. CopiesAgree
    BY <2>2 DEF CopiesAgree, Copies, Holds, Doing, Idle
  <2>5. ChainInv
    BY <2>2, IdleSound DEF ChainInv, WaitsOnRow, Init
  <2> QED
    BY <2>1, <2>3, <2>4, <2>5 DEF ExclusiveInv
<1>2. ExclusiveInv /\ [Next]_vars => ExclusiveInv'
  BY TypeStep, OneHeadStep, ContentStep, ChainStep DEF ExclusiveInv
<1> QED
  BY <1>1, <1>2, PTL DEF Spec

(* An investigation that waits for a human has a checkpoint to resume      *)
(* from, unless a rollback is between its statements or has died there:    *)
(* the retention job deletes only what has ended, and nothing is paused    *)
(* without a checkpoint.                                                   *)
THEOREM PausedKeepsCheckpoint == Exclusive /\ Spec => []PausedHasCheckpoint
<1>1. ExclusiveInv /\ HeadNeverLost => PausedHasCheckpoint
  BY DEF ExclusiveInv, ChainInv, WaitsOnRow, HeadNeverLost, PausedHasCheckpoint
<1> QED
  BY <1>1, ExclusiveInvariant, HeadIsKept, PTL

-----------------------------------------------------------------------------
(* The head as the refinement mapping computes it.                         *)
Moved(c) == Doing(c, "rollback") /\ op[c].saved # {}

HeadFact ==
  /\ AtMostOneLatest /\ (\A c \in Clients : ~Moved(c)) =>
       /\ Latest = {} => Head = None
       /\ \A k \in Latest : Head = k
  /\ \A c \in Clients : \A k \in CheckpointIds :
       /\ Doing(c, "rollback")
       /\ op[c].saved = {k}
       /\ \A d \in Clients \ {c} : Idle(d)
       => Head = k

LEMMA HeadIs == HeadFact
<1>1. ASSUME AtMostOneLatest, \A c \in Clients : ~Moved(c)
      PROVE  /\ Latest = {} => Head = None
             /\ \A k \in Latest : Head = k
  <2>1. {c \in Clients : Doing(c, "rollback") /\ op[c].saved # {}} = {}
    BY <1>1 DEF Moved
  <2>2. Head = IF Latest = {} THEN None ELSE CHOOSE k \in Latest : TRUE
    BY <2>1 DEF Head
  <2> QED
    BY <1>1, <2>2 DEF AtMostOneLatest
<1>2. ASSUME NEW c \in Clients, NEW k \in CheckpointIds,
             Doing(c, "rollback"), op[c].saved = {k},
             \A d \in Clients \ {c} : Idle(d)
      PROVE  Head = k
  <2> DEFINE rolling == {d \in Clients : Doing(d, "rollback") /\ op[d].saved # {}}
  <2>1. rolling = {c}
    BY <1>2 DEF Idle, Doing
  <2>2. \A j : (\E d \in rolling : j \in op[d].saved) <=> j = k
    BY <1>2, <2>1
  <2>3. Head = CHOOSE j \in CheckpointIds : \E d \in rolling : j \in op[d].saved
    BY <2>1 DEF Head
  <2> QED
    BY <2>2, <2>3
<1> QED
  BY <1>1, <1>2 DEF HeadFact

LEMMA HeadIsNext == HeadFact'
  BY HeadIs, PTL

(* A step of the operation under way, or of the first one, finds the       *)
(* others idle and leaves them so.                                         *)
LEMMA OthersIdle ==
  ASSUME TypeOK, AloneOrIdle, NEW c \in Clients, ~Idle(c) \/ Quiet,
         \A d \in Clients \ {c} : op'[d] = op[d]
  PROVE  /\ \A d \in Clients \ {c} : Idle(d) /\ ~Moved(d)
         /\ \A d \in Clients \ {c} : Idle(d)' /\ ~Moved(d)'
  BY AloneStep DEF AloneOrIdle, Quiet, Idle, Moved, Doing

(* A step that moves no mark moves no head.                                *)
LEMMA HeadStays ==
  ASSUME TypeOK, AloneOrIdle, AtMostOneLatest, AtMostOneLatest',
         NEW c \in Clients, ~Idle(c) \/ Quiet,
         \A d \in Clients \ {c} : op'[d] = op[d],
         ~Moved(c), ~Moved(c)', UNCHANGED Latest
  PROVE  UNCHANGED Head
<1>1. (\A d \in Clients : ~Moved(d)) /\ (\A d \in Clients : ~Moved(d)')
  BY OthersIdle
<1>2. /\ Latest = {} => Head = None
      /\ \A k \in Latest : Head = k
  BY <1>1, HeadIs DEF HeadFact
<1>3. /\ Latest' = {} => Head' = None
      /\ \A k \in Latest' : Head' = k
  BY <1>1, HeadIsNext DEF HeadFact
<1> QED
  BY <1>2, <1>3

(* Rows that keep their sequence numbers keep the log.                     *)
LEMMA LogStays ==
  ASSUME TypeOK, Stored' = Stored, \A k \in Stored : table'[k].seq = table[k].seq
  PROVE  UNCHANGED Log
<1>1. \A k \in CheckpointIds : (table'[k] = None) <=> (table[k] = None)
  BY DEF Stored
<1> QED
  BY <1>1 DEF Log, Stored

(* An entry of the log is a number exactly where a row is stored.          *)
LEMMA LogEntries ==
  ASSUME TypeOK
  PROVE  /\ DOMAIN Log = CheckpointIds
         /\ \A k \in Stored : Log[k] = table[k].seq /\ Log[k] # None
         /\ \A k \in CheckpointIds \ Stored : Log[k] = None
<1>1. \A k \in Stored : table[k].seq \in Nat
  BY StoredRow DEF Row
<1> QED
  BY <1>1, NoneIsNothing DEF Log, Stored

(* A step that begins, carries on or ends an operation without touching    *)
(* the marks stutters, unless a rollback that had demoted the head dies.   *)
LEMMA Stutters ==
  ASSUME TypeOK, AloneOrIdle, AtMostOneLatest, NEW c \in Clients,
         ~Idle(c) \/ Quiet, ~Moved(c), UNCHANGED table,
         EndOp(c) \/ \E o \in Operations : Goto(c, o) /\ (o.kind = "rollback" => o.saved = {})
  PROVE  UNCHANGED <<Log, Head>>
<1>1. \A d \in Clients \ {c} : op'[d] = op[d]
  BY DEF EndOp, Goto, TypeOK
<1>2. ~Moved(c)'
  BY DEF EndOp, Goto, TypeOK, Moved, Doing
<1>3. UNCHANGED <<Stored, Latest>> /\ AtMostOneLatest'
  BY SameTable DEF AtMostOneLatest
<1> QED
  BY <1>1, <1>2, <1>3, HeadStays, LogStays

(* The committed write appends to the log and moves the head to it.        *)
LEMMA WriteAppends ==
  ASSUME ExclusiveInv, ExclusiveInv', NEW c \in Clients, NEW k \in CheckpointIds,
         NEW p \in Payloads, CommitWrite(c, k, p)
  PROVE  Chain!Append(k)
<1> USE DEF ExclusiveInv
<1>1. op[c].demote \in SUBSET CheckpointIds /\ op[c].seq \in Nat
  BY OperationKinds DEF CommitWrite
<1>2. \A d \in Clients \ {c} : op'[d] = op[d]
  BY DEF CommitWrite, EndOp, TypeOK
<1>3. ~Idle(c) /\ ~Moved(c) /\ ~Moved(c)'
  BY DEF CommitWrite, EndOp, TypeOK, Idle, Moved, Doing
<1>4. k \notin Stored
  BY DEF CommitWrite, CopiesAgree
<1>5. table'[k] = [seq |-> op[c].seq, latest |-> TRUE, status |-> "active",
                   payload |-> p]
  BY <1>1, DemotedType DEF CommitWrite
<1>6. table'[k] \in Row
  BY <1>1, <1>5 DEF Row
<1>7. k \in Latest' /\ k \in Stored'
  BY <1>5, <1>6, NoneIsNothing DEF Latest, Stored
<1>8. ASSUME NEW j \in CheckpointIds, j # k
      PROVE  /\ table'[j] # None <=> table[j] # None
             /\ table[j] # None => table'[j].seq = table[j].seq
  <2>1. table'[j] = Demoted(op[c].demote)[j]
    BY <1>1, <1>8, DemotedType DEF CommitWrite
  <2>2. CASE j \in op[c].demote \cap Stored
    <3>1. table[j] \in Row /\ table'[j] = [table[j] EXCEPT !.latest = FALSE]
      BY <2>1, <2>2, StoredRow DEF Demoted
    <3>2. table'[j] \in Row
      BY <3>1, RowEdits
    <3> QED
      BY <2>2, <3>1, <3>2, NoneIsNothing DEF Row, Stored
  <2>3. CASE j \notin op[c].demote \cap Stored
    BY <2>1, <2>3 DEF Demoted
  <2> QED
    BY <2>2, <2>3
<1>9. Log' = [Log EXCEPT ![k] = op[c].seq]
  <2>1. table'[k].seq = op[c].seq
    BY <1>5
  <2>2. table'[k] # None
    BY <1>6, NoneIsNothing
  <2>3. \A j \in CheckpointIds : Log'[j] = IF j = k THEN op[c].seq ELSE Log[j]
    BY <1>8, <2>1, <2>2 DEF Log
  <2>4. Log' = [j \in CheckpointIds |-> Log'[j]] /\ DOMAIN Log = CheckpointIds
    BY DEF Log
  <2> QED
    BY <2>3, <2>4
<1>10. (\A d \in Clients : ~Moved(d)) /\ (\A d \in Clients : ~Moved(d)')
  BY <1>2, <1>3, OthersIdle DEF OneHeadInv
<1>11. Head' = k
  BY <1>7, <1>10, HeadIsNext DEF HeadFact, OneHeadInv
<1>12. op[c].seq = IF Head = None THEN 0 ELSE Log[Head] + 1
  <2>1. BuildsOnHead(c)
    BY DEF CommitWrite, ChainInv, Sound
  <2>2. /\ Latest = {} => Head = None
        /\ \A j \in Latest : Head = j
    BY <1>10, HeadIs DEF HeadFact, OneHeadInv
  <2>3. CASE Latest = {}
    BY <2>1, <2>2, <2>3 DEF BuildsOnHead, CommitWrite
  <2>4. ASSUME NEW j \in Latest PROVE op[c].seq = Log[j] + 1 /\ j # None
    <3>1. j \in Stored /\ j \in CheckpointIds
      BY DEF Latest, Stored
    <3> QED
      BY <2>1, <3>1, LogEntries, CheckpointAssumption DEF BuildsOnHead, CommitWrite
  <2> QED
    BY <2>2, <2>3, <2>4
<1>13. Log[k] = None
  BY <1>4, LogEntries
<1> QED
  BY <1>9, <1>11, <1>12, <1>13 DEF Chain!Append

(* A demotion by a rollback hides the head in the table, not from the      *)
(* chain.                                                                  *)
LEMMA DemotionStutters ==
  ASSUME ExclusiveInv, ExclusiveInv', NEW c \in Clients, DemoteNext(c)
  PROVE  UNCHANGED <<Log, Head>>
<1> USE DEF ExclusiveInv
<1>1. op[c] \in [kind: {"rollback"}, target: Copy, demote: SUBSET Copy,
                 saved: SUBSET CheckpointIds]
  BY OperationKinds DEF DemoteNext
<1>2. PICK m \in op[c].demote :
        /\ m.id \notin op[c].saved
        /\ Upsert(m.id, [m.row EXCEPT !.latest = FALSE])
        /\ op' = [op EXCEPT ![c].saved = @ \cup {m.id}]
  BY DEF DemoteNext
<1>3. m.id \in CheckpointIds /\ m.row \in Row /\ m \in Copies
  BY <1>1 DEF Copy, Copies, Holds, DemoteNext
<1>4. RewindsHead(c) /\ Doing(c, "rollback")
  BY DEF DemoteNext, ChainInv, Sound
<1>5. op[c].saved = {} /\ m.id \in Latest
  BY <1>2, <1>4 DEF RewindsHead
<1>6. /\ op'[c].kind = "rollback"
      /\ op'[c].saved = {m.id}
      /\ op'[c] # None
      /\ \A d \in Clients \ {c} : op'[d] = op[d]
  <2>1. [op[c] EXCEPT !.saved = @ \cup {m.id}] \in Operations
    BY <1>1, <1>3 DEF Operations
  <2> QED
    BY <1>1, <1>2, <1>5, <2>1, NoneIsNothing DEF TypeOK
<1>7. /\ \A d \in Clients \ {c} : Idle(d) /\ ~Moved(d)
      /\ \A d \in Clients \ {c} : Idle(d)'
  BY <1>4, <1>6, OthersIdle DEF OneHeadInv, Idle, Doing
<1>8. Head = m.id
  BY <1>5, <1>7, HeadIs DEF HeadFact, Moved, OneHeadInv
<1>9. Head' = m.id
  BY <1>3, <1>6, <1>7, HeadIsNext DEF HeadFact, Doing
<1>10. m.id \in Stored /\ SameContent(m.row, table[m.id])
  BY <1>3, <1>5 DEF Latest, CopiesAgree
<1>11. UNCHANGED Log
  <2> DEFINE row == [m.row EXCEPT !.latest = FALSE]
  <2>1. row \in Row /\ row.seq = m.row.seq
    BY <1>3, RowEdits DEF Row
  <2>2. table'[m.id] = row /\ \A j \in CheckpointIds \ {m.id} : table'[j] = table[j]
    BY <1>2, <1>3 DEF Upsert, TypeOK
  <2> HIDE DEF row
  <2>3. Stored' = Stored
    BY <1>10, <2>1, <2>2, NoneIsNothing DEF Stored
  <2>4. \A j \in Stored : table'[j].seq = table[j].seq
    BY <1>10, <2>1, <2>2 DEF SameContent, Stored
  <2> QED
    BY <2>3, <2>4, LogStays
<1> QED
  BY <1>8, <1>9, <1>11

(* The promotion moves the head to a checkpoint of the log, in one step.   *)
LEMMA PromotionRewinds ==
  ASSUME ExclusiveInv, ExclusiveInv', NEW c \in Clients, Promote(c)
  PROVE  Chain!Rewind(op[c].target.id)
<1> USE DEF ExclusiveInv
<1> DEFINE t == op[c].target
           row == [t.row EXCEPT !.latest = TRUE, !.status = "active"]
<1>1. t.id \in CheckpointIds /\ t.row \in Row /\ t \in Copies
  BY OperationKinds DEF Promote, Copy, Copies, Holds
<1>2. t.id \in Stored
  BY DEF Promote, ChainInv, Sound, RewindsHead
<1>3. row \in Row /\ row.latest /\ row.seq = t.row.seq
  BY <1>1, RowEdits DEF Row
<1>4. table'[t.id] = row /\ \A j \in CheckpointIds \ {t.id} : table'[j] = table[j]
  BY <1>1 DEF Promote, Upsert, TypeOK
<1>5. SameContent(t.row, table[t.id])
  BY <1>1, <1>2 DEF CopiesAgree
<1>6. \A d \in Clients \ {c} : op'[d] = op[d]
  BY DEF Promote, Goto, TypeOK
<1>7. ~Idle(c) /\ ~Moved(c)'
  BY DEF Promote, Goto, TypeOK, Idle, Doing, Moved
<1>8. \A d \in Clients : ~Moved(d)'
  BY <1>6, <1>7, OthersIdle DEF OneHeadInv
<1> HIDE DEF row, t
<1>9. t.id \in Latest'
  BY <1>1, <1>3, <1>4, NoneIsNothing DEF Latest, Stored
<1>10. Head' = t.id
  BY <1>8, <1>9, HeadIsNext DEF HeadFact, OneHeadInv
<1>11. UNCHANGED Log
  <2>1. Stored' = Stored
    BY <1>2, <1>3, <1>4, NoneIsNothing DEF Stored
  <2>2. \A j \in Stored : table'[j].seq = table[j].seq
    BY <1>3, <1>4, <1>5 DEF SameContent, Stored
  <2> QED
    BY <2>1, <2>2, LogStays
<1>12. Log[t.id] # None
  BY <1>2, LogEntries
<1> QED
  BY <1>10, <1>11, <1>12 DEF t, Chain!Rewind

LEMMA ChainSimulation ==
  ASSUME Exclusive, ExclusiveInv, ExclusiveInv', [Next]_vars
  PROVE  [Chain!CNext]_<<Log, Head>>
<1> USE DEF ExclusiveInv, OneHeadInv
<1>1. ASSUME NEW c \in Clients,
             BeginWrite(c) \/ BeginPause(c) \/ BeginResume(c) \/ BeginRestart(c)
      PROVE  UNCHANGED <<Log, Head>>
  <2>1. Quiet /\ UNCHANGED table
    BY <1>1 DEF BeginWrite, BeginPause, BeginResume, BeginRestart, MayBegin
  <2>2. ~Moved(c)
    BY <2>1 DEF Quiet, Idle, Moved, Doing
  <2>3. ASSUME NEW k \in Latest
        PROVE  /\ [kind |-> "write", seq |-> table[k].seq + 1, follows |-> TRUE]
                     \in Operations
               /\ [kind |-> "pause", cp |-> k] \in Operations
    BY StoredRow DEF Latest, Stored, Row, Operations
  <2>4. /\ [kind |-> "write", seq |-> 0, follows |-> FALSE] \in Operations
        /\ [kind |-> "check"] \in Operations
        /\ [kind |-> "set_claimed"] \in Operations
    BY DEF Operations
  <2>5. \E o \in Operations : Goto(c, o) /\ o.kind # "rollback"
    BY <1>1, <2>3, <2>4 DEF BeginWrite, BeginPause, BeginResume, BeginRestart
  <2> QED
    BY <2>1, <2>2, <2>5, Stutters
<1>2. ASSUME NEW c \in Clients, NEW k \in CheckpointIds, BeginRollback(c, k)
      PROVE  UNCHANGED <<Log, Head>>
  <2> DEFINE o == [kind |-> "rollback", target |-> CopyOf(k),
                   demote |-> {CopyOf(j) : j \in Latest \ {k}}, saved |-> {}]
  <2>1. Quiet /\ k \in Stored /\ Goto(c, o) /\ UNCHANGED table
    BY <1>2 DEF BeginRollback, MayBegin
  <2>2. CopyOf(k) \in Copy /\ \A j \in Latest : CopyOf(j) \in Copy
    BY <2>1, CopyType DEF Latest
  <2>3. o \in Operations /\ o.saved = {}
    BY <2>2 DEF Operations
  <2>4. ~Moved(c)
    BY <2>1 DEF Quiet, Idle, Moved, Doing
  <2> QED
    BY <2>1, <2>3, <2>4, Stutters
<1>3. ASSUME NEW c \in Clients, DemoteInTransaction(c) PROVE UNCHANGED <<Log, Head>>
  <2>1. op[c].seq \in Nat /\ Latest \subseteq CheckpointIds
    BY <1>3, OperationKinds DEF DemoteInTransaction, Latest, Stored
  <2>2. [kind |-> "insert", seq |-> op[c].seq,
         demote |-> IF op[c].follows THEN Latest ELSE {}] \in Operations
    BY <2>1 DEF Operations
  <2>3. ~Idle(c) /\ ~Moved(c) /\ UNCHANGED table
    BY <1>3 DEF DemoteInTransaction, Idle, Moved, Doing
  <2> QED
    BY <1>3, <2>2, <2>3, Stutters DEF DemoteInTransaction
<1>4. ASSUME NEW c \in Clients, TakeLatest(c) \/ ResumeRefused(c)
      PROVE  UNCHANGED <<Log, Head>>
  <2>1. ~Idle(c) /\ ~Moved(c) /\ UNCHANGED table
    BY <1>4 DEF TakeLatest, ResumeRefused, Idle, Moved, Doing
  <2>2. \A k \in Latest : [kind |-> "resume", cp |-> k] \in Operations
    BY DEF Latest, Stored, Operations
  <2> QED
    BY <1>4, <2>1, <2>2, Stutters DEF TakeLatest, ResumeRefused
<1>5. ASSUME NEW c \in Clients, NEW kind, NEW s, kind # "rollback",
             SetStatus(c, kind, s)
      PROVE  UNCHANGED <<Log, Head>>
  <2>1. ~Idle(c) /\ ~Moved(c) /\ UNCHANGED table /\ EndOp(c)
    BY <1>5 DEF SetStatus, Idle, Moved, Doing
  <2> QED
    BY <2>1, Stutters
<1>6. ASSUME NEW c \in Clients, MarkPaused(c) \/ MarkResumed(c)
      PROVE  UNCHANGED <<Log, Head>>
  <2> DEFINE k == op[c].cp
  <2>1. PICK s \in {"active", "hitl_paused"} : table' = Marked(k, s)
    BY <1>6 DEF MarkPaused, MarkResumed
  <2>2. k \in CheckpointIds
    BY <1>6, OperationKinds DEF MarkPaused, MarkResumed
  <2>3. Stored' = Stored /\ Latest' = Latest
    BY <2>1, <2>2, MarkedKeepsHead
  <2>4. ASSUME NEW j \in Stored PROVE table'[j].seq = table[j].seq
    BY <2>1, <2>2, <2>4, StoredRow DEF Marked, Row, TypeOK
  <2>5. \A d \in Clients \ {c} : op'[d] = op[d]
    BY <1>6 DEF MarkPaused, MarkResumed, Goto, TypeOK
  <2>6. ~Idle(c) /\ ~Moved(c) /\ ~Moved(c)'
    BY <1>6 DEF MarkPaused, MarkResumed, Goto, TypeOK, Idle, Moved, Doing
  <2> QED
    BY <2>3, <2>4, <2>5, <2>6, HeadStays, LogStays
<1>7. ASSUME NEW c \in Clients, Crash(c) PROVE [Chain!CNext]_<<Log, Head>>
  <2>1. ~Idle(c) /\ UNCHANGED table /\ EndOp(c)
    BY <1>7 DEF Crash
  <2>2. CASE ~Moved(c)
    BY <2>1, <2>2, Stutters
  <2>3. CASE Moved(c)
    <3>1. UNCHANGED <<Log, Stored, Latest>>
      BY <2>1, SameTable DEF Log
    <3>2. \A d \in Clients : ~Moved(d)'
      BY <2>1, EndKeeps DEF ExclusiveInv, ChainInv, EndOp, TypeOK, Moved, Doing,
         AloneOrIdle, Idle
    <3>3. /\ Latest' = {} => Head' = None
          /\ \A k \in Latest' : Head' = k
      BY <3>2, HeadIsNext DEF HeadFact
    <3>4. CASE Latest = {}
      BY <3>1, <3>3, <3>4 DEF Chain!CNext, Chain!LoseHead
    <3>5. ASSUME NEW k \in Latest PROVE Chain!Rewind(k) /\ k \in CheckpointIds
      BY <3>1, <3>3, <3>5, LogEntries DEF Chain!Rewind, Latest, Stored
    <3> QED
      BY <3>4, <3>5 DEF Chain!CNext
  <2> QED
    BY <2>2, <2>3
<1>8. ASSUME NEW s \in InvStatuses, Work(s) PROVE UNCHANGED <<Log, Head>>
  BY <1>8 DEF Work, Log, Head, Latest, Stored, Doing
<1>9. CASE DeleteThread
  <2>1. Quiet /\ UNCHANGED op
    BY <1>9 DEF DeleteThread
  <2>2. Latest' = {} /\ Log' = [k \in CheckpointIds |-> None]
    BY <1>9 DEF DeleteThread, Latest, Stored, Log
  <2>3. \A d \in Clients : ~Moved(d)'
    BY <2>1 DEF Quiet, Idle, Moved, Doing
  <2>4. Head' = None
    BY <2>2, <2>3, HeadIsNext DEF HeadFact
  <2> QED
    BY <2>2, <2>4 DEF Chain!CNext, Chain!Forget
<1>10. CASE UNCHANGED vars
  BY <1>10 DEF vars, Log, Head, Latest, Stored, Doing
<1>11. ASSUME NEW c \in Clients, NEW k \in CheckpointIds, NEW p \in Payloads,
              CommitWrite(c, k, p)
       PROVE  Chain!CNext
  BY <1>11, WriteAppends DEF Chain!CNext
<1>12. ASSUME NEW c \in Clients, Promote(c) PROVE Chain!CNext
  <2>1. op[c].target.id \in CheckpointIds
    BY <1>12, OperationKinds DEF Promote, Copy
  <2> QED
    BY <1>12, <2>1, PromotionRewinds DEF Chain!CNext
<1>13. ASSUME NEW c \in Clients, DemoteNext(c) PROVE UNCHANGED <<Log, Head>>
  BY <1>13, DemotionStutters
<1> QED
  BY <1>1, <1>2, <1>3, <1>4, <1>5, <1>6, <1>7, <1>8, <1>9, <1>10, <1>11, <1>12,
     <1>13
  DEF Next, WriteStep, PauseStep, ResumeStep, RestartStep, RollbackStep

(* One operation at a time, the table behaves as an append-only log whose  *)
(* head a write extends and a rollback moves in one step, although a       *)
(* rollback is several statements and may die between them.                *)
THEOREM StoreImplementsChain == Exclusive /\ Spec => ImplementsCheckpointChain
<1> SUFFICES ASSUME Exclusive PROVE Spec => ImplementsCheckpointChain
  OBVIOUS
<1>1. Init => Chain!CInit
  <2> SUFFICES ASSUME Init PROVE Chain!CInit
    OBVIOUS
  <2>1. Latest = {} /\ \A c \in Clients : ~Moved(c)
    BY DEF Init, Latest, Stored, Moved, Doing
  <2>2. Head = None
    BY <2>1, HeadIs DEF HeadFact, AtMostOneLatest
  <2> QED
    BY <2>2 DEF Init, Chain!CInit, Log
<1>2. ExclusiveInv /\ ExclusiveInv' /\ [Next]_vars => [Chain!CNext]_<<Log, Head>>
  BY ChainSimulation
<1> QED
  BY <1>1, <1>2, ExclusiveInvariant, PTL DEF Spec, ImplementsCheckpointChain,
     Chain!CSpec
=============================================================================
