--------------------- MODULE InvestigationRegistryProofs ---------------------
(***************************************************************************)
(* Proofs about InvestigationRegistry, for every set of ids, clients and   *)
(* alerts and without the bound on versions being of any help.             *)
(***************************************************************************)
EXTENDS InvestigationRegistry, TLAPS

(* None is neither a row nor a call, so that a row or a call that is there *)
(* is of its record type.                                                  *)
LEMMA RowIsThere ==
  ASSUME TypeOK, NEW i \in Ids, Exists(i)
  PROVE  registry[i] \in Row
  BY DEF TypeOK, Exists

LEMMA ClaimIsThere ==
  ASSUME TypeOK, NEW c \in Clients, Doing(c, "claim") \/ Doing(c, "insert")
  PROVE  call[c] \in ClaimCall
  BY DEF TypeOK, Doing, ClaimCall, Holding

LEMMA HoldingIsThere ==
  ASSUME TypeOK, NEW c \in Clients, Doing(c, "holding")
  PROVE  call[c] \in Holding
  BY DEF TypeOK, Doing, ClaimCall, Holding

(* VersionDeterminesStatus adds to the types that a held row is there.     *)
LEMMA HeldRowIsThere ==
  ASSUME TypeOK, VersionDeterminesStatus, NEW c \in Clients, Doing(c, "holding")
  PROVE  call[c] \in Holding /\ registry[call[c].id] \in Row
<1>1. call[c] \in Holding /\ Exists(call[c].id)
  BY HoldingIsThere DEF VersionDeterminesStatus
<1> QED
  BY <1>1, RowIsThere DEF Holding

(* What an UPDATE leaves: a row of a higher version.                       *)
LEMMA RowUpdated ==
  ASSUME NEW row \in Row, NEW s \in Statuses, NEW r \in Ids \cup {None},
         NEW b \in BOOLEAN
  PROVE  /\ [row EXCEPT !.status = s, !.version = @ + 1] \in Row
         /\ [row EXCEPT !.status = s, !.version = @ + 1, !.completed = b] \in Row
         /\ [row EXCEPT !.status = s, !.related = r, !.version = @ + 1] \in Row
         /\ row.version + 1 > row.version
<1>1. row.version + 1 \in Nat /\ row.version + 1 > row.version
  BY DEF Row
<1>2. [row EXCEPT !.status = s, !.version = row.version + 1] \in Row
  BY <1>1, Zenon DEF Row
<1>3. [row EXCEPT !.status = s, !.version = row.version + 1, !.completed = b] \in Row
  BY <1>1, Zenon DEF Row
<1>4. [row EXCEPT !.status = s, !.related = r, !.version = row.version + 1] \in Row
  BY <1>1, Zenon DEF Row
<1> QED
  BY <1>1, <1>2, <1>3, <1>4

LEMMA StampedType ==
  ASSUME NEW row \in Row, NEW s \in Statuses
  PROVE  /\ Stamped(row, s) \in Row
         /\ Stamped(row, s).version > row.version
<1>1. (row.completed \/ s \in TerminalStatuses) \in BOOLEAN
  BY Zenon DEF Row
<1>2. Stamped(row, s) \in Row
  BY <1>1, RowUpdated, Zenon DEF Stamped
<1>3. Stamped(row, s).version = row.version + 1
  BY DEF Stamped, Row
<1> QED
  BY <1>2, <1>3, RowUpdated

LEMMA TypeInit == Init => TypeOK
  BY DEF Init, TypeOK

(* Ending a call keeps the calls well typed.                               *)
LEMMA EndCallType ==
  ASSUME TypeOK, NEW c \in Clients, EndCall(c)
  PROVE  call' \in [Clients -> ClaimCall \cup Holding \cup {None}]
  BY DEF TypeOK, EndCall

LEMMA ClassifiedType ==
  ASSUME NEW a \in Alerts, NEW rows \in SUBSET Ids, NEW d, NEW r,
         Classified(a, rows, d, r)
  PROVE  d \in Decisions /\ r \in Ids \cup {None}
  BY DEF Classified, Decisions

LEMMA ClaimRowType ==
  ASSUME NEW a \in Alerts, NEW d \in Decisions, NEW r \in Ids \cup {None}
  PROVE  ClaimRow(a, d, r) \in Row
  BY DEF ClaimRow, ClaimStatus, Row, Statuses, LiveStatuses, TerminalStatuses

LEMMA TypeStep == TypeOK /\ VersionDeterminesStatus /\ [Next]_vars => TypeOK'
<1> SUFFICES ASSUME TypeOK, VersionDeterminesStatus, [Next]_vars PROVE TypeOK'
  OBVIOUS
<1>0. standing' \subseteq Ids
  BY DEF Next, vars, TypeOK
<1> USE RegistryAssumption, <1>0
<1>1. ASSUME NEW c \in Clients, NEW i \in Ids, NEW a \in Alerts,
             StartClaim(c, i, a)
      PROVE  TypeOK'
  BY <1>1 DEF StartClaim, TypeOK, ClaimCall
<1>2. ASSUME NEW c \in Clients, ClaimStep(c) PROVE TypeOK'
  <2>1. ASSUME NEW d \in Decisions, NEW r \in Ids \cup {None},
               CommitClaim(c, d, r)
        PROVE  TypeOK'
    <3>1. call[c] \in ClaimCall
      BY <2>1, ClaimIsThere DEF CommitClaim, AboutToInsert
    <3>2. ClaimRow(call[c].alert, d, r) \in Row
      BY <3>1, ClaimRowType DEF ClaimCall
    <3>3. registry' \in [Ids -> Row \cup {None}]
      BY <2>1, <3>1, <3>2 DEF CommitClaim, TypeOK, ClaimCall
    <3>4. ASSUME NEW k \in Clients, Doing(k, "insert")
          PROVE  [call[k] EXCEPT !.overtaken = TRUE] \in ClaimCall
      BY <3>4, ClaimIsThere DEF ClaimCall
    <3>5. call' \in [Clients -> ClaimCall \cup Holding \cup {None}]
      BY <2>1, <3>4, EndCallType DEF CommitClaim, Overtaken, TypeOK
    <3> QED
      BY <2>1, <3>3, <3>5 DEF CommitClaim, TypeOK
  <2>6. CASE Select(c)
    <3>1. call[c] \in ClaimCall
      BY <2>6, ClaimIsThere DEF Select
    <3>2. [call[c] EXCEPT !.kind = "insert", !.rows = Overlapping(call[c].alert)]
             \in ClaimCall
      BY <3>1 DEF ClaimCall, Overlapping
    <3> QED
      BY <2>6, <3>2 DEF Select, TypeOK
  <2>2. CASE ClaimRefersToItself(c)
    BY <2>2, EndCallType DEF ClaimRefersToItself, TypeOK
  <2>3. CASE ClaimHitsLiveIndex(c)
    <3>1. call[c] \in ClaimCall
      BY <2>3, ClaimIsThere DEF ClaimHitsLiveIndex, WillAddLive
    <3>2. [call[c] EXCEPT !.kind = "backstop", !.rows = {}, !.overtaken = FALSE]
             \in ClaimCall
      BY <3>1 DEF ClaimCall
    <3> QED
      BY <2>3, <3>2 DEF ClaimHitsLiveIndex, TypeOK
  <2>4. CASE ClaimSerializationFailure(c)
    <3>1. call[c] \in ClaimCall
      BY <2>4, ClaimIsThere DEF ClaimSerializationFailure
    <3>2. CASE call[c].attempt < MaxDedupRetries
      <4>1. [call[c] EXCEPT !.kind = "claim", !.attempt = @ + 1, !.rows = {},
                            !.overtaken = FALSE] \in ClaimCall
        <5>1. call[c].attempt + 1 \in 1..MaxDedupRetries
          BY <3>1, <3>2 DEF ClaimCall
        <5> QED
          BY <3>1, <5>1, Zenon DEF ClaimCall
      <4> QED
        BY <2>4, <3>2, <4>1 DEF ClaimSerializationFailure, TypeOK
    <3>3. CASE ~(call[c].attempt < MaxDedupRetries)
      BY <2>4, <3>3, EndCallType DEF ClaimSerializationFailure, TypeOK
    <3> QED
      BY <3>2, <3>3
  <2>5. CASE AnswerFromBackstop(c)
    BY <2>5, EndCallType DEF AnswerFromBackstop, TypeOK
  <2> QED
    BY <1>2, <2>1, <2>2, <2>3, <2>4, <2>5, <2>6 DEF ClaimStep
<1>3. ASSUME NEW c \in Clients, NEW i \in Ids, ReadEntity(c, i)
      PROVE  TypeOK'
  <2>1. registry[i] \in Row
    BY <1>3, RowIsThere DEF ReadEntity
  <2>2. [kind |-> "holding", id |-> i, version |-> registry[i].version,
         status |-> registry[i].status] \in Holding
    BY <2>1 DEF Row, Holding
  <2> QED
    BY <1>3, <2>2 DEF ReadEntity, TypeOK
<1>4. ASSUME NEW c \in Clients, NEW s \in CasTargets, UpdateStatusCas(c, s)
      PROVE  TypeOK'
  <2>1. /\ call[c] \in Holding
        /\ registry[call[c].id] \in Row
    BY <1>4, HeldRowIsThere DEF UpdateStatusCas
  <2>2. Stamped(registry[call[c].id], s) \in Row
    BY <2>1, StampedType
  <2> QED
    BY <1>4, <2>1, <2>2, EndCallType DEF UpdateStatusCas, TypeOK, Holding
<1>5. ASSUME NEW i \in Ids, NEW s \in ManagerTargets, UpdateStatus(i, s)
      PROVE  TypeOK'
  <2>1. registry[i] \in Row
    BY <1>5, RowIsThere DEF UpdateStatus
  <2>2. [registry[i] EXCEPT !.status = s, !.version = @ + 1] \in Row
    BY <2>1, RowUpdated DEF Statuses, LiveStatuses
  <2> QED
    BY <1>5, <2>2 DEF UpdateStatus, TypeOK
<1>6. ASSUME NEW c \in Clients, NEW s \in CasTargets, SaveReturns(c, s)
      PROVE  TypeOK'
  <2>1. CASE SaveWrites(c, s)
    <3>1. /\ call[c] \in Holding
          /\ registry[call[c].id] \in Row
      BY <2>1, HeldRowIsThere DEF SaveWrites
    <3>2. [registry[call[c].id] EXCEPT !.status = s, !.version = @ + 1,
                                       !.completed = FALSE] \in Row
      BY <3>1, RowUpdated
    <3> QED
      BY <2>1, <3>1, <3>2, EndCallType DEF SaveWrites, TypeOK, Holding
  <2>2. CASE SaveSkips(c)
    BY <2>2, EndCallType DEF SaveSkips, TypeOK
  <2> QED
    BY <1>6, <2>1, <2>2 DEF SaveReturns
<1>7. ASSUME NEW c \in Clients, NEW s \in CasTargets, SaveHitsLiveIndex(c, s)
      PROVE  TypeOK'
  BY <1>7, EndCallType DEF SaveHitsLiveIndex, TypeOK
<1>8. ASSUME NEW i \in Ids, NEW a \in Alerts, SaveNew(i, a)
      PROVE  TypeOK'
  <2>1. ClaimRow(a, "NEW", None) \in Row
    BY ClaimRowType DEF Decisions
  <2>2. [ClaimRow(a, "NEW", None) EXCEPT !.decision = None] \in Row
    BY <2>1, Zenon DEF Row
  <2>3. ASSUME NEW k \in Clients, Doing(k, "insert")
        PROVE  [call[k] EXCEPT !.overtaken = TRUE] \in ClaimCall
    BY <2>3, ClaimIsThere DEF ClaimCall
  <2>4. call' \in [Clients -> ClaimCall \cup Holding \cup {None}]
    BY <1>8, <2>3 DEF SaveNew, TypeOK
  <2> QED
    BY <1>8, <2>2, <2>4 DEF SaveNew, TypeOK
<1>9. ASSUME NEW batch \in SUBSET Ids, NEW by \in Ids, MarkSuperseded(batch, by)
      PROVE  TypeOK'
  <2>1. ASSUME NEW i \in Ids, Exists(i)
        PROVE  [registry[i] EXCEPT !.status = "superseded", !.related = by,
                                   !.version = @ + 1] \in Row
    BY <2>1, RowIsThere, RowUpdated DEF Statuses, TerminalStatuses
  <2>2. registry' \in [Ids -> Row \cup {None}]
    BY <1>9, <2>1 DEF MarkSuperseded, TypeOK
  <2> QED
    BY <1>9, <2>2 DEF MarkSuperseded, TypeOK
<1>10. ASSUME NEW i \in Ids, Delete(i) PROVE TypeOK'
  BY <1>10 DEF Delete, TypeOK
<1>11. ASSUME NEW c \in Clients, Crash(c) PROVE TypeOK'
  BY <1>11, EndCallType DEF Crash, TypeOK
<1>12. CASE UNCHANGED vars
  BY <1>12 DEF vars, TypeOK
<1> QED
  BY <1>1, <1>2, <1>3, <1>4, <1>5, <1>6, <1>7, <1>8, <1>9, <1>10, <1>11, <1>12
  DEF Next, Step

-----------------------------------------------------------------------------
(* VersionDeterminesStatus is kept by a step that leaves every row that is *)
(* there as it is or gives it a higher version, and in which no client     *)
(* begins to hold an entity.                                               *)
RowsAdvance ==
  \A i \in Ids : Exists(i) =>
    \/ registry'[i] = registry[i]
    \/ registry'[i] \in Row /\ registry'[i].version > registry[i].version

NobodyReads ==
  \A c \in Clients : Doing(c, "holding")' => call'[c] = call[c]

LEMMA AdvanceKeepsVersions ==
  ASSUME TypeOK, VersionDeterminesStatus, RowsAdvance, NobodyReads
  PROVE  VersionDeterminesStatus'
<1> SUFFICES ASSUME NEW c \in Clients, Doing(c, "holding")'
             PROVE  /\ Exists(call[c].id)'
                    /\ call[c].version <= registry'[call[c].id].version
                    /\ call[c].version = registry'[call[c].id].version
                         => call[c].status = registry'[call[c].id].status
  BY DEF NobodyReads, VersionDeterminesStatus
<1> DEFINE i == call[c].id
<1>1. Doing(c, "holding") /\ call'[c] = call[c]
  BY DEF NobodyReads, Doing
<1>2. /\ call[c] \in Holding
      /\ registry[i] \in Row
      /\ Exists(i)
  BY <1>1, HeldRowIsThere DEF VersionDeterminesStatus
<1>3. /\ call[c].version <= registry[i].version
      /\ call[c].version = registry[i].version => call[c].status = registry[i].status
  BY <1>1 DEF VersionDeterminesStatus
<1>4. /\ i \in Ids
      /\ call[c].version \in Nat
      /\ registry[i].version \in Nat
  BY <1>2 DEF Holding, Row
<1>5. CASE registry'[i] = registry[i]
  BY <1>1, <1>2, <1>3, <1>5 DEF Exists
<1>6. CASE registry'[i] \in Row /\ registry'[i].version > registry[i].version
  <2>1. registry'[i].version \in Nat /\ registry'[i] # None
    BY <1>6, NoneAssumption DEF Row
  <2> QED
    BY <1>1, <1>3, <1>4, <1>6, <2>1 DEF Exists
<1> QED
  BY <1>2, <1>4, <1>5, <1>6 DEF RowsAdvance

LEMMA EndCallReadsNothing ==
  ASSUME TypeOK, NEW c \in Clients, EndCall(c)
  PROVE  NobodyReads
  BY DEF TypeOK, EndCall, NobodyReads, Doing

LEMMA VersionsStep ==
  TypeOK /\ TypeOK' /\ VersionDeterminesStatus /\ [Next]_vars
    => VersionDeterminesStatus'
<1> SUFFICES ASSUME TypeOK, TypeOK', VersionDeterminesStatus, [Next]_vars
             PROVE  VersionDeterminesStatus'
  OBVIOUS
<1> USE RegistryAssumption
<1>1. UNCHANGED registry => RowsAdvance
  BY DEF RowsAdvance
<1>2. ASSUME NEW c \in Clients, NEW i \in Ids, NEW a \in Alerts,
             StartClaim(c, i, a)
      PROVE  VersionDeterminesStatus'
  <2>1. NobodyReads
    BY <1>2 DEF StartClaim, NobodyReads, Doing, TypeOK
  <2> QED
    BY <1>1, <1>2, <2>1, AdvanceKeepsVersions DEF StartClaim
<1>3. ASSUME NEW c \in Clients, ClaimStep(c) PROVE VersionDeterminesStatus'
  <2>1. ASSUME NEW d \in Decisions, NEW r \in Ids \cup {None},
               CommitClaim(c, d, r)
        PROVE  VersionDeterminesStatus'
    <3>1. RowsAdvance
      BY <2>1 DEF CommitClaim, RowsAdvance, Exists, TypeOK
    <3>2. ASSUME ~EndCall(c)
          PROVE  NobodyReads
      <4>1. ASSUME NEW k \in Clients, Doing(k, "holding")'
            PROVE  call'[k] = call[k]
        <5>1. CASE Overtaken(c, k, d)
          BY <2>1, <3>2, <4>1, <5>1, ClaimIsThere
          DEF CommitClaim, Overtaken, Doing, ClaimCall
        <5> QED
          BY <2>1, <3>2, <4>1, <5>1 DEF CommitClaim, Doing
      <4> QED
        BY <4>1 DEF NobodyReads
    <3> QED
      BY <3>1, <3>2, EndCallReadsNothing, AdvanceKeepsVersions
  <2>5. CASE Select(c)
    <3>1. NobodyReads
      BY <2>5, ClaimIsThere DEF Select, NobodyReads, Doing, TypeOK, ClaimCall
    <3> QED
      BY <1>1, <2>5, <3>1, AdvanceKeepsVersions DEF Select
  <2>2. CASE ClaimRefersToItself(c) \/ AnswerFromBackstop(c)
    BY <1>1, <2>2, EndCallReadsNothing, AdvanceKeepsVersions
    DEF ClaimRefersToItself, AnswerFromBackstop
  <2>3. CASE ClaimHitsLiveIndex(c)
    <3>1. NobodyReads
      BY <2>3, ClaimIsThere
      DEF ClaimHitsLiveIndex, WillAddLive, NobodyReads, Doing, TypeOK, ClaimCall
    <3> QED
      BY <1>1, <2>3, <3>1, AdvanceKeepsVersions DEF ClaimHitsLiveIndex
  <2>4. CASE ClaimSerializationFailure(c)
    <3>1. CASE EndCall(c)
      BY <1>1, <2>4, <3>1, EndCallReadsNothing, AdvanceKeepsVersions
      DEF ClaimSerializationFailure
    <3>2. CASE call' = [call EXCEPT ![c].kind = "claim", ![c].attempt = @ + 1,
                                    ![c].rows = {}, ![c].overtaken = FALSE]
      <4>1. NobodyReads
        BY <2>4, <3>2, ClaimIsThere
        DEF ClaimSerializationFailure, NobodyReads, Doing, TypeOK, ClaimCall
      <4> QED
        BY <1>1, <2>4, <4>1, AdvanceKeepsVersions DEF ClaimSerializationFailure
    <3> QED
      BY <2>4, <3>1, <3>2 DEF ClaimSerializationFailure
  <2> QED
    BY <1>3, <2>1, <2>2, <2>3, <2>4, <2>5 DEF ClaimStep
<1>4. ASSUME NEW c \in Clients, NEW i \in Ids, ReadEntity(c, i)
      PROVE  VersionDeterminesStatus'
  <2>1. registry[i] \in Row
    BY <1>4, RowIsThere DEF ReadEntity
  <2>2. ASSUME NEW k \in Clients, Doing(k, "holding")', k # c
        PROVE  Doing(k, "holding") /\ call'[k] = call[k]
    BY <1>4, <2>2 DEF ReadEntity, Doing, TypeOK
  <2>3. /\ call'[c].id = i
        /\ call'[c].version = registry[i].version
        /\ call'[c].status = registry[i].status
    BY <1>4 DEF ReadEntity, TypeOK
  <2>4. registry' = registry /\ Exists(i)'
    BY <1>4 DEF ReadEntity, Exists
  <2>5. registry[i].version <= registry[i].version
    BY <2>1 DEF Row
  <2> QED
    BY <2>2, <2>3, <2>4, <2>5 DEF VersionDeterminesStatus, Exists
<1>5. ASSUME NEW c \in Clients, NEW s \in CasTargets, UpdateStatusCas(c, s)
      PROVE  VersionDeterminesStatus'
  <2>1. /\ call[c] \in Holding
        /\ registry[call[c].id] \in Row
    BY <1>5, HeldRowIsThere DEF UpdateStatusCas
  <2>2. /\ Stamped(registry[call[c].id], s) \in Row
        /\ Stamped(registry[call[c].id], s).version > registry[call[c].id].version
    BY <2>1, StampedType
  <2>3. RowsAdvance
    BY <1>5, <2>1, <2>2 DEF UpdateStatusCas, RowsAdvance, TypeOK
  <2> QED
    BY <1>5, <2>3, EndCallReadsNothing, AdvanceKeepsVersions DEF UpdateStatusCas
<1>6. ASSUME NEW i \in Ids, NEW s \in ManagerTargets, UpdateStatus(i, s)
      PROVE  VersionDeterminesStatus'
  <2>1. registry[i] \in Row
    BY <1>6, RowIsThere DEF UpdateStatus
  <2> DEFINE new == [registry[i] EXCEPT !.status = s, !.version = @ + 1]
  <2>2. new \in Row
    BY <2>1, RowUpdated DEF Statuses, LiveStatuses
  <2>3. new.version > registry[i].version
    BY <2>1, RowUpdated DEF Row
  <2>4. RowsAdvance
    BY <1>6, <2>2, <2>3 DEF UpdateStatus, RowsAdvance, TypeOK
  <2>5. NobodyReads
    BY <1>6 DEF UpdateStatus, NobodyReads
  <2> QED
    BY <2>4, <2>5, AdvanceKeepsVersions
<1>7. ASSUME NEW c \in Clients, NEW s \in CasTargets, SaveReturns(c, s)
      PROVE  VersionDeterminesStatus'
  <2>1. CASE SaveWrites(c, s)
    <3>1. registry[call[c].id] \in Row
      BY <2>1, HeldRowIsThere DEF SaveWrites
    <3> DEFINE new == [registry[call[c].id] EXCEPT !.status = s,
                          !.version = @ + 1, !.completed = FALSE]
    <3>2. new \in Row
      BY <3>1, RowUpdated
    <3>3. new.version > registry[call[c].id].version
      BY <3>1, RowUpdated DEF Row
    <3>4. registry' = [registry EXCEPT ![call[c].id] = new]
      BY <2>1 DEF SaveWrites
    <3>5. RowsAdvance
      BY <3>2, <3>3, <3>4 DEF RowsAdvance, TypeOK
    <3> QED
      BY <2>1, <3>5, EndCallReadsNothing, AdvanceKeepsVersions DEF SaveWrites
  <2>2. CASE SaveSkips(c)
    BY <1>1, <2>2, EndCallReadsNothing, AdvanceKeepsVersions DEF SaveSkips
  <2> QED
    BY <1>7, <2>1, <2>2 DEF SaveReturns
<1>8. ASSUME NEW c \in Clients, NEW s \in CasTargets, SaveHitsLiveIndex(c, s)
      PROVE  VersionDeterminesStatus'
  BY <1>1, <1>8, EndCallReadsNothing, AdvanceKeepsVersions DEF SaveHitsLiveIndex
<1>9. ASSUME NEW i \in Ids, NEW a \in Alerts, SaveNew(i, a)
      PROVE  VersionDeterminesStatus'
  <2>1. RowsAdvance
    BY <1>9 DEF SaveNew, RowsAdvance, Exists, TypeOK
  <2>2. ASSUME NEW k \in Clients, Doing(k, "holding")'
        PROVE  call'[k] = call[k]
    BY <1>9, <2>2, ClaimIsThere DEF SaveNew, Doing, ClaimCall
  <2>3. NobodyReads
    BY <2>2 DEF NobodyReads
  <2> QED
    BY <2>1, <2>3, AdvanceKeepsVersions
<1>10. ASSUME NEW batch \in SUBSET Ids, NEW by \in Ids, MarkSuperseded(batch, by)
       PROVE  VersionDeterminesStatus'
  <2> DEFINE new(i) == [registry[i] EXCEPT !.status = "superseded",
                                           !.related = by, !.version = @ + 1]
  <2>1. ASSUME NEW i \in Ids, Exists(i)
        PROVE  new(i) \in Row /\ new(i).version > registry[i].version
    <3>1. registry[i] \in Row
      BY <2>1, RowIsThere
    <3>2. new(i) \in Row
      BY <3>1, RowUpdated DEF Statuses, TerminalStatuses
    <3>3. new(i).version > registry[i].version
      BY <3>1, RowUpdated DEF Row
    <3> QED
      BY <3>2, <3>3
  <2>2. \A i \in Ids : registry'[i] = registry[i] \/ registry'[i] = new(i)
    BY <1>10 DEF MarkSuperseded
  <2>3. RowsAdvance
    BY <2>1, <2>2 DEF RowsAdvance
  <2>4. NobodyReads
    BY <1>10 DEF MarkSuperseded, NobodyReads
  <2> QED
    BY <2>3, <2>4, AdvanceKeepsVersions
<1>11. ASSUME NEW i \in Ids, Delete(i) PROVE VersionDeterminesStatus'
  <2>1. ASSUME NEW c \in Clients, Doing(c, "holding")'
        PROVE  Doing(c, "holding") /\ call'[c] = call[c] /\ call[c].id # i
    BY <1>11, <2>1 DEF Delete, Doing, Idle
  <2>2. ASSUME NEW c \in Clients, Doing(c, "holding")'
        PROVE  registry'[call[c].id] = registry[call[c].id]
    BY <1>11, <2>1, <2>2, HoldingIsThere DEF Delete, TypeOK, Holding
  <2> QED
    BY <2>1, <2>2 DEF VersionDeterminesStatus, Exists
<1>12. ASSUME NEW c \in Clients, Crash(c) PROVE VersionDeterminesStatus'
  BY <1>1, <1>12, EndCallReadsNothing, AdvanceKeepsVersions DEF Crash
<1>13. CASE UNCHANGED vars
  BY <1>13 DEF vars, VersionDeterminesStatus, Doing, Exists
<1> QED
  BY <1>2, <1>3, <1>4, <1>5, <1>6, <1>7, <1>8, <1>9, <1>10, <1>11, <1>12, <1>13
  DEF Next, Step

(* Types and versions are invariant together: a write through a held       *)
(* entity is well typed because the row it was read from is still there.   *)
TypesAndVersions == TypeOK /\ VersionDeterminesStatus

LEMMA TypesAndVersionsInvariant == Spec => []TypesAndVersions
<1>1. Init => TypesAndVersions
  BY TypeInit DEF Init, TypesAndVersions, VersionDeterminesStatus, Doing
<1>2. TypesAndVersions /\ [Next]_vars => TypesAndVersions'
  BY TypeStep, VersionsStep DEF TypesAndVersions
<1> QED
  BY <1>1, <1>2, PTL DEF Spec

(* Every reachable state is well typed: no statement of the repository     *)
(* stores a status outside the enum or a dangling shape of row or call.    *)
THEOREM TypeCorrect == Spec => []TypeOK
  BY TypesAndVersionsInvariant, PTL DEF TypesAndVersions

(* The version CAS is sound for any number of clients and of writes: a row *)
(* that still has the version a client read still has the status it read.  *)
THEOREM CasSound == Spec => []VersionDeterminesStatus
  BY TypesAndVersionsInvariant, PTL DEF TypesAndVersions

-----------------------------------------------------------------------------
(* How a step may change who is live: one investigation whose symptom is   *)
(* free becomes live and no other row changes, or nobody becomes live.     *)
OnlyReleases ==
  \A i \in Ids :
    IsLive(i)' => IsLive(i) /\ registry'[i].alert = registry[i].alert

GoesLive(i) ==
  /\ ~IsLive(i)
  /\ IsLive(i)'
  /\ LiveTwins(i, registry'[i].alert) = {}
  /\ \A j \in Ids \ {i} : registry'[j] = registry[j]

LiveChange == OnlyReleases \/ \E i \in Ids : GoesLive(i)

LEMMA OneRowWritten ==
  ASSUME TypeOK, NEW i \in Ids, NEW row \in Row,
         registry' = [registry EXCEPT ![i] = row],
         LiveIndexAdmits(i, row.alert, row.status),
         Exists(i) => row.alert = registry[i].alert
  PROVE  LiveChange
<1>1. registry'[i] = row /\ \A j \in Ids \ {i} : registry'[j] = registry[j]
  BY DEF TypeOK
<1>2. \A j \in Ids \ {i} :
        IsLive(j)' => IsLive(j) /\ registry'[j].alert = registry[j].alert
  BY <1>1 DEF IsLive, Exists
<1>3. CASE IsLive(i) \/ ~IsLive(i)'
  <2>1. IsLive(i)' => IsLive(i) /\ registry'[i].alert = registry[i].alert
    BY <1>1, <1>3 DEF IsLive
  <2> QED
    BY <1>2, <2>1 DEF LiveChange, OnlyReleases
<1>4. CASE ~IsLive(i) /\ IsLive(i)'
  <2>1. LiveTwins(i, registry'[i].alert) = {}
    BY <1>1, <1>4 DEF IsLive, LiveIndexAdmits
  <2> QED
    BY <1>1, <1>4, <2>1 DEF LiveChange, GoesLive
<1> QED
  BY <1>3, <1>4

LEMMA LiveStep == TypesAndVersions /\ [Next]_vars => LiveChange
<1> SUFFICES ASSUME TypeOK, VersionDeterminesStatus, [Next]_vars
             PROVE  LiveChange
  BY DEF TypesAndVersions
<1> USE RegistryAssumption
<1>1. UNCHANGED registry => LiveChange
  BY DEF LiveChange, OnlyReleases, IsLive, Exists
<1>2. ASSUME NEW c \in Clients, NEW d \in Decisions, NEW r \in Ids \cup {None},
             CommitClaim(c, d, r)
      PROVE  LiveChange
  <2>1. call[c] \in ClaimCall
    BY <1>2, ClaimIsThere DEF CommitClaim, AboutToInsert
  <2> DEFINE i == call[c].id
             row == ClaimRow(call[c].alert, d, r)
  <2>2. CASE Exists(i)
    BY <1>1, <1>2, <2>2 DEF CommitClaim
  <2>3. CASE ~Exists(i)
    <3>1. row \in Row /\ i \in Ids
      BY <2>1, ClaimRowType DEF ClaimCall
    <3>2. registry' = [registry EXCEPT ![i] = row]
      BY <1>2, <2>3 DEF CommitClaim
    <3>3. LiveIndexAdmits(i, row.alert, row.status)
      BY <1>2, <2>3 DEF CommitClaim, ClaimRow
    <3> HIDE DEF row, i
    <3> QED
      BY <2>3, <3>1, <3>2, <3>3, OneRowWritten
  <2> QED
    BY <2>2, <2>3
<1>3. ASSUME NEW c \in Clients, NEW s \in CasTargets, UpdateStatusCas(c, s)
      PROVE  LiveChange
  <2> DEFINE i == call[c].id
             row == Stamped(registry[i], s)
  <2>1. i \in Ids /\ registry[i] \in Row
    BY <1>3, HeldRowIsThere DEF UpdateStatusCas, Holding
  <2>2. row \in Row
    BY <2>1, StampedType
  <2>3. row.alert = registry[i].alert /\ row.status = s
    BY <2>1 DEF Stamped, Row
  <2>4. CASE ~UNCHANGED registry
    <3>1. registry' = [registry EXCEPT ![i] = row]
      BY <1>3, <2>4 DEF UpdateStatusCas
    <3>2. LiveIndexAdmits(i, row.alert, row.status)
      BY <1>3, <2>3, <2>4 DEF UpdateStatusCas
    <3> HIDE DEF row, i
    <3> QED
      BY <2>1, <2>2, <2>3, <3>1, <3>2, OneRowWritten
  <2> QED
    BY <1>1, <2>4
<1>4. ASSUME NEW i \in Ids, NEW s \in ManagerTargets, UpdateStatus(i, s)
      PROVE  LiveChange
  <2>1. registry[i] \in Row
    BY <1>4, RowIsThere DEF UpdateStatus
  <2> DEFINE row == [registry[i] EXCEPT !.status = s, !.version = @ + 1]
  <2>2. row \in Row
    BY <2>1, RowUpdated DEF Statuses, LiveStatuses
  <2>3. row.alert = registry[i].alert /\ row.status = s
    BY <2>1 DEF Row
  <2>4. registry' = [registry EXCEPT ![i] = row]
    BY <1>4 DEF UpdateStatus
  <2>5. LiveIndexAdmits(i, row.alert, row.status)
    BY <1>4, <2>3 DEF UpdateStatus
  <2> HIDE DEF row
  <2> QED
    BY <2>2, <2>3, <2>4, <2>5, OneRowWritten
<1>5. ASSUME NEW c \in Clients, NEW s \in CasTargets, SaveWrites(c, s)
      PROVE  LiveChange
  <2> DEFINE i == call[c].id
             row == [registry[i] EXCEPT !.status = s, !.version = @ + 1,
                                        !.completed = FALSE]
  <2>1. i \in Ids /\ registry[i] \in Row
    BY <1>5, HeldRowIsThere DEF SaveWrites, Holding
  <2>2. row \in Row
    BY <2>1, RowUpdated
  <2>3. row.alert = registry[i].alert /\ row.status = s
    BY <2>1 DEF Row
  <2>4. registry' = [registry EXCEPT ![i] = row]
    BY <1>5 DEF SaveWrites
  <2>5. LiveIndexAdmits(i, row.alert, row.status)
    BY <1>5, <2>3 DEF SaveWrites
  <2> HIDE DEF row, i
  <2> QED
    BY <2>1, <2>2, <2>3, <2>4, <2>5, OneRowWritten
<1>6. ASSUME NEW i \in Ids, NEW a \in Alerts, SaveNew(i, a)
      PROVE  LiveChange
  <2> DEFINE row == [ClaimRow(a, "NEW", None) EXCEPT !.decision = None]
  <2>1. ClaimRow(a, "NEW", None) \in Row
    BY ClaimRowType DEF Decisions
  <2>2. row \in Row
    BY <2>1, Zenon DEF Row
  <2>3. row.alert = a /\ row.status = "claimed"
    BY DEF ClaimRow, ClaimStatus
  <2>4. registry' = [registry EXCEPT ![i] = row]
    BY <1>6 DEF SaveNew
  <2>5. LiveIndexAdmits(i, row.alert, row.status)
    BY <1>6, <2>3 DEF SaveNew
  <2>6. ~Exists(i)
    BY <1>6 DEF SaveNew
  <2> HIDE DEF row
  <2> QED
    BY <2>2, <2>4, <2>5, <2>6, OneRowWritten
<1>7. ASSUME NEW batch \in SUBSET Ids, NEW by \in Ids, MarkSuperseded(batch, by)
      PROVE  LiveChange
  <2>1. ASSUME NEW i \in Ids, registry'[i] # registry[i]
        PROVE  registry'[i] = [registry[i] EXCEPT !.status = "superseded",
                                      !.related = by, !.version = @ + 1]
               /\ registry[i] \in Row
    BY <1>7, <2>1, RowIsThere DEF MarkSuperseded
  <2>2. ASSUME NEW i \in Ids, registry'[i] # registry[i]
        PROVE  registry'[i].status = "superseded"
    BY <2>1, <2>2 DEF Row
  <2>3. ASSUME NEW i \in Ids, IsLive(i)'
        PROVE  registry'[i] = registry[i]
    BY <2>2, <2>3 DEF IsLive, LiveStatuses
  <2> QED
    BY <2>3 DEF LiveChange, OnlyReleases, IsLive, Exists
<1>8. ASSUME NEW i \in Ids, Delete(i) PROVE LiveChange
  BY <1>8 DEF Delete, TypeOK, LiveChange, OnlyReleases, IsLive, Exists
<1>9. ASSUME NEW c \in Clients, ClaimStep(c) PROVE LiveChange
  BY <1>1, <1>2, <1>9 DEF ClaimStep, Select, ClaimRefersToItself,
     ClaimHitsLiveIndex, ClaimSerializationFailure, AnswerFromBackstop
<1>10. ASSUME NEW c \in Clients, NEW s \in CasTargets, SaveReturns(c, s)
       PROVE  LiveChange
  BY <1>1, <1>5, <1>10 DEF SaveReturns, SaveSkips
<1> QED
  BY <1>1, <1>3, <1>4, <1>6, <1>7, <1>8, <1>9, <1>10
  DEF Next, Step, StartClaim, ReadEntity, SaveHitsLiveIndex, Crash, vars

LEMMA OneLiveStep ==
  ASSUME OneLivePerSymptom, LiveChange
  PROVE  OneLivePerSymptom'
<1>1. CASE OnlyReleases
  BY <1>1 DEF OnlyReleases, OneLivePerSymptom
<1>2. ASSUME NEW i \in Ids, GoesLive(i)
      PROVE  OneLivePerSymptom'
  <2>1. \A j \in Ids \ {i} :
          /\ IsLive(j)' => IsLive(j)
          /\ registry'[j] = registry[j]
          /\ IsLive(j)' => ~SameSymptom(registry'[j].alert, registry'[i].alert)
    BY <1>2 DEF GoesLive, LiveTwins, IsLive, Exists
  <2> QED
    BY <2>1 DEF OneLivePerSymptom, SameSymptom
<1> QED
  BY <1>1, <1>2 DEF LiveChange

(* At most one investigation is live for a symptom, whatever the clients   *)
(* claim, pause, save, supersede or delete, and however claims interleave. *)
THEOREM OneLive == Spec => []OneLivePerSymptom
<1>1. Init => OneLivePerSymptom
  BY DEF Init, OneLivePerSymptom, IsLive, Exists
<1>2. TypesAndVersions /\ OneLivePerSymptom /\ [Next]_vars => OneLivePerSymptom'
  BY LiveStep, OneLiveStep
<1> QED
  BY <1>1, <1>2, TypesAndVersionsInvariant, PTL DEF Spec

-----------------------------------------------------------------------------
(* What a step does to the rows that are there: it leaves a row as it is,  *)
(* or it writes a row no claim has locked and keeps its alert, or it       *)
(* deletes a row that has ended and that no call is about.                 *)
RowsStay ==
  \A i \in Ids : Exists(i) =>
    \/ registry'[i] = registry[i]
    \/ /\ ~Locked(i)
       /\ Exists(i)'
       /\ registry'[i].alert = registry[i].alert
    \/ /\ ~IsLive(i)
       /\ \A c \in Clients : ~Idle(c) => call[c].id # i

(* What it does to the claims that are about to insert.                    *)
GoesOn(c) ==
  /\ Doing(c, "insert")
  /\ \/ call'[c] = call[c]
     \/ call'[c] = [call[c] EXCEPT !.overtaken = TRUE]

ClaimsGoOn == \A c \in Clients : Doing(c, "insert")' => Select(c) \/ GoesOn(c)

(* Only a claim inserts a row that has a decision.                         *)
ClaimsInsert ==
  \A i \in Ids : (~Exists(i) /\ Exists(i)' /\ registry'[i].decision # None) =>
    \E c \in Clients, d \in Decisions, r \in Ids \cup {None} :
      /\ CommitClaim(c, d, r)
      /\ call[c].id = i
      /\ registry'[i] = ClaimRow(call[c].alert, d, r)

(* An UPDATE of one row.                                                   *)
LEMMA UpdateStays ==
  ASSUME TypeOK, NEW i \in Ids, NEW row \in Row, Exists(i), ~Locked(i),
         registry' = [registry EXCEPT ![i] = row],
         row.alert = registry[i].alert
  PROVE  RowsStay /\ ClaimsInsert
<1>1. \A j \in Ids \ {i} : registry'[j] = registry[j]
  BY DEF TypeOK
<1>2. registry'[i] = row /\ row # None
  BY NoneAssumption DEF TypeOK
<1> QED
  BY <1>1, <1>2 DEF RowsStay, ClaimsInsert, Exists

LEMMA UnchangedStays ==
  ASSUME UNCHANGED registry
  PROVE  RowsStay /\ ClaimsInsert
  BY DEF RowsStay, ClaimsInsert, Exists

(* Calls that are not at their insert do not get there but by Select.      *)
LEMMA EndCallGoesOn ==
  ASSUME TypeOK, NEW c \in Clients, EndCall(c)
  PROVE  ClaimsGoOn
  BY DEF TypeOK, EndCall, ClaimsGoOn, GoesOn, Doing

LEMMA SameCallsGoOn ==
  ASSUME UNCHANGED call
  PROVE  ClaimsGoOn
  BY DEF ClaimsGoOn, GoesOn, Doing

LEMMA ClaimChanges ==
  ASSUME TypesAndVersions, NEW c \in Clients, ClaimStep(c)
  PROVE  RowsStay /\ ClaimsInsert /\ ClaimsGoOn
<1> USE RegistryAssumption DEF TypesAndVersions
<1>1. ASSUME NEW d \in Decisions, NEW r \in Ids \cup {None}, CommitClaim(c, d, r)
      PROVE  RowsStay /\ ClaimsInsert /\ ClaimsGoOn
  <2>1. CASE Exists(call[c].id)
    BY <1>1, <2>1, UnchangedStays, EndCallGoesOn DEF CommitClaim
  <2>2. CASE ~Exists(call[c].id)
    <3> DEFINE i == call[c].id
    <3>1. i \in Ids
      BY <1>1, ClaimIsThere DEF CommitClaim, AboutToInsert, ClaimCall
    <3>2. /\ registry'[i] = ClaimRow(call[c].alert, d, r)
          /\ \A j \in Ids \ {i} : registry'[j] = registry[j]
      BY <1>1, <2>2, <3>1 DEF CommitClaim, TypeOK
    <3>3. RowsStay
      BY <2>2, <3>2 DEF RowsStay
    <3>4. ClaimsInsert
      BY <1>1, <3>2 DEF ClaimsInsert, Exists
    <3>5. ASSUME NEW k \in Clients, Doing(k, "insert")'
          PROVE  GoesOn(k)
      <4>1. /\ k # c
            /\ \/ call'[k] = call[k]
               \/ Doing(k, "insert") /\ call'[k] = [call[k] EXCEPT !.overtaken = TRUE]
        BY <1>1, <2>2, <3>5 DEF CommitClaim, Overtaken, Doing
      <4> QED
        BY <3>5, <4>1 DEF GoesOn, Doing
    <3> QED
      BY <3>3, <3>4, <3>5 DEF ClaimsGoOn
  <2> QED
    BY <2>1, <2>2
<1>2. CASE Select(c)
  <2>1. \A k \in Clients \ {c} : call'[k] = call[k]
    BY <1>2 DEF Select, TypeOK
  <2>2. ClaimsGoOn
    BY <1>2, <2>1 DEF ClaimsGoOn, GoesOn, Doing
  <2> QED
    BY <1>2, <2>2, UnchangedStays DEF Select
<1>3. CASE ClaimRefersToItself(c) \/ AnswerFromBackstop(c)
  BY <1>3, UnchangedStays, EndCallGoesOn DEF ClaimRefersToItself, AnswerFromBackstop
<1>4. CASE ClaimHitsLiveIndex(c)
  <2>1. call'[c].kind = "backstop" /\ \A k \in Clients \ {c} : call'[k] = call[k]
    BY <1>4, ClaimIsThere DEF ClaimHitsLiveIndex, WillAddLive, TypeOK, ClaimCall
  <2>2. ClaimsGoOn
    BY <2>1 DEF ClaimsGoOn, GoesOn, Doing
  <2> QED
    BY <1>4, <2>2, UnchangedStays DEF ClaimHitsLiveIndex
<1>5. CASE ClaimSerializationFailure(c)
  <2>1. CASE EndCall(c)
    BY <1>5, <2>1, UnchangedStays, EndCallGoesOn DEF ClaimSerializationFailure
  <2>2. CASE ~EndCall(c)
    <3>1. call'[c].kind = "claim" /\ \A k \in Clients \ {c} : call'[k] = call[k]
      BY <1>5, <2>2, ClaimIsThere DEF ClaimSerializationFailure, TypeOK, ClaimCall
    <3>2. ClaimsGoOn
      BY <3>1 DEF ClaimsGoOn, GoesOn, Doing
    <3> QED
      BY <1>5, <3>2, UnchangedStays DEF ClaimSerializationFailure
  <2> QED
    BY <2>1, <2>2
<1> QED
  BY <1>1, <1>2, <1>3, <1>4, <1>5 DEF ClaimStep

LEMMA StepChanges ==
  ASSUME TypesAndVersions, [Next]_vars
  PROVE  RowsStay /\ ClaimsInsert /\ ClaimsGoOn
<1> USE RegistryAssumption DEF TypesAndVersions
<1>1. ASSUME NEW c \in Clients, NEW i \in Ids, NEW a \in Alerts,
             StartClaim(c, i, a)
      PROVE  RowsStay /\ ClaimsInsert /\ ClaimsGoOn
  <2>1. call'[c].kind = "claim" /\ \A k \in Clients \ {c} : call'[k] = call[k]
    BY <1>1 DEF StartClaim, TypeOK
  <2>2. ClaimsGoOn
    BY <2>1 DEF ClaimsGoOn, GoesOn, Doing
  <2> QED
    BY <1>1, <2>2, UnchangedStays DEF StartClaim
<1>2. ASSUME NEW c \in Clients, NEW i \in Ids, ReadEntity(c, i)
      PROVE  RowsStay /\ ClaimsInsert /\ ClaimsGoOn
  <2>1. call'[c].kind = "holding" /\ \A k \in Clients \ {c} : call'[k] = call[k]
    BY <1>2 DEF ReadEntity, TypeOK
  <2>2. ClaimsGoOn
    BY <2>1 DEF ClaimsGoOn, GoesOn, Doing
  <2> QED
    BY <1>2, <2>2, UnchangedStays DEF ReadEntity
<1>3. ASSUME NEW c \in Clients, NEW s \in CasTargets, UpdateStatusCas(c, s)
      PROVE  RowsStay /\ ClaimsInsert /\ ClaimsGoOn
  <2> DEFINE i == call[c].id
             row == Stamped(registry[i], s)
  <2>1. i \in Ids /\ registry[i] \in Row /\ Exists(i)
    BY <1>3, HeldRowIsThere DEF UpdateStatusCas, Holding, VersionDeterminesStatus
  <2>2. row \in Row /\ row.alert = registry[i].alert
    BY <2>1, StampedType DEF Stamped, Row
  <2>3. CASE ~UNCHANGED registry
    <3>1. ~Locked(i) /\ registry' = [registry EXCEPT ![i] = row]
      BY <1>3, <2>3 DEF UpdateStatusCas
    <3> HIDE DEF row, i
    <3> QED
      BY <1>3, <2>1, <2>2, <3>1, UpdateStays, EndCallGoesOn DEF UpdateStatusCas
  <2> QED
    BY <1>3, <2>3, UnchangedStays, EndCallGoesOn DEF UpdateStatusCas
<1>4. ASSUME NEW i \in Ids, NEW s \in ManagerTargets, UpdateStatus(i, s)
      PROVE  RowsStay /\ ClaimsInsert /\ ClaimsGoOn
  <2> DEFINE row == [registry[i] EXCEPT !.status = s, !.version = @ + 1]
  <2>1. registry[i] \in Row
    BY <1>4, RowIsThere DEF UpdateStatus
  <2>2. row \in Row
    BY <2>1, RowUpdated DEF Statuses, LiveStatuses
  <2>3. row.alert = registry[i].alert
    BY <2>1 DEF Row
  <2>4. registry' = [registry EXCEPT ![i] = row] /\ Exists(i) /\ ~Locked(i)
    BY <1>4 DEF UpdateStatus
  <2> HIDE DEF row
  <2> QED
    BY <1>4, <2>2, <2>3, <2>4, UpdateStays, SameCallsGoOn DEF UpdateStatus
<1>5. ASSUME NEW c \in Clients, NEW s \in CasTargets, SaveWrites(c, s)
      PROVE  RowsStay /\ ClaimsInsert /\ ClaimsGoOn
  <2> DEFINE i == call[c].id
             row == [registry[i] EXCEPT !.status = s, !.version = @ + 1,
                                        !.completed = FALSE]
  <2>1. i \in Ids /\ registry[i] \in Row /\ Exists(i)
    BY <1>5, HeldRowIsThere DEF SaveWrites, Holding, VersionDeterminesStatus
  <2>2. row \in Row
    BY <2>1, RowUpdated
  <2>3. row.alert = registry[i].alert
    BY <2>1 DEF Row
  <2>4. registry' = [registry EXCEPT ![i] = row] /\ ~Locked(i)
    BY <1>5 DEF SaveWrites
  <2> HIDE DEF row, i
  <2> QED
    BY <1>5, <2>1, <2>2, <2>3, <2>4, UpdateStays, EndCallGoesOn DEF SaveWrites
<1>6. ASSUME NEW c \in Clients, NEW s \in CasTargets,
             SaveSkips(c) \/ SaveHitsLiveIndex(c, s)
      PROVE  RowsStay /\ ClaimsInsert /\ ClaimsGoOn
  BY <1>6, UnchangedStays, EndCallGoesOn DEF SaveSkips, SaveHitsLiveIndex
<1>7. ASSUME NEW i \in Ids, NEW a \in Alerts, SaveNew(i, a)
      PROVE  RowsStay /\ ClaimsInsert /\ ClaimsGoOn
  <2>1. /\ ~Exists(i)
        /\ registry'[i] = [ClaimRow(a, "NEW", None) EXCEPT !.decision = None]
        /\ \A j \in Ids \ {i} : registry'[j] = registry[j]
    BY <1>7 DEF SaveNew, TypeOK
  <2>2. registry'[i].decision = None
    BY <2>1 DEF ClaimRow
  <2>3. RowsStay /\ ClaimsInsert
    BY <2>1, <2>2 DEF RowsStay, ClaimsInsert, Exists
  <2>4. ASSUME NEW k \in Clients, Doing(k, "insert")'
        PROVE  GoesOn(k)
    <3>1. \/ call'[k] = call[k]
          \/ Doing(k, "insert") /\ call'[k] = [call[k] EXCEPT !.overtaken = TRUE]
      BY <1>7 DEF SaveNew
    <3> QED
      BY <2>4, <3>1 DEF GoesOn, Doing
  <2> QED
    BY <2>3, <2>4 DEF ClaimsGoOn
<1>8. ASSUME NEW batch \in SUBSET Ids, NEW by \in Ids, MarkSuperseded(batch, by)
      PROVE  RowsStay /\ ClaimsInsert /\ ClaimsGoOn
  <2>1. ASSUME NEW i \in Ids
        PROVE  \/ registry'[i] = registry[i]
               \/ /\ ~Locked(i) /\ Exists(i) /\ Exists(i)'
                  /\ registry'[i].alert = registry[i].alert
    <3>1. CASE registry'[i] # registry[i]
      <4>1. /\ Exists(i) /\ ~Locked(i)
            /\ registry'[i] = [registry[i] EXCEPT !.status = "superseded",
                                 !.related = by, !.version = @ + 1]
        BY <1>8, <3>1 DEF MarkSuperseded
      <4>2. registry[i] \in Row
        BY <4>1, RowIsThere
      <4>3. registry'[i] \in Row
        <5>1. [registry[i] EXCEPT !.status = "superseded", !.related = by,
                                  !.version = @ + 1] \in Row
          BY <4>2, RowUpdated DEF Statuses, TerminalStatuses
        <5> QED
          BY <4>1, <5>1
      <4>4. registry'[i].alert = registry[i].alert
        BY <4>1, <4>2 DEF Row
      <4> QED
        BY <4>1, <4>3, <4>4, NoneAssumption DEF Exists
    <3> QED
      BY <3>1
  <2>2. RowsStay /\ ClaimsInsert
    BY <2>1 DEF RowsStay, ClaimsInsert, Exists
  <2> QED
    BY <1>8, <2>2, SameCallsGoOn DEF MarkSuperseded
<1>9. ASSUME NEW i \in Ids, Delete(i)
      PROVE  RowsStay /\ ClaimsInsert /\ ClaimsGoOn
  <2>1. /\ registry'[i] = None /\ ~IsLive(i)
        /\ \A j \in Ids \ {i} : registry'[j] = registry[j]
    BY <1>9 DEF Delete, TypeOK, IsLive, LiveStatuses, TerminalStatuses
  <2>2. RowsStay /\ ClaimsInsert
    BY <1>9, <2>1 DEF Delete, RowsStay, ClaimsInsert, Exists
  <2> QED
    BY <1>9, <2>2, SameCallsGoOn DEF Delete
<1>10. ASSUME NEW c \in Clients, Crash(c)
       PROVE  RowsStay /\ ClaimsInsert /\ ClaimsGoOn
  BY <1>10, UnchangedStays, EndCallGoesOn DEF Crash
<1>11. CASE UNCHANGED vars
  BY <1>11, UnchangedStays, SameCallsGoOn DEF vars
<1> QED
  BY <1>1, <1>2, <1>3, <1>4, <1>5, <1>6, <1>7, <1>8, <1>9, <1>10, <1>11, ClaimChanges
  DEF Next, Step, SaveReturns

(* What the snapshot of a claim is worth: the rows it returned are locked  *)
(* and stay live, and of the investigations that were claimed and are live *)
(* ever since it has missed none that overlaps, unless the claim has been  *)
(* overtaken or adds no live row.                                          *)
Sees(c) ==
  (WillAddLive(c) /\ ~call[c].overtaken) =>
    \A j \in standing : Overlaps(registry[j].alert, call[c].alert) => j \in call[c].rows

SnapshotInv ==
  /\ standing \subseteq Ids
  /\ \A j \in standing : IsLive(j)
  /\ \A c \in Clients : Doing(c, "insert") =>
       /\ \A j \in call[c].rows : IsLive(j)
       /\ Sees(c)

(* A claim that goes on sees what it saw: a claim that has committed in    *)
(* the meantime a live row it overlaps has overtaken it.                   *)
LEMMA GoingOnSees ==
  ASSUME TypesAndVersions, SnapshotInv, [Next]_vars,
         NEW c \in Clients, Doing(c, "insert")', GoesOn(c)
  PROVE  (\A j \in call[c].rows : IsLive(j)') /\ Sees(c)'
<1> USE DEF TypesAndVersions
<1>1. call[c] \in ClaimCall
  BY ClaimIsThere DEF GoesOn
<1>2. /\ call'[c].rows = call[c].rows /\ call'[c].id = call[c].id
      /\ call'[c].alert = call[c].alert
      /\ call[c].overtaken => call'[c].overtaken
  BY <1>1 DEF GoesOn, ClaimCall
<1>3. RowsStay /\ ClaimsInsert
  BY StepChanges
<1>4. ASSUME NEW j \in call[c].rows
      PROVE  j \in Ids /\ IsLive(j) /\ registry'[j] = registry[j]
  <2>1. j \in Ids /\ IsLive(j) /\ Locked(j)
    BY <1>1 DEF GoesOn, SnapshotInv, Locked, ClaimCall
  <2> QED
    BY <1>3, <2>1 DEF RowsStay, IsLive
<1>5. \A j \in call[c].rows : IsLive(j)'
  BY <1>4 DEF IsLive, Exists
<1>6. ASSUME WillAddLive(c)', ~call'[c].overtaken,
             NEW j \in standing', Overlaps(registry'[j].alert, call'[c].alert)
      PROVE  j \in call'[c].rows
  <2>1. ~Exists(call[c].id)
    <3>1. registry'[call[c].id] = None /\ ~Idle(c) /\ call[c].id \in Ids
      BY <1>1, <1>2, <1>6 DEF WillAddLive, GoesOn, Idle, Doing, ClaimCall, Exists
    <3> QED
      BY <1>3, <3>1 DEF RowsStay, Exists
  <2>2. WillAddLive(c) /\ ~call[c].overtaken
    BY <1>2, <1>4, <1>6, <2>1 DEF WillAddLive, GoesOn
  <2>3. j \in Ids /\ IsLive(j)' /\ (j \in standing \/ ClaimedLive(j) \/ UNCHANGED vars)
    BY <1>6 DEF Next, SnapshotInv, vars, IsLive, Exists
  <2>4. CASE j \in standing
    <3>1. IsLive(j) /\ Exists(j)
      BY <2>4 DEF SnapshotInv, IsLive
    <3>2. registry'[j].alert = registry[j].alert
      BY <1>3, <2>3, <3>1 DEF RowsStay
    <3> QED
      BY <1>2, <1>6, <2>2, <2>4, <3>2 DEF SnapshotInv, Sees, GoesOn
  <2>5. CASE j \notin standing /\ ClaimedLive(j)
    <3>1. Exists(j)'
      BY <2>3 DEF IsLive
    <3>2. PICK k \in Clients, d \in Decisions, r \in Ids \cup {None} :
            /\ CommitClaim(k, d, r)
            /\ call[k].id = j
            /\ registry'[j] = ClaimRow(call[k].alert, d, r)
      BY <1>3, <2>3, <2>5, <3>1 DEF ClaimsInsert, ClaimedLive
    <3>3. ~Exists(call[k].id)
      BY <2>5, <3>2 DEF ClaimedLive
    <3>4. /\ registry'[j].alert = call[k].alert
          /\ ClaimStatus(d) \in LiveStatuses
      BY <2>3, <3>2 DEF ClaimRow, IsLive
    <3>5. k # c
      BY <3>2, <3>3 DEF CommitClaim, Doing
    <3>6. Overtaken(k, c, d)
      BY <1>2, <1>6, <2>2, <3>4, <3>5 DEF Overtaken, GoesOn
    <3>7. call'[c] = [call[c] EXCEPT !.overtaken = TRUE]
      BY <3>2, <3>3, <3>5, <3>6 DEF CommitClaim
    <3> QED
      BY <1>1, <1>6, <3>7 DEF ClaimCall
  <2>6. CASE UNCHANGED vars
    BY <1>6, <2>4, <2>6 DEF vars
  <2> QED
    BY <2>3, <2>4, <2>5, <2>6
<1> QED
  BY <1>5, <1>6 DEF Sees

LEMMA SnapshotStep ==
  TypesAndVersions /\ SnapshotInv /\ [Next]_vars => SnapshotInv'
<1> SUFFICES ASSUME TypesAndVersions, SnapshotInv, [Next]_vars PROVE SnapshotInv'
  OBVIOUS
<1>1. standing' \subseteq Ids /\ \A j \in standing' : IsLive(j)'
  BY DEF Next, SnapshotInv, vars, IsLive, Exists
<1>2. ASSUME NEW c \in Clients, Doing(c, "insert")'
      PROVE  (\A j \in call'[c].rows : IsLive(j)') /\ Sees(c)'
  <2>1. CASE GoesOn(c)
    <3>1. call'[c].rows = call[c].rows
      BY <2>1, ClaimIsThere DEF GoesOn, TypesAndVersions, ClaimCall
    <3> QED
      BY <1>2, <2>1, <3>1, GoingOnSees
  <2>2. CASE Select(c)
    <3>1. call[c] \in ClaimCall
      BY <2>2, ClaimIsThere DEF Select, TypesAndVersions
    <3>2. /\ call'[c].rows = Overlapping(call[c].alert)
          /\ call'[c].alert = call[c].alert
          /\ registry' = registry
      BY <2>2, <3>1 DEF Select, TypesAndVersions, TypeOK, ClaimCall
    <3> QED
      BY <1>1, <3>2 DEF Overlapping, Sees, IsLive, Exists
  <2>3. Select(c) \/ GoesOn(c)
    BY <1>2, StepChanges DEF ClaimsGoOn
  <2> QED
    BY <2>1, <2>2, <2>3
<1> QED
  BY <1>1, <1>2 DEF SnapshotInv

LEMMA SnapshotInvariant == Spec => []SnapshotInv
<1>1. Init => SnapshotInv
  BY DEF Init, SnapshotInv, Doing
<1> QED
  BY <1>1, SnapshotStep, TypesAndVersionsInvariant, PTL DEF Spec

(* A row decided NEW is inserted by a claim whose select returned nothing. *)
LEMMA NewStep ==
  ASSUME TypesAndVersions, SnapshotInv, [Next]_vars,
         NEW i \in Ids, NEW j \in standing,
         ~Exists(i), registry'[i] # None, registry'[i].decision = "NEW"
  PROVE  ~Overlaps(registry[j].alert, registry'[i].alert)
<1>1. PICK c \in Clients, d \in Decisions, r \in Ids \cup {None} :
        /\ CommitClaim(c, d, r)
        /\ call[c].id = i
        /\ registry'[i] = ClaimRow(call[c].alert, d, r)
  BY StepChanges, RegistryAssumption DEF ClaimsInsert, Exists, Decisions
<1>2. d = "NEW" /\ registry'[i].alert = call[c].alert
  BY <1>1 DEF ClaimRow
<1>3. call[c].rows = {} /\ Doing(c, "insert") /\ ~call[c].overtaken
  BY <1>1, <1>2 DEF CommitClaim, AboutToInsert, Classified
<1>4. WillAddLive(c)
  BY <1>1, <1>3 DEF WillAddLive
<1> QED
  BY <1>2, <1>3, <1>4 DEF SnapshotInv, Sees

(* Claims see claims: whatever is committed between the select and the     *)
(* insert of a claim that decides NEW, no investigation that was claimed   *)
(* and has been live ever since overlaps its window.                       *)
THEOREM NewSeesClaims == Spec => ClaimsSeeClaims
<1>1. TypesAndVersions /\ SnapshotInv /\ [Next]_vars =>
        [\A i \in Ids, j \in standing :
           (/\ ~Exists(i) /\ registry'[i] # None
            /\ registry'[i].decision = "NEW")
             => ~Overlaps(registry[j].alert, registry'[i].alert)]_vars
  BY NewStep
<1> QED
  BY <1>1, TypesAndVersionsInvariant, SnapshotInvariant, PTL DEF Spec, ClaimsSeeClaims

-----------------------------------------------------------------------------
(* The refinement.  Where at most one investigation is live for a symptom, *)
(* the holder is that investigation.                                       *)
LEMMA HolderIsLive ==
  ASSUME OneLivePerSymptom, NEW s \in Symptoms
  PROVE  /\ LiveFor(s) = {} => Holder[s] = None
         /\ \A i \in LiveFor(s) : Holder[s] = i
<1>1. ASSUME NEW i \in LiveFor(s), NEW j \in LiveFor(s) PROVE i = j
  BY <1>1 DEF OneLivePerSymptom, LiveFor, SymptomOf, SameSymptom
<1>2. LiveFor(s) # {} => (CHOOSE i \in LiveFor(s) : TRUE) \in LiveFor(s)
  OBVIOUS
<1> QED
  BY <1>1, <1>2 DEF Holder

LEMMA HolderAfter ==
  ASSUME OneLivePerSymptom', NEW s \in Symptoms
  PROVE  /\ LiveFor(s)' = {} => Holder'[s] = None
         /\ \A i \in LiveFor(s)' : Holder'[s] = i
<1>1. ASSUME NEW i \in LiveFor(s)', NEW j \in LiveFor(s)' PROVE i = j
  BY <1>1 DEF OneLivePerSymptom, LiveFor, SymptomOf, SameSymptom
<1>2. LiveFor(s)' # {} => (CHOOSE i \in LiveFor(s)' : TRUE) \in LiveFor(s)'
  OBVIOUS
<1> QED
  BY <1>1, <1>2 DEF Holder

LEMMA HolderStep ==
  ASSUME TypeOK, TypeOK', OneLivePerSymptom, OneLivePerSymptom', LiveChange
  PROVE  Claims!LNext \/ Holder' = Holder
<1>1. CASE OnlyReleases
  <2> DEFINE S == {s \in Symptoms : LiveFor(s)' = {}}
  <2>1. ASSUME NEW s \in Symptoms, s \notin S PROVE Holder'[s] = Holder[s]
    <3>1. PICK i \in Ids : i \in LiveFor(s)'
      BY <2>1 DEF LiveFor
    <3>2. i \in LiveFor(s)
      BY <1>1, <3>1 DEF LiveFor, OnlyReleases
    <3> QED
      BY <3>1, <3>2, HolderIsLive, HolderAfter
  <2>2. ASSUME NEW s \in S PROVE Holder'[s] = None
    BY HolderAfter
  <2>3. Holder' = [s \in Symptoms |-> IF s \in S THEN None ELSE Holder[s]]
    BY <2>1, <2>2 DEF Holder
  <2>4. S \in SUBSET Symptoms
    OBVIOUS
  <2> HIDE DEF S
  <2> QED
    BY <2>3, <2>4 DEF Claims!LNext, Claims!Release
<1>2. ASSUME NEW i \in Ids, GoesLive(i)
      PROVE  Claims!LNext
  <2>1. PICK a \in Alerts : registry'[i].alert = a
    BY <1>2 DEF GoesLive, IsLive, Exists, TypeOK, Row
  <2> DEFINE s == SymptomOf(a)
  <2>2. s \in Symptoms
    BY DEF Symptoms
  <2>3. LiveFor(s) = {}
    BY <1>2, <2>1 DEF GoesLive, LiveFor, LiveTwins, SymptomOf, SameSymptom
  <2>4. i \in LiveFor(s)'
    BY <1>2, <2>1 DEF GoesLive, LiveFor
  <2>5. Holder[s] = None /\ Holder'[s] = i
    BY <2>2, <2>3, <2>4, HolderIsLive, HolderAfter
  <2>6. ASSUME NEW t \in Symptoms, t # s PROVE Holder'[t] = Holder[t]
    <3>1. LiveFor(t)' = LiveFor(t)
      BY <1>2, <2>1, <2>6 DEF GoesLive, LiveFor, IsLive, Exists
    <3> QED
      BY <3>1 DEF Holder
  <2>7. Holder' = [Holder EXCEPT ![s] = i]
    <3>1. /\ Holder = [t \in Symptoms |-> Holder[t]]
          /\ Holder' = [t \in Symptoms |-> Holder'[t]]
      BY DEF Holder
    <3> HIDE DEF s
    <3> QED
      BY <2>2, <2>5, <2>6, <3>1
  <2> HIDE DEF s
  <2> QED
    BY <2>2, <2>5, <2>7 DEF Claims!LNext, Claims!Acquire
<1> QED
  BY <1>1, <1>2 DEF LiveChange

(* The registry implements LiveClaims: a symptom is acquired only when it  *)
(* is free, and is let go before it is acquired by somebody else.          *)
THEOREM RegistryImplementsLiveClaims == Spec => ImplementsLiveClaims
<1>1. Init => Claims!LInit
  BY DEF Init, Claims!LInit, Holder, LiveFor, IsLive, Exists
<1>2. /\ TypesAndVersions /\ TypesAndVersions'
      /\ OneLivePerSymptom /\ OneLivePerSymptom'
      /\ [Next]_vars
      => [Claims!LNext]_Holder
  BY LiveStep, HolderStep DEF TypesAndVersions
<1> QED
  BY <1>1, <1>2, TypesAndVersionsInvariant, OneLive, PTL
  DEF Spec, ImplementsLiveClaims, Claims!LSpec
=============================================================================
