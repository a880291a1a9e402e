----------------------- MODULE InvestigationRegistry -----------------------
(***************************************************************************)
(* The table investigation_registry and every statement that               *)
(* PostgresInvestigationRepository runs against it.  save, update_status   *)
(* and the other writers run READ COMMITTED and send one writing statement *)
(* each: one action.  The claim is a SERIALIZABLE transaction of two       *)
(* statements, and any client may run between them: Select takes the       *)
(* snapshot and locks the rows it returns, CommitClaim inserts and commits.*)
(* What PostgreSQL's SERIALIZABLE level adds is in Overtaken: a claim that *)
(* another claim has overtaken cannot commit.  The READ COMMITTED writers  *)
(* are outside its conflict graph: a row they make live after the snapshot *)
(* is missed.                                                              *)
(*                                                                         *)
(* A client that is in the middle of a call, or that holds an entity it    *)
(* has read and means to write back, is described by call[c].  Columns     *)
(* that no property tells apart (current_node, the audit fields,           *)
(* timestamps other than completed_at) are left out.                       *)
(***************************************************************************)
EXTENDS Naturals

CONSTANTS
  Ids,              \* investigation ids (UUIDs drawn by the callers)
  Clients,          \* concurrent users of the repository
  Alerts,           \* alerts: records [cluster, signature, start, end]
  CasTargets,       \* statuses the versioned writers move a row to
  ManagerTargets,   \* statuses CheckpointManager sets: hitl_paused, active, claimed
  MaxDedupRetries,  \* MAX_DEDUP_RETRIES
  MaxVersion,       \* bound: no row is written more than MaxVersion times
  None              \* SQL NULL, Python None: no row, no call, no answer

TerminalStatuses ==
  {"resolved", "superseded", "duplicate_halted", "agent_failure", "timeout"}

LiveStatuses == {"claimed", "pending_context", "active", "hitl_paused"}

Statuses == LiveStatuses \cup TerminalStatuses

Decisions == {"NEW", "DUPLICATE", "SUBSET", "SUPERSET", "PARTIAL_OVERLAP"}

ASSUME RegistryAssumption ==
  /\ \A a \in Alerts : a.start \in Nat /\ a.end \in Nat /\ a.start < a.end
  /\ CasTargets \subseteq Statuses
  /\ ManagerTargets \subseteq {"hitl_paused", "active", "claimed"}
  /\ MaxDedupRetries \in Nat \ {0}
  /\ MaxVersion \in Nat
  /\ None \notin Ids \cup Decisions

VARIABLES
  registry,   \* Ids -> the row with that primary key, or None
  call,       \* Clients -> the call the client is in the middle of, or None
  retired,    \* ids whose row the retention job has deleted
  standing    \* history: ids a claim inserted live that were live ever since

vars == <<registry, call, retired, standing>>

Row ==
  [alert: Alerts, status: Statuses, decision: Decisions \cup {None},
   related: Ids \cup {None}, completed: BOOLEAN,
   version: Nat]

(* rows is what the FOR UPDATE select of this attempt returned; overtaken  *)
(* says that PostgreSQL will not let this attempt commit.                  *)
ClaimCall ==
  [kind: {"claim", "insert", "backstop"}, id: Ids, alert: Alerts,
   attempt: 1..MaxDedupRetries, rows: SUBSET Ids, overtaken: BOOLEAN]

(* An entity read by get_by_id: the columns a later write depends on.      *)
Holding ==
  [kind: {"holding"}, id: Ids, version: Nat, status: Statuses]

ASSUME NoneAssumption ==
  /\ None \notin Row
  /\ None \notin ClaimCall \cup Holding

TypeOK ==
  /\ registry \in [Ids -> Row \cup {None}]
  /\ call \in [Clients -> ClaimCall \cup Holding \cup {None}]
  /\ retired \subseteq Ids
  /\ standing \subseteq Ids

-----------------------------------------------------------------------------
(* What the statements select.                                             *)

SameSymptom(a, b) == a.cluster = b.cluster /\ a.signature = b.signature

(* time_range && tstzrange(...), in one cluster; ranges are half open.     *)
Overlaps(a, b) ==
  /\ a.cluster = b.cluster
  /\ a.start < b.end
  /\ b.start < a.end

Within(a, b) == b.start <= a.start /\ a.end <= b.end

Exists(i) == registry[i] # None

IsLive(i) == Exists(i) /\ registry[i].status \in LiveStatuses

(* The FOR UPDATE select of the claim.                                     *)
Overlapping(a) == {i \in Ids : IsLive(i) /\ Overlaps(registry[i].alert, a)}

(* Mutant: the unique index has the time window among its columns.         *)
LiveTwinsOfWindow(i, a) ==
  {j \in Ids \ {i} : IsLive(j) /\ registry[j].alert = a}

(* The partial unique index uq_inv_registry_live_duplicate: the rows a     *)
(* live row with this id and alert would collide with.                     *)
LiveTwins(i, a) ==
  {j \in Ids \ {i} : IsLive(j) /\ SameSymptom(registry[j].alert, a)}

(* Mutant: the predicate of the index omits the paused investigations.     *)
LiveIndexIgnoresPaused(i, a, s) ==
  s \in LiveStatuses \ {"hitl_paused"} => LiveTwins(i, a) = {}

LiveIndexAdmits(i, a, s) == s \in LiveStatuses => LiveTwins(i, a) = {}

(* _classify_dedup.  The select has no ORDER BY, so where the code takes   *)
(* the first matching row, any matching row may be the first.              *)
Classified(a, rows, decision, related) ==
  LET same == {i \in rows : registry[i].alert.signature = a.signature}
      around == {i \in rows : Within(a, registry[i].alert)}
      allInside == \A i \in rows : Within(registry[i].alert, a)
  IN \/ rows = {} /\ decision = "NEW" /\ related = None
     \/ decision = "DUPLICATE" /\ related \in same
     \/ same = {} /\ decision = "SUBSET" /\ related \in around
     \/ /\ same = {} /\ around = {} /\ allInside
        /\ decision = "SUPERSET" /\ related \in rows
     \/ /\ same = {} /\ around = {} /\ ~allInside
        /\ decision = "PARTIAL_OVERLAP" /\ related \in rows

(* Mutant: the decision's own name is stored, no member of the enum.       *)
ClaimStatusIsDecision(decision) ==
  IF decision = "DUPLICATE" THEN "duplicate" ELSE "claimed"

ClaimStatus(decision) ==
  IF decision = "DUPLICATE" THEN "duplicate_halted" ELSE "claimed"

-----------------------------------------------------------------------------
(* claim_with_dedup                                                        *)

Idle(c) == call[c] = None

Doing(c, kind) == call[c] # None /\ call[c].kind = kind

(* A claim locks the rows its select returned until it commits or aborts;  *)
(* whoever writes such a row waits.                                        *)
Locked(i) == \E c \in Clients : Doing(c, "insert") /\ i \in call[c].rows

(* The call returns or raises; the client keeps nothing of it.             *)
EndCall(c) == call' = [call EXCEPT ![c] = None]

(* An id stands for one alert: it is claimed anew only by a caller that    *)
(* repeats the claim of the same alert.                                    *)
ConsistentUse(i, a) ==
  /\ Exists(i) => registry[i].alert = a
  /\ \A c \in Clients : (~Idle(c) /\ call[c].kind # "holding" /\ call[c].id = i)
                          => call[c].alert = a

StartClaim(c, i, a) ==
  /\ Idle(c)
  /\ i \notin retired
  /\ ConsistentUse(i, a)
  /\ call' = [call EXCEPT ![c] =
                [kind |-> "claim", id |-> i, alert |-> a, attempt |-> 1,
                 rows |-> {}, overtaken |-> FALSE]]
  /\ UNCHANGED <<registry, retired>>

(* BEGIN ISOLATION LEVEL SERIALIZABLE and the FOR UPDATE select, which     *)
(* takes the snapshot.  A select that waits for the locks of another claim *)
(* goes on with the snapshot it has, so it is here when the snapshot is    *)
(* taken; one that finds a row written since its snapshot fails            *)
(* (ClaimSerializationFailure).                                            *)
Select(c) ==
  /\ Doing(c, "claim")
  /\ call' = [call EXCEPT ![c].kind = "insert",
                          ![c].rows = Overlapping(call[c].alert)]
  /\ UNCHANGED <<registry, retired>>

ClaimRow(a, decision, related) ==
  [alert |-> a, status |-> ClaimStatus(decision), decision |-> decision,
   related |-> related, completed |-> FALSE, version |-> 0]

(* What the claim transaction of client c has computed when it comes to    *)
(* its insert.                                                             *)
AboutToInsert(c, decision, related) ==
  /\ Doing(c, "insert")
  /\ Classified(call[c].alert, call[c].rows, decision, related)

(* The claim of client c is going to add a live row.                       *)
WillAddLive(c) ==
  /\ Doing(c, "insert")
  /\ ~Exists(call[c].id)
  /\ \A i \in call[c].rows : registry[i].alert.signature # call[c].alert.signature

(* Mutant: the claim runs at the default level, where no conflict between  *)
(* claims is noticed but a row that is there already.                      *)
OvertakenReadCommitted(c, k, decision) ==
  /\ k # c
  /\ Doing(k, "insert")
  /\ call[k].id = call[c].id

(* When the claim of c commits a row of this decision, the claim of k has  *)
(* been overtaken if its select missed the new live row while its own live *)
(* row is one the select of c has missed (a cycle of two read-write        *)
(* dependencies), or if the new row has its id (ON CONFLICT meets a row    *)
(* its snapshot does not show).                                            *)
Overtaken(c, k, decision) ==
  /\ k # c
  /\ Doing(k, "insert")
  /\ \/ call[k].id = call[c].id
     \/ /\ ClaimStatus(decision) \in LiveStatuses
        /\ WillAddLive(k)
        /\ Overlaps(call[c].alert, call[k].alert)

(* The transaction commits and the caller is given decision and related.   *)
(* ON CONFLICT (investigation_id) DO NOTHING: a row that is there already  *)
(* stays as it is, whatever the decision computed now.                     *)
CommitClaim(c, decision, related) ==
  LET i == call[c].id
      a == call[c].alert
  IN /\ AboutToInsert(c, decision, related)
     /\ related # i
     /\ ~call[c].overtaken
     /\ \/ /\ Exists(i)
           /\ EndCall(c)
           /\ UNCHANGED registry
        \/ /\ ~Exists(i)
           /\ LiveIndexAdmits(i, a, ClaimStatus(decision))
           /\ registry' = [registry EXCEPT ![i] = ClaimRow(a, decision, related)]
           /\ call' = [k \in Clients |->
                IF k = c THEN None
                ELSE IF Overtaken(c, k, decision)
                  THEN [call[k] EXCEPT !.overtaken = TRUE]
                  ELSE call[k]]
     /\ UNCHANGED retired

(* chk_related_not_self: the claim of a row that is already live finds     *)
(* itself as its own duplicate; the CHECK is evaluated before ON CONFLICT  *)
(* and its violation is not caught.                                        *)
ClaimRefersToItself(c) ==
  /\ AboutToInsert(c, "DUPLICATE", call[c].id)
  /\ EndCall(c)
  /\ UNCHANGED <<registry, retired>>

(* The insert of a live row meets a live twin the select did not return:   *)
(* one outside the time window, or one that became live after the          *)
(* snapshot.                                                               *)
ClaimHitsLiveIndex(c) ==
  /\ WillAddLive(c)
  /\ LiveTwins(call[c].id, call[c].alert) # {}
  /\ call' = [call EXCEPT ![c].kind = "backstop", ![c].rows = {},
                          ![c].overtaken = FALSE]
  /\ UNCHANGED <<registry, retired>>

(* PostgreSQL aborts the transaction, at any statement and with or without *)
(* a real conflict; the loop tries again on a new snapshot or gives up     *)
(* with DedupConflictExhausted.                                            *)
ClaimSerializationFailure(c) ==
  /\ Doing(c, "claim") \/ Doing(c, "insert")
  /\ IF call[c].attempt < MaxDedupRetries
       THEN call' = [call EXCEPT ![c].kind = "claim", ![c].attempt = @ + 1,
                                 ![c].rows = {}, ![c].overtaken = FALSE]
       ELSE EndCall(c)
  /\ UNCHANGED <<registry, retired>>

(* The UniqueViolationError handler reads the twin, if it is still live,   *)
(* and the caller's own row, and returns DUPLICATE with what it found.     *)
AnswerFromBackstop(c) ==
  /\ Doing(c, "backstop")
  /\ EndCall(c)
  /\ UNCHANGED <<registry, retired>>

-----------------------------------------------------------------------------
(* get_by_id by a client that will write the entity back.                  *)

ReadEntity(c, i) ==
  /\ Idle(c)
  /\ Exists(i)
  /\ call' = [call EXCEPT ![c] = [kind |-> "holding", id |-> i,
                                  version |-> registry[i].version,
                                  status |-> registry[i].status]]
  /\ UNCHANGED <<registry, retired>>

(* The row after a versioned update_status: a terminal status stamps       *)
(* completed_at.                                                           *)
Stamped(row, s) ==
  [row EXCEPT !.status = s,
              !.version = @ + 1,
              !.completed = @ \/ s \in TerminalStatuses]

(* update_status with expected_version.  UPDATE 0 raises                   *)
(* ConcurrentModificationError, a collision in the live index raises       *)
(* UniqueViolationError.                                                   *)
UpdateStatusCas(c, s) ==
  LET i == call[c].id
      fresh == registry[i].version = call[c].version
      admitted == LiveIndexAdmits(i, registry[i].alert, s)
  IN /\ Doing(c, "holding")
     /\ fresh => ~Locked(i)
     /\ \/ /\ fresh /\ admitted
           /\ registry[i].version < MaxVersion
           /\ registry' = [registry EXCEPT ![i] = Stamped(@, s)]
        \/ /\ ~fresh \/ ~admitted
           /\ UNCHANGED registry
     /\ EndCall(c)
     /\ UNCHANGED retired

(* update_status without expected_version, as CheckpointManager calls it:  *)
(* the status is overwritten whatever it was.                              *)
UpdateStatus(i, s) ==
  /\ Exists(i)
  /\ ~Locked(i)
  /\ registry[i].version < MaxVersion
  /\ LiveIndexAdmits(i, registry[i].alert, s)
  /\ registry' = [registry EXCEPT ![i].status = s, ![i].version = @ + 1]
  /\ UNCHANGED <<call, retired>>

(* save() of an entity that was read and evolved once.  The upsert's WHERE *)
(* skips a row that has moved on, and save returns as if it had written.   *)
(* completed_at is not among the inserted columns: an update sets it to    *)
(* NULL.                                                                   *)
SaveWrites(c, s) ==
  LET i == call[c].id
  IN /\ Doing(c, "holding")
     /\ ~Locked(i)
     /\ registry[i].version = call[c].version
     /\ registry[i].version < MaxVersion
     /\ LiveIndexAdmits(i, registry[i].alert, s)
     /\ registry' = [registry EXCEPT ![i].status = s,
                                     ![i].version = @ + 1,
                                     ![i].completed = FALSE]
     /\ EndCall(c)
     /\ UNCHANGED retired

SaveSkips(c) ==
  /\ Doing(c, "holding")
  /\ ~Locked(call[c].id)
  /\ registry[call[c].id].version # call[c].version
  /\ EndCall(c)
  /\ UNCHANGED <<registry, retired>>

SaveReturns(c, s) == SaveWrites(c, s) \/ SaveSkips(c)

SaveHitsLiveIndex(c, s) ==
  /\ Doing(c, "holding")
  /\ ~Locked(call[c].id)
  /\ registry[call[c].id].version = call[c].version
  /\ ~LiveIndexAdmits(call[c].id, registry[call[c].id].alert, s)
  /\ EndCall(c)
  /\ UNCHANGED <<registry, retired>>

(* save() of a fresh ExecutionState: status claimed, version 0.  A claim   *)
(* of the same id that is at its insert will meet a row its snapshot does  *)
(* not show.                                                               *)
SaveNew(i, a) ==
  /\ ~Exists(i)
  /\ i \notin retired
  /\ ConsistentUse(i, a)
  /\ LiveIndexAdmits(i, a, "claimed")
  /\ registry' = [registry EXCEPT ![i] =
                    [ClaimRow(a, "NEW", None) EXCEPT !.decision = None]]
  /\ call' = [k \in Clients |->
                IF Doing(k, "insert") /\ call[k].id = i
                  THEN [call[k] EXCEPT !.overtaken = TRUE]
                  ELSE call[k]]
  /\ UNCHANGED retired

(* Mutant: the batch is superseded without a new version.                  *)
MarkSupersededUnversioned(batch, by) ==
  LET hit == {i \in batch : IsLive(i)}
  IN /\ hit # {}
     /\ Exists(by)
     /\ by \notin hit
     /\ registry' = [i \in Ids |->
          IF i \in hit THEN [registry[i] EXCEPT !.status = "superseded"]
          ELSE registry[i]]
     /\ UNCHANGED <<call, retired>>

(* mark_superseded: one statement over a batch of ids.  The foreign key    *)
(* needs (and locks) the superseding row, chk_related_not_self forbids     *)
(* that it is in the batch.                                                *)
MarkSuperseded(batch, by) ==
  LET hit == {i \in batch : /\ Exists(i)
                            /\ registry[i].status \notin
                                 {"resolved", "superseded", "duplicate_halted"}}
  IN /\ hit # {}
     /\ Exists(by)
     /\ by \notin hit
     /\ \A i \in hit \cup {by} : ~Locked(i)
     /\ \A i \in hit : registry[i].version < MaxVersion
     /\ registry' = [i \in Ids |->
          IF i \in hit
            THEN [registry[i] EXCEPT !.status = "superseded", !.related = by,
                                     !.version = @ + 1]
            ELSE registry[i]]
     /\ UNCHANGED <<call, retired>>

(* delete: a row another row refers to stays (foreign key).  The retention *)
(* job deletes investigations that ended a grace period ago, so no client  *)
(* is in the middle of a call about them; a locked row is live.            *)
Delete(i) ==
  /\ Exists(i)
  /\ registry[i].status \in TerminalStatuses
  /\ \A c \in Clients : ~Idle(c) => call[c].id # i
  /\ \A j \in Ids : Exists(j) => registry[j].related # i
  /\ registry' = [registry EXCEPT ![i] = None]
  /\ retired' = retired \cup {i}
  /\ UNCHANGED call

(* The client's process dies; an open transaction is rolled back.          *)
Crash(c) ==
  /\ ~Idle(c)
  /\ EndCall(c)
  /\ UNCHANGED <<registry, retired>>

-----------------------------------------------------------------------------
Init ==
  /\ registry = [i \in Ids |-> None]
  /\ call = [c \in Clients |-> None]
  /\ retired = {}
  /\ standing = {}

(* The steps of a claim after its first one.                               *)
ClaimStep(c) ==
  \/ Select(c)
  \/ \E decision \in Decisions, related \in Ids \cup {None} :
       CommitClaim(c, decision, related)
  \/ ClaimRefersToItself(c)
  \/ ClaimHitsLiveIndex(c)
  \/ ClaimSerializationFailure(c)
  \/ AnswerFromBackstop(c)

Step ==
  \/ \E c \in Clients, i \in Ids, a \in Alerts : StartClaim(c, i, a)
  \/ \E c \in Clients : ClaimStep(c)
  \/ \E c \in Clients, i \in Ids : ReadEntity(c, i)
  \/ \E c \in Clients, s \in CasTargets : UpdateStatusCas(c, s)
  \/ \E i \in Ids, s \in ManagerTargets : UpdateStatus(i, s)
  \/ \E c \in Clients, s \in CasTargets : SaveReturns(c, s)
  \/ \E c \in Clients, s \in CasTargets : SaveHitsLiveIndex(c, s)
  \/ \E i \in Ids, a \in Alerts : SaveNew(i, a)
  \/ \E batch \in SUBSET Ids, by \in Ids : MarkSuperseded(batch, by)
  \/ \E i \in Ids : Delete(i)
  \/ \E c \in Clients : Crash(c)

(* Only a claim inserts a row that has a decision.                         *)
ClaimedLive(i) ==
  /\ ~Exists(i)
  /\ registry'[i].decision # None

Next ==
  /\ Step
  /\ standing' = {i \in Ids : IsLive(i)' /\ (i \in standing \/ ClaimedLive(i))}

Spec == Init /\ [][Next]_vars

-----------------------------------------------------------------------------
(* At most one investigation is live for a symptom: the purpose of the     *)
(* claim (claim_with_dedup) and of every statement that may bring a row    *)
(* back to a live status.                                                  *)
OneLivePerSymptom ==
  \A i, j \in Ids :
    (IsLive(i) /\ IsLive(j) /\ SameSymptom(registry[i].alert, registry[j].alert))
      => i = j

(* The version CAS is sound: while a row still has the version a client    *)
(* read, it still has the status the client read, whoever else claims,     *)
(* supersedes, pauses, saves or deletes in between.                        *)
VersionDeterminesStatus ==
  \A c \in Clients : Doing(c, "holding") =>
    LET i == call[c].id
    IN /\ Exists(i)
       /\ call[c].version <= registry[i].version
       /\ call[c].version = registry[i].version
            => call[c].status = registry[i].status

(* Claims see claims: when a claim inserts a row decided NEW, no other     *)
(* investigation that was claimed and has been live ever since covers any  *)
(* part of its window in the cluster, although select and insert are two   *)
(* statements and any number of claims run at a time (claim_with_dedup,    *)
(* what the SERIALIZABLE level is there for).  It does not extend to rows  *)
(* that save or update_status make live: those the snapshot may miss.      *)
ClaimsSeeClaims ==
  [][\A i \in Ids, j \in standing :
       (/\ ~Exists(i) /\ registry'[i] # None
        /\ registry'[i].decision = "NEW")
         => ~Overlaps(registry[j].alert, registry'[i].alert)
    ]_vars

(* The registry implements LiveClaims: the holder of a symptom is the      *)
(* investigation that is live for it.                                      *)
SymptomOf(a) == <<a.cluster, a.signature>>

LiveFor(s) == {i \in Ids : IsLive(i) /\ SymptomOf(registry[i].alert) = s}

Symptoms == {SymptomOf(a) : a \in Alerts}

Holder ==
  [s \in Symptoms |->
     IF LiveFor(s) = {} THEN None ELSE CHOOSE i \in LiveFor(s) : TRUE]

Claims == INSTANCE LiveClaims WITH holder <- Holder

ImplementsLiveClaims == Claims!LSpec
=============================================================================
