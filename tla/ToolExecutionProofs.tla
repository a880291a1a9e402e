------------------------- MODULE ToolExecutionProofs -------------------------
(* What ToolExecution guarantees for every set of tools and requests and   *)
(* every limit.                                                            *)
EXTENDS ToolExecution, FiniteSetTheorems, TLAPS

LEMMA IdleIsNotTrying == NoCall \notin Trying
  BY DEF NoCall, Trying

LEMMA InitTypes == ToolInit => ToolTypeOK
  BY ToolAssumption DEF ToolInit, ToolTypeOK

(* What a call in progress is about.                                       *)
LEMMA BusyTypes ==
  ASSUME ToolTypeOK, NEW s \in Slots, Busy(s)
  PROVE  /\ call[s] \in Trying
         /\ call[s].request \in ToolRequests /\ ToolOf[call[s].request] \in Tools
         /\ call[s].seen + 1 \in 0..FailureLimit
         /\ call[s].attempt \in 1..MaxAttempts
<1>1. call[s] \in Trying
  BY DEF ToolTypeOK, Busy
<1> QED
  BY <1>1, ToolAssumption DEF Trying

LEMMA FinishTypes ==
  ASSUME ToolTypeOK, NEW s \in Slots, Finish(s)
  PROVE  call' \in [Slots -> {NoCall} \cup Trying]
  BY DEF ToolTypeOK, Finish

LEMMA FailTypes ==
  ASSUME ToolTypeOK, NEW t \in Tools, NEW n, n + 1 \in 0..FailureLimit, CallFails(t, n)
  PROVE  fails' \in [Tools -> 0..FailureLimit] /\ streak' \in [Tools -> Nat]
  BY DEF ToolTypeOK, CallFails

LEMMA AnswerTypes ==
  ASSUME ToolTypeOK, NEW r \in ToolRequests, ToolAnswers(r)
  PROVE  fails' \in [Tools -> 0..FailureLimit] /\ streak' \in [Tools -> Nat]
  BY ToolAssumption DEF ToolTypeOK, ToolAnswers

LEMMA StepTypes == ToolTypeOK /\ (\A s \in Slots : Busy(s) => call[s].request \notin Invalid)
                     /\ [ToolNext]_toolVars
                   => ToolTypeOK' /\ \A s \in Slots : Busy(s)' => call[s].request' \notin Invalid
<1> DEFINE Valid == \A s \in Slots : Busy(s) => call[s].request \notin Invalid
<1> SUFFICES ASSUME ToolTypeOK, Valid, [ToolNext]_toolVars
             PROVE  ToolTypeOK' /\ Valid'
  OBVIOUS
<1>1. ASSUME NEW s \in Slots, Admitted(s)
      PROVE  spend' \in 0..MaxToolCalls
  BY <1>1, ToolAssumption DEF Admitted, ToolTypeOK
<1>2. ASSUME NEW s \in Slots, NEW r \in ToolRequests, Answer(s, r)
      PROVE  ToolTypeOK' /\ Valid'
  BY <1>1, <1>2 DEF Answer, ToolTypeOK, Busy
<1>3. ASSUME NEW s \in Slots, NEW r \in ToolRequests, Reject(s, r)
      PROVE  ToolTypeOK' /\ Valid'
  <2>1. ToolOf[r] \in Tools
    BY ToolAssumption
  <2>2. fails[ToolOf[r]] + 1 \in 0..FailureLimit
    BY <1>3, <2>1, ToolAssumption DEF Reject, GoesToTool, BreakerOpen, ToolTypeOK
  <2>3. fails' \in [Tools -> 0..FailureLimit] /\ streak' \in [Tools -> Nat]
    BY <1>3, <2>1, <2>2, FailTypes DEF Reject
  <2> QED BY <1>1, <1>3, <2>3 DEF Reject, ToolTypeOK, Busy
<1>4. ASSUME NEW s \in Slots, NEW r \in ToolRequests, Start(s, r)
      PROVE  ToolTypeOK' /\ Valid'
  <2> DEFINE c == [at |-> "trying", request |-> r, seen |-> fails[ToolOf[r]], attempt |-> 1]
  <2>1. fails[ToolOf[r]] \in 0..FailureLimit - 1
    BY <1>4, ToolAssumption DEF Start, GoesToTool, BreakerOpen, ToolTypeOK
  <2>2. c \in Trying
    BY <2>1, ToolAssumption DEF Trying
  <2>3. call' = [call EXCEPT ![s] = c] /\ r \notin Invalid /\ c.request = r
    BY <1>4 DEF Start
  <2> HIDE DEF c
  <2>4. call' \in [Slots -> {NoCall} \cup Trying]
    BY <2>2, <2>3 DEF ToolTypeOK
  <2>5. Valid'
    BY <2>3 DEF ToolTypeOK, Busy
  <2> QED BY <1>1, <1>4, <2>4, <2>5 DEF Start, ToolTypeOK
<1>5. ASSUME NEW s \in Slots, Finish(s)
      PROVE  Valid'
  BY <1>5 DEF Finish, Busy, ToolTypeOK
<1>6. ASSUME NEW s \in Slots, Succeed(s) \/ Unserializable(s)
      PROVE  ToolTypeOK' /\ Valid'
  <2> DEFINE r == call[s].request
  <2>1. r \in ToolRequests \ Invalid
    BY <1>6, BusyTypes DEF Succeed, Unserializable
  <2>2. ToolAnswers(r) /\ Finish(s)
    BY <1>6 DEF Succeed, Unserializable
  <2>3. fails' \in [Tools -> 0..FailureLimit] /\ streak' \in [Tools -> Nat]
    BY <2>1, <2>2, AnswerTypes
  <2>4. /\ cache' \subseteq ToolRequests \ Invalid
        /\ answers' \in [ToolRequests -> Nat] /\ unwritten' \in [ToolRequests -> Nat]
    BY <1>6, <2>1 DEF Succeed, Unserializable, ToolTypeOK
  <2>5. call' \in [Slots -> {NoCall} \cup Trying]
    BY <2>2, FinishTypes
  <2> QED BY <1>5, <1>6, <2>2, <2>3, <2>4, <2>5 DEF Succeed, Unserializable, ToolTypeOK
<1>7. ASSUME NEW s \in Slots, Retry(s)
      PROVE  ToolTypeOK' /\ Valid'
  <2>1. call[s] \in Trying /\ call[s].attempt + 1 \in 1..MaxAttempts
    BY <1>7, BusyTypes, ToolAssumption DEF Retry, IsLastAttempt
  <2>2. [call[s] EXCEPT !.attempt = @ + 1] \in Trying
    BY <2>1 DEF Trying
  <2>3. call' = [call EXCEPT ![s] = [call[s] EXCEPT !.attempt = @ + 1]]
    BY <1>7 DEF Retry
  <2>4. call' \in [Slots -> {NoCall} \cup Trying]
    BY <2>2, <2>3 DEF ToolTypeOK
  <2>5. Valid'
    BY <1>7, <2>1, <2>3 DEF ToolTypeOK, Busy, Retry, Trying
  <2> QED BY <1>7, <2>4, <2>5 DEF Retry, ToolTypeOK
<1>8. ASSUME NEW s \in Slots, GiveUp(s)
      PROVE  ToolTypeOK' /\ Valid'
  <2>1. fails' \in [Tools -> 0..FailureLimit] /\ streak' \in [Tools -> Nat]
    BY <1>8, BusyTypes, FailTypes DEF GiveUp
  <2> QED BY <1>5, <1>8, <2>1, FinishTypes DEF GiveUp, ToolTypeOK
<1>9. ASSUME NEW s \in Slots, Cancel(s)
      PROVE  ToolTypeOK' /\ Valid'
  BY <1>5, <1>9, FinishTypes DEF Cancel, ToolTypeOK
<1>10. CASE UNCHANGED toolVars
  BY <1>10 DEF toolVars, ToolTypeOK, Busy
<1> QED
  BY <1>2, <1>3, <1>4, <1>6, <1>7, <1>8, <1>9, <1>10 DEF ToolNext, Attempt

(* Every reachable state of the adapter is well typed: a tool is never     *)
(* charged with more than FailureLimit failures, and only valid requests   *)
(* have an answer.                                                         *)
THEOREM ExecutionTypes == ToolSpec => []ToolTypeOK
<1> DEFINE Valid == \A s \in Slots : Busy(s) => call[s].request \notin Invalid
<1>1. ToolInit => ToolTypeOK /\ Valid
  BY InitTypes DEF ToolInit, Busy
<1>2. ToolTypeOK /\ Valid /\ [ToolNext]_toolVars => ToolTypeOK' /\ Valid'
  BY StepTypes
<1> HIDE DEF Valid
<1> QED
  BY <1>1, <1>2, PTL DEF ToolSpec

-----------------------------------------------------------------------------
(* Calls one at a time: nothing changes between what a call reads at its   *)
(* start and what it writes at its end.                                    *)

AtMostOneBusy == \A s, t \in Slots : Busy(s) /\ Busy(t) => s = t

SawTheTables ==
  \A s \in Slots :
    Busy(s) => /\ call[s].seen = fails[ToolOf[call[s].request]]
               /\ call[s].request \notin cache

AnswersAreCached ==
  \A r \in ToolRequests :
    answers[r] = unwritten[r] + (IF r \in cache THEN 1 ELSE 0)

SoloInv ==
  ~overlap => AtMostOneBusy /\ SawTheTables /\ fails = streak /\ AnswersAreCached

(* When the one busy slot finishes no slot is busy.                        *)
LEMMA FinishLeavesIdle ==
  ASSUME ToolTypeOK, AtMostOneBusy, NEW s \in Slots, Busy(s), Finish(s)
  PROVE  \A t \in Slots : ~Busy(t)'
  BY DEF ToolTypeOK, AtMostOneBusy, Busy, Finish

LEMMA SoloStep == ToolTypeOK /\ SoloInv /\ [ToolNext]_toolVars => SoloInv'
<1> SUFFICES ASSUME ToolTypeOK, SoloInv, [ToolNext]_toolVars PROVE SoloInv'
  OBVIOUS
<1>0. UNCHANGED overlap
  BY DEF ToolNext, toolVars, Attempt, Answer, Reject, Start, Succeed, Unserializable,
     Retry, GiveUp, Cancel
<1> SUFFICES ASSUME ~overlap, ~overlap' PROVE SoloInv'
  BY <1>0 DEF SoloInv
<1>1. AtMostOneBusy /\ SawTheTables /\ fails = streak /\ AnswersAreCached
  BY DEF SoloInv
<1>2. ASSUME NEW s \in Slots, Admitted(s)
      PROVE  \A t \in Slots : ~Busy(t)
  BY <1>2 DEF Admitted
<1>3. ASSUME NEW s \in Slots, NEW r \in ToolRequests, Answer(s, r)
      PROVE  SoloInv'
  BY <1>1, <1>3 DEF Answer, SoloInv, AtMostOneBusy, SawTheTables, AnswersAreCached, Busy
<1>4. ASSUME NEW s \in Slots, NEW r \in ToolRequests, Reject(s, r)
      PROVE  SoloInv'
  <2>1. \A t \in Slots : ~Busy(t)'
    BY <1>2, <1>4 DEF Reject, Busy
  <2>2. fails' = streak'
    BY <1>1, <1>4, ToolAssumption DEF Reject, CallFails, ToolTypeOK
  <2>3. AnswersAreCached'
    BY <1>1, <1>4 DEF Reject, AnswersAreCached
  <2> QED BY <2>1, <2>2, <2>3 DEF SoloInv, AtMostOneBusy, SawTheTables
<1>5. ASSUME NEW s \in Slots, NEW r \in ToolRequests, Start(s, r)
      PROVE  SoloInv'
  <2>1. \A t \in Slots : Busy(t)' => t = s
    BY <1>2, <1>5 DEF Start, Busy, ToolTypeOK
  <2>2. call'[s].request = r /\ call'[s].seen = fails[ToolOf[r]] /\ r \notin cache
    BY <1>5 DEF Start, GoesToTool, ToolTypeOK
  <2>3. fails' = fails /\ cache' = cache /\ streak' = streak /\ answers' = answers
        /\ unwritten' = unwritten
    BY <1>5 DEF Start
  <2> QED BY <1>1, <2>1, <2>2, <2>3 DEF SoloInv, AtMostOneBusy, SawTheTables, AnswersAreCached
<1>6. ASSUME NEW s \in Slots, Succeed(s) \/ Unserializable(s)
      PROVE  SoloInv'
  <2> DEFINE r == call[s].request
  <2>1. r \in ToolRequests /\ r \notin cache /\ Busy(s)
    BY <1>1, <1>6, BusyTypes DEF Succeed, Unserializable, SawTheTables
  <2>2. \A t \in Slots : ~Busy(t)'
    BY <1>1, <1>6, <2>1, FinishLeavesIdle DEF Succeed, Unserializable
  <2>3. fails' = streak'
    BY <1>1, <1>6 DEF Succeed, Unserializable, ToolAnswers
  <2>4. AnswersAreCached'
    <3>1. CASE Unserializable(s)
      <4>1. /\ answers' = [answers EXCEPT ![r] = @ + 1]
            /\ unwritten' = [unwritten EXCEPT ![r] = @ + 1]
            /\ cache' = cache
        BY <3>1 DEF Unserializable
      <4> HIDE DEF r
      <4> QED BY <1>1, <2>1, <4>1 DEF AnswersAreCached, ToolTypeOK
    <3>2. CASE Succeed(s)
      <4>1. /\ answers' = [answers EXCEPT ![r] = @ + 1] /\ unwritten' = unwritten
            /\ cache' = cache \cup {r}
        BY <3>2 DEF Succeed
      <4> HIDE DEF r
      <4> QED BY <1>1, <2>1, <4>1 DEF AnswersAreCached, ToolTypeOK
    <3> QED BY <1>6, <3>1, <3>2
  <2> QED BY <2>2, <2>3, <2>4 DEF SoloInv, AtMostOneBusy, SawTheTables
<1>7. ASSUME NEW s \in Slots, Retry(s)
      PROVE  SoloInv'
  <2>1. \A t \in Slots : /\ Busy(t)' => Busy(t)
                         /\ call'[t].request = call[t].request
                         /\ call'[t].seen = call[t].seen
    BY <1>7, BusyTypes DEF Retry, Busy, ToolTypeOK, Trying
  <2>2. fails' = fails /\ cache' = cache /\ streak' = streak /\ answers' = answers
        /\ unwritten' = unwritten
    BY <1>7 DEF Retry
  <2> QED BY <1>1, <2>1, <2>2 DEF SoloInv, AtMostOneBusy, SawTheTables, AnswersAreCached
<1>8. ASSUME NEW s \in Slots, GiveUp(s)
      PROVE  SoloInv'
  <2> DEFINE t == ToolOf[call[s].request]
  <2>1. t \in Tools /\ Busy(s) /\ call[s].seen = fails[t]
    BY <1>1, <1>8, BusyTypes DEF GiveUp, SawTheTables
  <2>2. \A u \in Slots : ~Busy(u)'
    BY <1>1, <1>8, <2>1, FinishLeavesIdle DEF GiveUp
  <2>3. CallFails(t, fails[t])
    BY <1>8, <2>1 DEF GiveUp
  <2> HIDE DEF t
  <2>4. fails' = streak'
    BY <1>1, <2>1, <2>3 DEF CallFails, ToolTypeOK
  <2>5. AnswersAreCached'
    BY <1>1, <1>8 DEF GiveUp, AnswersAreCached
  <2> QED BY <2>2, <2>4, <2>5 DEF SoloInv, AtMostOneBusy, SawTheTables
<1>9. ASSUME NEW s \in Slots, Cancel(s)
      PROVE  SoloInv'
  <2>1. \A t \in Slots : ~Busy(t)'
    BY <1>1, <1>9, FinishLeavesIdle DEF Cancel
  <2> QED BY <1>1, <1>9, <2>1
        DEF Cancel, SoloInv, AtMostOneBusy, SawTheTables, AnswersAreCached
<1>10. CASE UNCHANGED toolVars
  BY <1>1, <1>10 DEF toolVars, SoloInv, AtMostOneBusy, SawTheTables, AnswersAreCached, Busy
<1> QED
  BY <1>3, <1>4, <1>5, <1>6, <1>7, <1>8, <1>9, <1>10 DEF ToolNext, Attempt

LEMMA InitSolo == ToolInit => SoloInv
  BY DEF ToolInit, SoloInv, AtMostOneBusy, SawTheTables, AnswersAreCached, Busy

(* With calls one at a time a breaker counts exactly the calls that failed *)
(* in a row (create_langchain_tool's _arun).                               *)
THEOREM BreakersAreSound == ToolSpec => []BreakerCountsFailures
<1>1. SoloInv => BreakerCountsFailures
  BY DEF SoloInv, BreakerCountsFailures
<1> QED
  BY <1>1, InitSolo, SoloStep, ExecutionTypes, PTL DEF ToolSpec

(* With calls one at a time a tool answers a request again only when json   *)
(* could not write what it answered before; otherwise the answer comes     *)
(* from dedup_cache (create_langchain_tool's _arun).                       *)
THEOREM OnlyLostAnswersAgain == ToolSpec => []AnswersAreReused
<1>1. ToolTypeOK /\ SoloInv => AnswersAreReused
  BY DEF ToolTypeOK, SoloInv, AnswersAreReused, AnswersAreCached
<1> QED
  BY <1>1, InitSolo, SoloStep, ExecutionTypes, PTL DEF ToolSpec

-----------------------------------------------------------------------------
(* The attempts the calls in progress may still make, however many calls   *)
(* there are at a time.  What was attempted and what may still be is paid  *)
(* for by the calls the budget has admitted.                               *)
AttemptsLeft ==
  {u \in Slots \X (1..MaxAttempts) : Busy(u[1]) /\ u[2] > call[u[1]].attempt}

AdmittedCalls == IF spend <= Budget THEN spend ELSE Budget

AttemptsArePaid ==
  /\ IsFiniteSet(AttemptsLeft)
  /\ tries + Cardinality(AttemptsLeft) <= AdmittedCalls * MaxAttempts

LEMMA OneMore ==
  ASSUME NEW m \in Nat, NEW n \in Nat
  PROVE  /\ m * n \in Nat
         /\ (m + 1) * n = m * n + n
         /\ \A k \in Nat : k <= m => k * n <= m * n
  OBVIOUS

(* An attempt that is not made any more costs nothing.                     *)
LEMMA FewerLeft ==
  ASSUME AttemptsArePaid, ToolTypeOK, UNCHANGED <<tries, spend>>,
         AttemptsLeft' \subseteq AttemptsLeft
  PROVE  AttemptsArePaid'
<1>1. IsFiniteSet(AttemptsLeft') /\ Cardinality(AttemptsLeft') <= Cardinality(AttemptsLeft)
  BY FS_Subset DEF AttemptsArePaid
<1>2. Cardinality(AttemptsLeft) \in Nat /\ Cardinality(AttemptsLeft') \in Nat
  BY <1>1, FS_CardinalityType DEF AttemptsArePaid
<1>3. AdmittedCalls * MaxAttempts \in Nat
  BY OneMore, ToolAssumption DEF AdmittedCalls, ToolTypeOK
<1>4. AdmittedCalls' = AdmittedCalls
  BY DEF AdmittedCalls
<1> QED
  BY <1>1, <1>2, <1>3, <1>4 DEF AttemptsArePaid, ToolTypeOK

LEMMA PaidStep == ToolTypeOK /\ AttemptsArePaid /\ [ToolNext]_toolVars => AttemptsArePaid'
<1> SUFFICES ASSUME ToolTypeOK, AttemptsArePaid, [ToolNext]_toolVars PROVE AttemptsArePaid'
  OBVIOUS
<1>1. Cardinality(AttemptsLeft) \in Nat /\ tries \in Nat /\ spend \in Nat
  BY FS_CardinalityType DEF AttemptsArePaid, ToolTypeOK
<1>2. ASSUME NEW s \in Slots, NEW r \in ToolRequests, Answer(s, r) \/ Reject(s, r)
      PROVE  AttemptsArePaid'
  <2>1. AttemptsLeft' = AttemptsLeft /\ tries' = tries /\ spend' = spend + 1
    BY <1>2 DEF Answer, Reject, Admitted, AttemptsLeft, Busy
  <2>2. /\ AdmittedCalls \in Nat /\ AdmittedCalls' \in Nat
        /\ AdmittedCalls <= AdmittedCalls'
    BY <1>1, <2>1, ToolAssumption DEF AdmittedCalls
  <2>3. /\ AdmittedCalls * MaxAttempts \in Nat
        /\ AdmittedCalls' * MaxAttempts \in Nat
        /\ AdmittedCalls * MaxAttempts <= AdmittedCalls' * MaxAttempts
    BY <2>2, OneMore, ToolAssumption
  <2> QED
    BY <1>1, <2>1, <2>3 DEF AttemptsArePaid
<1>3. ASSUME NEW s \in Slots, NEW r \in ToolRequests, Start(s, r)
      PROVE  AttemptsArePaid'
  <2> DEFINE new == {s} \X (2..MaxAttempts)
  <2>1. AttemptsLeft' \subseteq AttemptsLeft \cup new
    <3>1. \A t \in Slots \ {s} : call'[t] = call[t]
      BY <1>3 DEF Start, ToolTypeOK
    <3>2. call'[s].attempt = 1
      BY <1>3 DEF Start, ToolTypeOK
    <3>3. ASSUME NEW t \in Slots, NEW n \in 1..MaxAttempts,
                 Busy(t)', n > call'[t].attempt
          PROVE  <<t, n>> \in AttemptsLeft \cup new
      BY <3>1, <3>2, <3>3 DEF AttemptsLeft, Busy
    <3> QED
      BY <3>3 DEF AttemptsLeft
  <2>2. IsFiniteSet(new) /\ Cardinality(new) = MaxAttempts - 1
    <3>1. IsFiniteSet(2..MaxAttempts) /\ Cardinality(2..MaxAttempts) = MaxAttempts - 1
      BY FS_Interval, ToolAssumption
    <3>2. IsFiniteSet({s}) /\ Cardinality({s}) = 1
      BY FS_Singleton
    <3>3. IsFiniteSet(new) /\ Cardinality(new) = 1 * (MaxAttempts - 1)
      BY <3>1, <3>2, FS_Product
    <3> HIDE DEF new
    <3> QED
      BY <3>3, ToolAssumption
  <2>3. /\ IsFiniteSet(AttemptsLeft \cup new)
        /\ Cardinality(AttemptsLeft \cup new) <= Cardinality(AttemptsLeft) + MaxAttempts - 1
    <3>1. IsFiniteSet(AttemptsLeft \cap new)
      BY FS_Intersection DEF AttemptsArePaid
    <3>2. Cardinality(AttemptsLeft \cap new) \in Nat
      BY <3>1, FS_CardinalityType
    <3> HIDE DEF new
    <3>3. IsFiniteSet(AttemptsLeft)
      BY DEF AttemptsArePaid
    <3>4. /\ IsFiniteSet(AttemptsLeft \cup new)
          /\ Cardinality(AttemptsLeft \cup new) = Cardinality(AttemptsLeft)
               + Cardinality(new) - Cardinality(AttemptsLeft \cap new)
      BY <2>2, <3>3, FS_Union
    <3> QED
      BY <1>1, <2>2, <3>2, <3>4, ToolAssumption
  <2> HIDE DEF new
  <2>4. /\ IsFiniteSet(AttemptsLeft')
        /\ Cardinality(AttemptsLeft') <= Cardinality(AttemptsLeft \cup new)
    BY <2>1, <2>3, FS_Subset
  <2>5. Cardinality(AttemptsLeft') \in Nat /\ Cardinality(AttemptsLeft \cup new) \in Nat
    BY <2>3, <2>4, FS_CardinalityType
  <2>6. tries' = tries + 1 /\ AdmittedCalls' = AdmittedCalls + 1 /\ AdmittedCalls \in Nat
    BY <1>1, <1>3, ToolAssumption
    DEF Start, Admitted, GoesToTool, WithinBudget, AdmittedCalls
  <2>7. /\ AdmittedCalls * MaxAttempts \in Nat
        /\ AdmittedCalls' * MaxAttempts = AdmittedCalls * MaxAttempts + MaxAttempts
    BY <2>6, OneMore, ToolAssumption
  <2> QED
    BY <1>1, <2>3, <2>4, <2>5, <2>6, <2>7, ToolAssumption DEF AttemptsArePaid
<1>4. ASSUME NEW s \in Slots, Finish(s)
      PROVE  AttemptsLeft' \subseteq AttemptsLeft
  BY <1>4 DEF Finish, AttemptsLeft, Busy, ToolTypeOK
<1>5. ASSUME NEW s \in Slots,
             Succeed(s) \/ Unserializable(s) \/ GiveUp(s) \/ Cancel(s)
      PROVE  AttemptsArePaid'
  BY <1>4, <1>5, FewerLeft DEF Succeed, Unserializable, GiveUp, Cancel
<1>6. ASSUME NEW s \in Slots, Retry(s)
      PROVE  AttemptsArePaid'
  <2> DEFINE u == <<s, call[s].attempt + 1>>
  <2>1. call[s] \in Trying /\ call[s].attempt + 1 \in 1..MaxAttempts
    BY <1>6, BusyTypes, ToolAssumption DEF Retry, IsLastAttempt
  <2>2. u \in AttemptsLeft
    BY <1>6, <2>1 DEF AttemptsLeft, Retry, Trying
  <2>3. call'[s].attempt = call[s].attempt + 1 /\ call'[s] # NoCall
    <3>1. call'[s] = [call[s] EXCEPT !.attempt = @ + 1]
      BY <1>6 DEF Retry, ToolTypeOK
    <3>2. [call[s] EXCEPT !.attempt = @ + 1] \in Trying
      BY <2>1 DEF Trying
    <3> QED
      BY <2>1, <3>1, <3>2, IdleIsNotTrying DEF Trying
  <2>4. \A t \in Slots \ {s} : call'[t] = call[t]
    BY <1>6 DEF Retry, ToolTypeOK
  <2>5. ASSUME NEW t \in Slots, NEW n \in 1..MaxAttempts,
               Busy(t)', n > call'[t].attempt
        PROVE  <<t, n>> \in AttemptsLeft \ {u}
    <3>1. CASE t = s
      BY <1>6, <2>1, <2>3, <2>5, <3>1 DEF AttemptsLeft, Retry, Trying
    <3>2. CASE t # s
      BY <2>4, <2>5, <3>2 DEF AttemptsLeft, Busy
    <3> QED
      BY <3>1, <3>2
  <2>6. AttemptsLeft' \subseteq AttemptsLeft \ {u}
    BY <2>5 DEF AttemptsLeft
  <2> HIDE DEF u
  <2>7. /\ IsFiniteSet(AttemptsLeft \ {u})
        /\ Cardinality(AttemptsLeft \ {u}) = Cardinality(AttemptsLeft) - 1
    BY <2>2, FS_RemoveElement DEF AttemptsArePaid
  <2>8. /\ IsFiniteSet(AttemptsLeft')
        /\ Cardinality(AttemptsLeft') <= Cardinality(AttemptsLeft) - 1
    BY <2>6, <2>7, FS_Subset
  <2>9. Cardinality(AttemptsLeft') \in Nat
    BY <2>8, FS_CardinalityType
  <2>10. tries' = tries + 1 /\ AdmittedCalls' = AdmittedCalls
    BY <1>6 DEF Retry, AdmittedCalls
  <2>11. AdmittedCalls * MaxAttempts \in Nat
    BY <1>1, OneMore, ToolAssumption DEF AdmittedCalls
  <2> QED
    BY <1>1, <2>8, <2>9, <2>10, <2>11 DEF AttemptsArePaid
<1>7. CASE UNCHANGED toolVars
  <2>1. AttemptsLeft' = AttemptsLeft
    BY <1>7 DEF toolVars, AttemptsLeft, Busy
  <2> QED
    BY <1>7, <2>1, FewerLeft DEF toolVars
<1> QED
  BY <1>2, <1>3, <1>5, <1>6, <1>7 DEF ToolNext, Attempt

(* However calls overlap and whatever the tools do, all attempts together  *)
(* stay within the budget times the attempts of one call.                  *)
THEOREM AttemptsStayBounded == ToolSpec => []AttemptsAreBounded
<1>1. ToolInit => AttemptsArePaid
  <2> SUFFICES ASSUME ToolInit PROVE AttemptsArePaid
    OBVIOUS
  <2>1. AttemptsLeft = {}
    BY DEF ToolInit, AttemptsLeft, Busy
  <2>2. AdmittedCalls = 0
    BY ToolAssumption DEF ToolInit, AdmittedCalls
  <2> QED
    BY <2>1, <2>2, FS_EmptySet, ToolAssumption DEF ToolInit, AttemptsArePaid
<1>2. ToolTypeOK /\ AttemptsArePaid => AttemptsAreBounded
  <2> SUFFICES ASSUME ToolTypeOK, AttemptsArePaid PROVE AttemptsAreBounded
    OBVIOUS
  <2>1. Cardinality(AttemptsLeft) \in Nat
    BY FS_CardinalityType DEF AttemptsArePaid
  <2>2. AdmittedCalls \in Nat /\ AdmittedCalls <= Budget
    BY ToolAssumption DEF AdmittedCalls, ToolTypeOK
  <2>3. /\ AdmittedCalls * MaxAttempts <= Budget * MaxAttempts
        /\ AdmittedCalls * MaxAttempts \in Nat /\ Budget * MaxAttempts \in Nat
    BY <2>2, OneMore, ToolAssumption
  <2> QED
    BY <2>1, <2>3 DEF AttemptsArePaid, AttemptsAreBounded, ToolTypeOK
<1> QED
  BY <1>1, <1>2, PaidStep, ExecutionTypes, PTL DEF ToolSpec
=============================================================================
