---------------------- MODULE StoresAndRecoveryProofs -----------------------
(***************************************************************************)
(* Proofs about the small parts that guard a run and what they store:      *)
(* BreakerStore, for any number of workers, any threshold and any number   *)
(* of transitions between two saves; ArtifactCache, for any number of      *)
(* workers and faults; SchemaMigrations, for any number of processes and   *)
(* migrations; CircuitBreaker, for any number of threads; StageExecution,  *)
(* for any budget and any number of retries.                               *)
(***************************************************************************)
EXTENDS BreakerStore, ArtifactCache, SchemaMigrations, CircuitBreaker,
        StageExecution, TLAPS

-----------------------------------------------------------------------------
(* BreakerStore                                                            *)

(* Setting one field of a breaker.                                         *)
LEMMA OneField ==
  ASSUME NEW t \in Breaker
  PROVE  /\ \A n \in Nat : /\ [t EXCEPT !.count = n] \in Breaker
                           /\ [t EXCEPT !.count = n].version = t.version
         /\ \A n \in Nat : /\ [t EXCEPT !.opens = n] \in Breaker
                           /\ [t EXCEPT !.opens = n].version = t.version
         /\ \A n \in Nat : /\ [t EXCEPT !.closes = n] \in Breaker
                           /\ [t EXCEPT !.closes = n].version = t.version
         /\ \A x \in Statuses : /\ [t EXCEPT !.status = x] \in Breaker
                                /\ [t EXCEPT !.status = x].version = t.version
BY DEF Breaker

LEMMA EvolvedIsTyped ==
  ASSUME NEW s \in Breaker
  PROVE  /\ Evolved(s) \in Breaker
         /\ Evolved(s).version = s.version + 1
         /\ Evolved(s).count \in Nat /\ Evolved(s).opens \in Nat
         /\ Evolved(s).closes \in Nat
<1>1. Evolved(s) \in Breaker /\ Evolved(s).version = s.version + 1
  BY DEF Evolved, Breaker
<1> QED BY <1>1 DEF Breaker

(* A transition yields a breaker whose version is one higher.              *)
LEMMA TransitionsAreTyped ==
  ASSUME NEW s \in Breaker
  PROVE  \A r \in Transitions(s) : r \in Breaker /\ r.version = s.version + 1
<1> DEFINE t == Evolved(s)
           failed == [t EXCEPT !.count = t.count + 1]
           opened == [failed EXCEPT !.status = "open"]
           tripped == [opened EXCEPT !.opens = t.opens + 1]
           cleared == [t EXCEPT !.count = 0]
           closing == [cleared EXCEPT !.status = "closed"]
           closed == [closing EXCEPT !.closes = t.closes + 1]
           halfOpen == [t EXCEPT !.status = "half_open"]
<1>1. /\ RecordFailure(s) \in {failed, tripped}
      /\ RecordSuccess(s) \in {cleared, closed}
      /\ HalfOpen(s) = halfOpen
  BY DEF RecordFailure, RecordSuccess, HalfOpen
<1>2. /\ t \in Breaker /\ t.version = s.version + 1
      /\ t.count + 1 \in Nat /\ t.opens + 1 \in Nat /\ t.closes + 1 \in Nat
  BY EvolvedIsTyped
<1>3. {"open", "closed", "half_open"} \subseteq Statuses  BY DEF Statuses
<1> HIDE DEF t
<1>4. /\ failed \in Breaker /\ failed.version = t.version
      /\ cleared \in Breaker /\ cleared.version = t.version
      /\ halfOpen \in Breaker /\ halfOpen.version = t.version
  BY <1>2, <1>3, OneField
<1> HIDE DEF failed, cleared, halfOpen
<1>5. /\ opened \in Breaker /\ opened.version = t.version
      /\ closing \in Breaker /\ closing.version = t.version
  BY <1>3, <1>4, OneField
<1> HIDE DEF opened, closing
<1>6. /\ tripped \in Breaker /\ tripped.version = t.version
      /\ closed \in Breaker /\ closed.version = t.version
  BY <1>2, <1>5, OneField
<1> HIDE DEF tripped, closed
<1> QED BY <1>1, <1>2, <1>4, <1>6 DEF Transitions

LEMMA ResetIsTyped ==
  ASSUME NEW s \in Breaker
  PROVE  Reset(s) \in Breaker /\ Reset(s).version = s.version + 1
<1> DEFINE t == Evolved(s)
           closed == [t EXCEPT !.status = "closed"]
           cleared == [closed EXCEPT !.count = 0]
<1>1. Reset(s) = cleared  BY DEF Reset
<1>2. t \in Breaker /\ t.version = s.version + 1  BY EvolvedIsTyped
<1> HIDE DEF t
<1>3. closed \in Breaker /\ closed.version = t.version
  BY <1>2, OneField DEF Statuses
<1> HIDE DEF closed
<1>4. cleared \in Breaker /\ cleared.version = t.version
  BY <1>3, OneField
<1> HIDE DEF cleared
<1> QED BY <1>1, <1>2, <1>4

LEMMA FoundIsTyped ==
  ASSUME NEW r \in Breaker \cup {NoRow}
  PROVE  /\ Found(r) \in Breaker
         /\ Copied(r) \in Holding
         /\ r \in Breaker => Found(r) = r
<1>1. Fresh \in Breaker  BY DEF Fresh, Breaker, Statuses
<1>2. Found(r) \in Breaker /\ (r \in Breaker => Found(r) = r)
  BY <1>1, NoRowAssumption DEF Found
<1>3. 0 \in 0..MaxEvolves  BY BreakerStoreAssumption
<1> QED BY <1>2, <1>3 DEF Copied, Holding

LEMMA UpsertedIsTyped ==
  ASSUME row \in Breaker \cup {NoRow}, NEW s \in Breaker
  PROVE  Upserted(s) \in Breaker
BY NoRowAssumption DEF Upserted, Breaker

-----------------------------------------------------------------------------
(* What a worker holds and what the table holds have their types.          *)
THEOREM BreakerStoreTypeCorrect == BreakerStoreSpec => []BreakerStoreTypeOK
<1>1. BreakerStoreInit => BreakerStoreTypeOK
  BY DEF BreakerStoreInit, BreakerStoreTypeOK
<1>2. BreakerStoreTypeOK /\ [BreakerStoreNext]_breakerVars => BreakerStoreTypeOK'
  <2> SUFFICES ASSUME BreakerStoreTypeOK, [BreakerStoreNext]_breakerVars
               PROVE  BreakerStoreTypeOK'
    OBVIOUS
  <2> USE DEF BreakerStoreTypeOK
  <2>1. ASSUME NEW w \in Workers, Get(w)  PROVE BreakerStoreTypeOK'
    BY <2>1, FoundIsTyped DEF Get
  <2>2. ASSUME NEW w \in Workers, EvolveCopy(w)  PROVE BreakerStoreTypeOK'
    <3>1. copy[w] \in Holding
      BY <2>2 DEF EvolveCopy, Idle, Saved
    <3>2. PICK s \in Transitions(copy[w].state) :
            copy' = [copy EXCEPT ![w].state = s, ![w].evolved = @ + 1]
      BY <2>2 DEF EvolveCopy
    <3>3. s \in Breaker  BY <3>1, TransitionsAreTyped DEF Holding
    <3>4. copy[w].evolved + 1 \in 0..MaxEvolves
      BY <2>2, <3>1, BreakerStoreAssumption DEF EvolveCopy, Holding
    <3>5. [copy[w] EXCEPT !.state = s, !.evolved = @ + 1] \in Holding
      BY <3>1, <3>3, <3>4 DEF Holding
    <3>6. copy' = [copy EXCEPT ![w] = [copy[w] EXCEPT !.state = s, !.evolved = @ + 1]]
      BY <3>2
    <3> QED BY <2>2, <3>5, <3>6 DEF EvolveCopy
  <2>3. ASSUME NEW w \in Workers, Upsert(w)  PROVE BreakerStoreTypeOK'
    <3>1. copy[w] \in Holding
      BY <2>3 DEF Upsert, Idle, Saved
    <3>2. copy[w].state \in Breaker  BY <3>1 DEF Holding
    <3>3. Upserted(copy[w].state) \in Breaker  BY <3>2, UpsertedIsTyped
    <3>4. [at |-> "saved", state |-> copy[w].state] \in Saved  BY <3>2 DEF Saved
    <3> QED BY <2>3, <3>3, <3>4 DEF Upsert
  <2>4. ASSUME NEW w \in Workers, ReadBack(w)  PROVE BreakerStoreTypeOK'
    <3>1. copy[w] \in Saved
      BY <2>4 DEF ReadBack, Idle, Holding
    <3>2. [Copied(row) EXCEPT !.state = copy[w].state] \in Holding
      BY <3>1, FoundIsTyped DEF Saved, Holding
    <3> QED BY <2>4, <3>2, FoundIsTyped DEF ReadBack
  <2>5. ASSUME NEW w \in Workers, Drop(w)  PROVE BreakerStoreTypeOK'
    BY <2>5 DEF Drop
  <2>6. ASSUME ResetAll  PROVE BreakerStoreTypeOK'
    BY <2>6, ResetIsTyped DEF ResetAll
  <2>7. ASSUME Delete  PROVE BreakerStoreTypeOK'
    BY <2>7 DEF Delete
  <2>8. ASSUME UNCHANGED breakerVars  PROVE BreakerStoreTypeOK'
    BY <2>8 DEF breakerVars
  <2> QED BY <2>1, <2>2, <2>3, <2>4, <2>5, <2>6, <2>7, <2>8
          DEF BreakerStoreNext, WorkerStep
<1> QED BY <1>1, <1>2, PTL DEF BreakerStoreSpec

-----------------------------------------------------------------------------
(* The strengthening.  As long as the row is not deleted its version grows *)
(* with every write, so that a copy whose version is one ahead of the row  *)
(* was read from that very row; a row of version 0 is a fresh breaker.     *)

ReadBefore(r) ==
  r # NoRow => /\ row # NoRow
               /\ r.version <= row.version
               /\ r.version = row.version => r = row

Derived(c) ==
  /\ c.state.version = Found(c.read).version + c.evolved
  /\ c.evolved = 0 => c.state = Found(c.read)
  /\ c.evolved = 1 => c.state \in Transitions(Found(c.read))

CopyInv(w) ==
  /\ copy[w].at = "holding" => ReadBefore(copy[w].read) /\ Derived(copy[w])
  /\ copy[w].at = "saved" => row # NoRow

LineageInv ==
  ~deleted => /\ row # NoRow /\ row.version = 0 => row = Fresh
              /\ \A w \in Workers : CopyInv(w)

(* A row that is written is the row one version later, or the first one.   *)
LEMMA UpsertedGrows ==
  ASSUME row \in Breaker \cup {NoRow}, NEW s \in Breaker
  PROVE  /\ row = NoRow => Upserted(s) = s
         /\ row # NoRow => \/ Upserted(s) = row
                           \/ Upserted(s).version = row.version + 1
BY DEF Upserted, Breaker

(* A copy just read.                                                       *)
LEMMA CopiedIsDerived ==
  ASSUME row \in Breaker \cup {NoRow}
  PROVE  Derived(Copied(row)) /\ ReadBefore(row)
<1>1. Found(row) \in Breaker  BY FoundIsTyped
<1>2. Found(row).version = Found(row).version + 0  BY <1>1 DEF Breaker
<1>3. /\ Copied(row).state = Found(row) /\ Copied(row).read = row
      /\ Copied(row).evolved = 0
  BY DEF Copied
<1>4. Derived(Copied(row))  BY <1>2, <1>3 DEF Derived
<1>5. ReadBefore(row)
  BY DEF ReadBefore, Breaker
<1> QED BY <1>4, <1>5

(* A copy that is upserted after at most one transition.                   *)
LEMMA UpsertedFollows ==
  ASSUME BreakerStoreTypeOK, LineageInv, ~deleted,
         NEW w \in Workers, copy[w].at = "holding", copy[w].evolved <= 1
  PROVE  Upserted(copy[w].state) = row \/ Upserted(copy[w].state) \in Successors(row)
<1> DEFINE c == copy[w]
<1>1. c \in Holding  BY DEF BreakerStoreTypeOK, Idle, Saved
<1>2. ReadBefore(c.read) /\ Derived(c)  BY DEF LineageInv, CopyInv
<1>3. c.evolved \in {0, 1} /\ c.state \in Breaker /\ c.read \in Breaker \cup {NoRow}
  BY <1>1, BreakerStoreAssumption DEF Holding
<1>4. CASE row = NoRow
  <2>1. c.read = NoRow  BY <1>2, <1>4 DEF ReadBefore
  <2>2. Found(c.read) = Fresh  BY <2>1 DEF Found
  <2>3. c.state = Fresh \/ c.state \in Transitions(Fresh)
    BY <1>2, <1>3, <2>2 DEF Derived
  <2>4. Upserted(c.state) = c.state  BY <1>4 DEF Upserted
  <2>5. Successors(row) = Transitions(Fresh) \cup {Fresh}  BY <1>4 DEF Successors, Found
  <2> QED BY <2>3, <2>4, <2>5
<1>5. CASE row # NoRow /\ row.version + 1 # c.state.version
  BY <1>5 DEF Upserted
<1>6. CASE row # NoRow /\ row.version + 1 = c.state.version
  <2>1. row \in Breaker  BY <1>6 DEF BreakerStoreTypeOK
  <2>2. Found(c.read) \in Breaker /\ Found(row) = row
    BY <1>3, <2>1, FoundIsTyped
  <2>3. row.version \in Nat /\ Found(c.read).version \in Nat
    BY <2>1, <2>2 DEF Breaker
  <2>4. row.version + 1 = Found(c.read).version + c.evolved
    BY <1>2, <1>6 DEF Derived
  <2>5. Found(c.read).version <= row.version
    <3>1. CASE c.read = NoRow  BY <2>3, <3>1 DEF Found, Fresh
    <3>2. CASE c.read # NoRow
      BY <1>2, <1>3, <3>2, FoundIsTyped DEF ReadBefore
    <3> QED BY <3>1, <3>2
  <2>6. c.evolved = 1 /\ Found(c.read).version = row.version
    BY <1>3, <2>3, <2>4, <2>5
  <2>7. Found(c.read) = row
    <3>1. CASE c.read = NoRow
      BY <1>6, <2>6, <3>1 DEF LineageInv, Found, Fresh
    <3>2. CASE c.read # NoRow
      BY <1>2, <1>3, <2>6, <3>2, FoundIsTyped DEF ReadBefore
    <3> QED BY <3>1, <3>2
  <2>8. c.state \in Transitions(row)  BY <1>2, <2>6, <2>7 DEF Derived
  <2>9. Upserted(c.state) = [c.state EXCEPT !.version = row.version + 1]
    BY <1>6 DEF Upserted
  <2>10. Upserted(c.state) = c.state
    BY <1>3, <1>6, <2>9 DEF Breaker
  <2> QED BY <2>2, <2>8, <2>10 DEF Successors
<1> QED BY <1>4, <1>5, <1>6

LEMMA LineageStep ==
  ASSUME BreakerStoreTypeOK, LineageInv, [BreakerStoreNext]_breakerVars
  PROVE  LineageInv'
<1> SUFFICES ASSUME ~deleted'
             PROVE  /\ (row # NoRow /\ row.version = 0 => row = Fresh)'
                    /\ \A w \in Workers : CopyInv(w)'
  BY DEF LineageInv
<1> USE DEF BreakerStoreTypeOK
<1>1. ~deleted
  BY DEF BreakerStoreNext, WorkerStep, Get, EvolveCopy, Upsert, ReadBack, Drop, ResetAll, Delete,
         breakerVars
<1>2. /\ row # NoRow /\ row.version = 0 => row = Fresh
      /\ \A w \in Workers : CopyInv(w)
  BY <1>1 DEF LineageInv
<1>3. ASSUME NEW w \in Workers, Get(w)
      PROVE  /\ row' = row
             /\ \A u \in Workers : CopyInv(u)'
  <2>1. Derived(Copied(row)) /\ ReadBefore(row)
    BY CopiedIsDerived
  <2>2. \A u \in Workers : copy'[u] = IF u = w THEN Copied(row) ELSE copy[u]
    BY <1>3 DEF Get
  <2> QED BY <1>2, <1>3, <2>1, <2>2 DEF Get, CopyInv, ReadBefore, Copied
<1>4. ASSUME NEW w \in Workers, EvolveCopy(w)
      PROVE  /\ row' = row
             /\ \A u \in Workers : CopyInv(u)'
  <2> DEFINE c == copy[w]
  <2>1. c \in Holding  BY <1>4 DEF EvolveCopy, Idle, Saved
  <2>2. PICK s \in Transitions(c.state) :
          copy' = [copy EXCEPT ![w].state = s, ![w].evolved = @ + 1]
    BY <1>4 DEF EvolveCopy
  <2>3. \A u \in Workers :
          copy'[u] = IF u = w THEN [c EXCEPT !.state = s, !.evolved = @ + 1] ELSE copy[u]
    BY <2>2
  <2>4. ReadBefore(c.read) /\ Derived(c)  BY <1>2, <1>4 DEF CopyInv, EvolveCopy
  <2>5. s \in Breaker /\ s.version = c.state.version + 1
    BY <2>1, TransitionsAreTyped DEF Holding
  <2>6. Found(c.read) \in Breaker  BY <2>1, FoundIsTyped DEF Holding
  <2>7. c.evolved \in Nat  BY <2>1, BreakerStoreAssumption DEF Holding
  <2>8. Derived(copy'[w]) /\ copy'[w].read = c.read /\ copy'[w].at = "holding"
    <3>1. /\ copy'[w].state = s /\ copy'[w].evolved = c.evolved + 1
          /\ copy'[w].read = c.read /\ copy'[w].at = "holding"
      BY <2>1, <2>3 DEF Holding
    <3>2. s.version = Found(c.read).version + (c.evolved + 1)
      BY <2>4, <2>5, <2>6, <2>7 DEF Derived, Breaker
    <3>3. c.evolved + 1 = 1 => s \in Transitions(Found(c.read))
      BY <2>4, <2>7 DEF Derived
    <3>4. c.evolved + 1 # 0  BY <2>7
    <3> QED BY <3>1, <3>2, <3>3, <3>4 DEF Derived
  <2>9. row' = row  BY <1>4 DEF EvolveCopy
  <2> QED BY <1>2, <2>3, <2>4, <2>8, <2>9 DEF CopyInv, ReadBefore
<1>5. ASSUME NEW w \in Workers, Upsert(w)
      PROVE  /\ (row # NoRow /\ row.version = 0 => row = Fresh)'
             /\ \A u \in Workers : CopyInv(u)'
  <2> DEFINE c == copy[w]
  <2>1. c \in Holding  BY <1>5 DEF Upsert, Idle, Saved
  <2>2. c.state \in Breaker  BY <2>1 DEF Holding
  <2>3. row' = Upserted(c.state) /\ row' \in Breaker
    BY <1>5, <2>2, UpsertedIsTyped DEF Upsert
  <2>4. ReadBefore(c.read) /\ Derived(c)  BY <1>2, <1>5 DEF CopyInv, Upsert
  <2>5. row # NoRow => row' = row \/ row'.version = row.version + 1
    BY <2>2, <2>3, UpsertedGrows
  <2>6. row'.version = 0 => row' = Fresh
    <3> SUFFICES ASSUME row'.version = 0  PROVE row' = Fresh
      OBVIOUS
    <3>1. CASE row # NoRow
      BY <1>2, <2>5, <3>1 DEF Breaker
    <3>2. CASE row = NoRow
      <4>1. row' = c.state  BY <2>2, <2>3, <3>2, UpsertedGrows
      <4>2. c.read = NoRow  BY <2>4, <3>2 DEF ReadBefore
      <4>3. Found(c.read) = Fresh  BY <4>2 DEF Found
      <4>4. c.evolved = 0
        BY <2>1, <2>4, <4>1, <4>3, BreakerStoreAssumption DEF Derived, Fresh, Holding
      <4> QED BY <2>4, <4>1, <4>3, <4>4 DEF Derived
    <3> QED BY <3>1, <3>2
  <2>7. ASSUME NEW r \in Breaker \cup {NoRow}, ReadBefore(r)
        PROVE  ReadBefore(r)'
    <3> SUFFICES ASSUME r # NoRow
                 PROVE  /\ row' # NoRow
                        /\ r.version <= row'.version
                        /\ r.version = row'.version => r = row'
      BY DEF ReadBefore
    <3>1. row # NoRow /\ r.version <= row.version /\ (r.version = row.version => r = row)
      BY <2>7 DEF ReadBefore
    <3>2. r.version \in Nat /\ row.version \in Nat
      BY <3>1 DEF Breaker
    <3> QED BY <2>3, <2>5, <3>1, <3>2, NoRowAssumption
  <2>8. \A u \in Workers :
          copy'[u] = IF u = w THEN [at |-> "saved", state |-> c.state] ELSE copy[u]
    BY <1>5 DEF Upsert
  <2>9. row' # NoRow  BY <2>3, NoRowAssumption
  <2>10. ASSUME NEW u \in Workers, u # w  PROVE CopyInv(u)'
    <3>1. copy'[u] = copy[u]  BY <2>8, <2>10
    <3>2. CASE copy[u].at = "holding"
      <4>1. copy[u].read \in Breaker \cup {NoRow}
        BY <3>2 DEF Holding, Idle, Saved
      <4>2. ReadBefore(copy[u].read) /\ Derived(copy[u])
        BY <1>2, <3>2 DEF CopyInv
      <4>3. ReadBefore(copy[u].read)'
        BY <2>7, <3>1, <4>1, <4>2 DEF ReadBefore
      <4>4. Derived(copy[u])'
        BY <3>1, <4>2 DEF Derived
      <4> QED BY <2>9, <4>3, <4>4 DEF CopyInv
    <3>3. CASE copy[u].at # "holding"
      BY <2>9, <3>1, <3>3 DEF CopyInv
    <3> QED BY <3>2, <3>3
  <2>11. CopyInv(w)'
    BY <2>8, <2>9 DEF CopyInv
  <2> QED BY <2>6, <2>10, <2>11
<1>6. ASSUME NEW w \in Workers, ReadBack(w)
      PROVE  /\ row' = row
             /\ \A u \in Workers : CopyInv(u)'
  <2>1. row # NoRow  BY <1>2, <1>6 DEF CopyInv, ReadBack
  <2>2. \A u \in Workers : copy'[u] = IF u = w THEN Copied(row) ELSE copy[u]
    BY <1>6, <2>1 DEF ReadBack
  <2>3. Derived(Copied(row)) /\ ReadBefore(row)
    BY CopiedIsDerived
  <2> QED BY <1>2, <1>6, <2>2, <2>3 DEF ReadBack, CopyInv, ReadBefore, Copied
<1>7. ASSUME NEW w \in Workers, Drop(w)
      PROVE  /\ row' = row
             /\ \A u \in Workers : CopyInv(u)'
  <2>1. \A u \in Workers : copy'[u] = IF u = w THEN Idle ELSE copy[u]
    BY <1>7 DEF Drop
  <2> QED BY <1>2, <1>7, <2>1 DEF Drop, CopyInv, ReadBefore, Idle
<1>8. ASSUME ResetAll
      PROVE  /\ (row # NoRow /\ row.version = 0 => row = Fresh)'
             /\ \A u \in Workers : CopyInv(u)'
  <2>1. row \in Breaker /\ row' \in Breaker /\ row'.version = row.version + 1 /\ copy' = copy
    BY <1>8, ResetIsTyped DEF ResetAll
  <2>2. row' # NoRow /\ row.version \in Nat  BY <2>1, NoRowAssumption DEF Breaker
  <2>3. ASSUME NEW u \in Workers  PROVE CopyInv(u)'
    <3>1. CASE copy[u].at = "holding"
      <4>1. copy[u].read \in Breaker \cup {NoRow}
        BY <3>1 DEF Holding, Idle, Saved
      <4>2. ReadBefore(copy[u].read) /\ Derived(copy[u])
        BY <1>2, <3>1 DEF CopyInv
      <4>3. copy[u].read # NoRow => copy[u].read.version \in Nat
        BY <4>1 DEF Breaker
      <4>4. ReadBefore(copy[u].read)'
        BY <2>1, <2>2, <4>2, <4>3 DEF ReadBefore
      <4>5. Derived(copy[u])'  BY <2>1, <4>2 DEF Derived
      <4> QED BY <2>2, <4>4, <4>5 DEF CopyInv
    <3>2. CASE copy[u].at # "holding"
      BY <2>1, <2>2, <3>2 DEF CopyInv
    <3> QED BY <3>1, <3>2
  <2> QED BY <2>1, <2>2, <2>3
<1>9. ASSUME UNCHANGED breakerVars
      PROVE  /\ row' = row
             /\ \A u \in Workers : CopyInv(u)'
  BY <1>2, <1>9 DEF breakerVars, CopyInv, ReadBefore, Derived
<1>10. ~Delete  BY DEF Delete
<1> QED BY <1>2, <1>3, <1>4, <1>5, <1>6, <1>7, <1>8, <1>9, <1>10
        DEF BreakerStoreNext, WorkerStep

(* A worker's copy has the lineage its version claims.                     *)
THEOREM VersionsTellLineage == BreakerStoreSpec => []LineageInv
<1>1. BreakerStoreInit => LineageInv
  BY DEF BreakerStoreInit, LineageInv, CopyInv, Idle
<1>2. BreakerStoreTypeOK /\ LineageInv /\ [BreakerStoreNext]_breakerVars => LineageInv'
  BY LineageStep
<1> QED BY <1>1, <1>2, BreakerStoreTypeCorrect, PTL DEF BreakerStoreSpec

(* No transition a worker applied is lost, and none is applied twice: the  *)
(* version-guarded upsert makes the row move as if the transition had been *)
(* applied to the row itself.                                              *)
THEOREM NoTransitionLostHolds == BreakerStoreSpec => NoTransitionLost
<1>1. ASSUME BreakerStoreTypeOK, LineageInv, [BreakerStoreNext]_breakerVars
      PROVE  \A w \in Workers :
               Saves(w) /\ copy[w].evolved <= 1 /\ ~deleted =>
                 row' = row \/ row' \in Successors(row)
  <2> SUFFICES ASSUME NEW w \in Workers, Saves(w), copy[w].evolved <= 1, ~deleted
               PROVE  row' = row \/ row' \in Successors(row)
    OBVIOUS
  <2> USE DEF BreakerStoreTypeOK, Saves
  <2>1. ASSUME NEW u \in Workers, Upsert(u)
        PROVE  row' = row \/ row' \in Successors(row)
    <3>1. u = w  BY <2>1 DEF Upsert
    <3> QED BY <1>1, <2>1, <3>1, UpsertedFollows DEF Upsert
  <2>2. ASSUME NEW u \in Workers, Get(u) \/ EvolveCopy(u) \/ ReadBack(u) \/ Drop(u)
        PROVE  row' = row
    BY <2>2 DEF Get, EvolveCopy, ReadBack, Drop
  <2>3. ~ResetAll /\ ~Delete
    BY DEF ResetAll, Delete
  <2> QED BY <1>1, <2>1, <2>2, <2>3 DEF BreakerStoreNext, WorkerStep, breakerVars
<1> QED BY <1>1, BreakerStoreTypeCorrect, VersionsTellLineage, PTL
        DEF BreakerStoreSpec, NoTransitionLost

-----------------------------------------------------------------------------
(* ArtifactCache and SchemaMigrations                                      *)

THEOREM CacheTypeCorrect == CacheSpec => []CacheTypeOK
<1>1. CacheInit => CacheTypeOK
  <2> SUFFICES ASSUME CacheInit  PROVE CacheTypeOK
    OBVIOUS
  <2> USE DEF CacheInit
  <2>1. bundle \in BOOLEAN /\ overrun \in BOOLEAN  BY Zenon
  <2>2. faults \in 0..MaxFaults  BY ArtifactCacheAssumption
  <2>3. sentinel \in Callers \cup {Nobody} /\ caller \in [Callers -> Phases]
    BY DEF Phases
  <2> QED BY <2>1, <2>2, <2>3 DEF CacheTypeOK
<1>2. CacheTypeOK /\ [CacheNext]_cacheVars => CacheTypeOK'
  <2> SUFFICES ASSUME CacheTypeOK, [CacheNext]_cacheVars  PROVE CacheTypeOK'
    OBVIOUS
  <2> USE DEF CacheTypeOK, Phases, Goes
  <2>1. ASSUME NEW c \in Callers, Ask(c) \/ Look(c)  PROVE CacheTypeOK'
    BY <2>1 DEF Ask, Look
  <2>2. ASSUME NEW c \in Callers, Elect(c)  PROVE CacheTypeOK'
    BY <2>2 DEF Elect
  <2>3. ASSUME NEW c \in Callers, Store(c) \/ Clear(c)  PROVE CacheTypeOK'
    BY <2>3 DEF Store, Clear
  <2>4. ASSUME NEW c \in Callers, WorkerCrash(c)  PROVE CacheTypeOK'
    BY <2>4, ArtifactCacheAssumption DEF WorkerCrash
  <2>5. ASSUME Expire  PROVE CacheTypeOK'
    BY <2>5 DEF Expire, Active
  <2>6. ASSUME Lose  PROVE CacheTypeOK'
    <3>1. bundle' \in BOOLEAN /\ overrun' \in BOOLEAN  BY <2>6, Zenon DEF Lose
    <3>2. faults' \in 0..MaxFaults  BY <2>6, ArtifactCacheAssumption DEF Lose
    <3> QED BY <2>6, <3>1, <3>2 DEF Lose
  <2>7. ASSUME UNCHANGED cacheVars  PROVE CacheTypeOK'
    BY <2>7 DEF cacheVars
  <2> QED BY <2>1, <2>2, <2>3, <2>4, <2>5, <2>6, <2>7 DEF CacheNext, Proceed
<1> QED BY <1>1, <1>2, PTL DEF CacheSpec

(* Unless somebody has outlived his sentinel, an active worker owns it.    *)
ActiveOwns == ~overrun => \A c \in Callers : Active(c) => sentinel = c

LEMMA ActiveOwnsStep ==
  ASSUME CacheTypeOK, ActiveOwns, [CacheNext]_cacheVars
  PROVE  ActiveOwns'
<1> USE DEF CacheTypeOK, Phases, ActiveOwns, Active, Goes
<1>1. ASSUME NEW c \in Callers, Ask(c) \/ Look(c)  PROVE ActiveOwns'
  BY <1>1 DEF Ask, Look
<1>2. ASSUME NEW c \in Callers, Elect(c)  PROVE ActiveOwns'
  BY <1>2, ArtifactCacheAssumption DEF Elect
<1>3. ASSUME NEW c \in Callers, Store(c)  PROVE ActiveOwns'
  BY <1>3 DEF Store
<1>4. ASSUME NEW c \in Callers, Clear(c)  PROVE ActiveOwns'
  BY <1>4 DEF Clear
<1>5. ASSUME NEW c \in Callers, WorkerCrash(c)  PROVE ActiveOwns'
  BY <1>5 DEF WorkerCrash
<1>6. ASSUME Expire  PROVE ActiveOwns'
  BY <1>6 DEF Expire
<1>7. ASSUME Lose \/ UNCHANGED cacheVars  PROVE ActiveOwns'
  BY <1>7 DEF Lose, cacheVars
<1> QED BY <1>1, <1>2, <1>3, <1>4, <1>5, <1>6, <1>7 DEF CacheNext, Proceed

(* As long as no worker outlives its sentinel, one worker computes.        *)
THEOREM ComputesAloneHolds == CacheSpec => []ComputesAlone
<1>1. CacheInit => ActiveOwns
  BY DEF CacheInit, ActiveOwns, Active
<1>2. CacheTypeOK /\ ActiveOwns /\ [CacheNext]_cacheVars => ActiveOwns'
  BY ActiveOwnsStep
<1>3. ActiveOwns => ComputesAlone
  BY DEF ActiveOwns, ComputesAlone, Active
<1> QED BY <1>1, <1>2, <1>3, CacheTypeCorrect, PTL DEF CacheSpec

-----------------------------------------------------------------------------
(* The runs of a process.                                                  *)
LEMMA UpIsTyped ==
  ASSUME SchemaTypeOK, NEW p \in Processes, run[p].at = "up"
  PROVE  /\ run[p] \in UpRuns
         /\ run[p].goal \in 0..Latest /\ run[p].seen \in SUBSET Versions
         /\ run[p].next \in 1..Latest + 1
<1>1. run[p] \in UpRuns  BY DEF SchemaTypeOK, Resting, DownRuns
<1> QED BY <1>1 DEF UpRuns

LEMMA DownIsTyped ==
  ASSUME SchemaTypeOK, NEW p \in Processes, run[p].at = "down"
  PROVE  /\ run[p] \in DownRuns
         /\ run[p].goal \in 0..Latest /\ run[p].seen \in SUBSET Versions
         /\ run[p].next \in 0..Latest
<1>1. run[p] \in DownRuns  BY DEF SchemaTypeOK, Resting, UpRuns
<1> QED BY <1>1 DEF DownRuns

LEMMA ConsidersUp ==
  ASSUME SchemaTypeOK, NEW p \in Processes, run[p].at = "up",
         run[p].next <= Latest, Considers(p, run[p].next + 1)
  PROVE  run' \in [Processes -> {Resting} \cup UpRuns \cup DownRuns]
<1>1. run[p].next + 1 \in 1..Latest + 1  BY UpIsTyped, LatestAssumption
<1>2. [run[p] EXCEPT !.next = run[p].next + 1] \in UpRuns
  BY <1>1, UpIsTyped DEF UpRuns
<1>3. run' = [run EXCEPT ![p] = [run[p] EXCEPT !.next = run[p].next + 1]]
  BY DEF Considers
<1> QED BY <1>2, <1>3 DEF SchemaTypeOK

LEMMA ConsidersDown ==
  ASSUME SchemaTypeOK, NEW p \in Processes, run[p].at = "down",
         run[p].next # 0, Considers(p, run[p].next - 1)
  PROVE  run' \in [Processes -> {Resting} \cup UpRuns \cup DownRuns]
<1>1. run[p].next - 1 \in 0..Latest  BY DownIsTyped, LatestAssumption
<1>2. [run[p] EXCEPT !.next = run[p].next - 1] \in DownRuns
  BY <1>1, DownIsTyped DEF DownRuns
<1>3. run' = [run EXCEPT ![p] = [run[p] EXCEPT !.next = run[p].next - 1]]
  BY DEF Considers
<1> QED BY <1>2, <1>3 DEF SchemaTypeOK

THEOREM SchemaTypeCorrect == SchemaSpec => []SchemaTypeOK
<1>1. SchemaInit => SchemaTypeOK
  BY DEF SchemaInit, SchemaTypeOK
<1>2. SchemaTypeOK /\ [SchemaNext]_schemaVars => SchemaTypeOK'
  <2> SUFFICES ASSUME SchemaTypeOK, [SchemaNext]_schemaVars  PROVE SchemaTypeOK'
    OBVIOUS
  <2>0. Latest \in Nat \ {0}  BY LatestAssumption
  <2>1. ASSUME NEW p \in Processes, NEW v \in 0..Latest, BeginMigrate(p, v)
        PROVE  SchemaTypeOK'
    <3>1. [at |-> "up", goal |-> v, seen |-> recorded, next |-> 1] \in UpRuns
      BY <2>0 DEF UpRuns, SchemaTypeOK
    <3> QED BY <2>1, <3>1 DEF BeginMigrate, Begins, SchemaTypeOK
  <2>2. ASSUME NEW p \in Processes, NEW v \in 0..Latest, BeginRollback(p, v)
        PROVE  SchemaTypeOK'
    <3>1. [at |-> "down", goal |-> v, seen |-> recorded, next |-> Latest] \in DownRuns
      BY <2>0 DEF DownRuns, SchemaTypeOK
    <3> QED BY <2>2, <3>1 DEF BeginRollback, Begins, SchemaTypeOK
  <2>3. ASSUME NEW p \in Processes, SkipUp(p)  PROVE SchemaTypeOK'
    <3>1. run[p].next <= Latest  BY <2>0, <2>3, UpIsTyped DEF SkipUp, Versions
    <3> QED BY <2>3, <3>1, ConsidersUp DEF SkipUp, SchemaTypeOK
  <2>4. ASSUME NEW p \in Processes, Apply(p)  PROVE SchemaTypeOK'
    <3>1. run[p].next <= Latest /\ run[p].next \in Versions
      BY <2>0, <2>4, UpIsTyped DEF Apply, Pending, Versions
    <3>2. recorded' \subseteq Versions  BY <2>4, <3>1 DEF Apply, SchemaTypeOK
    <3>3. crossed' \in [Processes -> BOOLEAN]
      BY <2>4 DEF Apply, Crosses, SchemaTypeOK
    <3> QED BY <2>4, <3>1, <3>2, <3>3, ConsidersUp DEF Apply, SchemaTypeOK
  <2>5. ASSUME NEW p \in Processes, ApplyTwice(p) \/ Fail(p)  PROVE SchemaTypeOK'
    BY <2>5 DEF ApplyTwice, Fail, SchemaTypeOK
  <2>6. ASSUME NEW p \in Processes, EndMigrate(p)  PROVE SchemaTypeOK'
    <3>1. [run[p] EXCEPT !.at = "up_done"] \in UpRuns
      BY <2>6, UpIsTyped DEF EndMigrate, UpRuns
    <3>2. run' = [run EXCEPT ![p] = [run[p] EXCEPT !.at = "up_done"]]
      BY <2>6 DEF EndMigrate, Returns
    <3> QED BY <2>6, <3>1, <3>2 DEF EndMigrate, Returns, SchemaTypeOK
  <2>7. ASSUME NEW p \in Processes, SkipDown(p)  PROVE SchemaTypeOK'
    <3>1. run[p].next # 0  BY <2>7 DEF SkipDown, Versions
    <3> QED BY <2>7, <3>1, ConsidersDown DEF SkipDown, SchemaTypeOK
  <2>8. ASSUME NEW p \in Processes, Revert(p)  PROVE SchemaTypeOK'
    <3>1. run[p].next # 0  BY <2>8, DownIsTyped DEF Revert, Versions
    <3>2. recorded' \subseteq Versions  BY <2>8 DEF Revert, SchemaTypeOK
    <3>3. crossed' \in [Processes -> BOOLEAN]
      BY <2>8 DEF Revert, Crosses, SchemaTypeOK
    <3> QED BY <2>8, <3>1, <3>2, <3>3, ConsidersDown DEF Revert, SchemaTypeOK
  <2>9. ASSUME NEW p \in Processes, EndRollback(p)  PROVE SchemaTypeOK'
    <3>1. [run[p] EXCEPT !.at = "down_done"] \in DownRuns
      BY <2>9, DownIsTyped DEF EndRollback, DownRuns
    <3>2. run' = [run EXCEPT ![p] = [run[p] EXCEPT !.at = "down_done"]]
      BY <2>9 DEF EndRollback, Returns
    <3> QED BY <2>9, <3>1, <3>2 DEF EndRollback, Returns, SchemaTypeOK
  <2>10. ASSUME UNCHANGED schemaVars  PROVE SchemaTypeOK'
    BY <2>10 DEF schemaVars, SchemaTypeOK
  <2> QED BY <2>1, <2>2, <2>3, <2>4, <2>5, <2>6, <2>7, <2>8, <2>9, <2>10
          DEF SchemaNext, RunStep
<1> QED BY <1>1, <1>2, PTL DEF SchemaSpec

-----------------------------------------------------------------------------
(* What a run that nobody has crossed relies on and has achieved.          *)

UpHolds(p) ==
  /\ run[p].at = "up" =>
       run[p].seen \subseteq recorded /\ \A v \in Versions : v < run[p].next => v \in recorded
  /\ run[p].at = "up_done" => 1..run[p].goal \subseteq recorded

DownHolds(p) ==
  /\ run[p].at = "down" =>
       recorded \subseteq run[p].seen /\ \A v \in recorded : v <= run[p].next
  /\ run[p].at = "down_done" => recorded \subseteq 1..run[p].goal

RunInv == \A p \in Processes : ~crossed[p] => UpHolds(p) /\ DownHolds(p)

(* Other processes do not take away what an uncrossed run relies on.       *)
LEMMA OthersKeep ==
  ASSUME SchemaTypeOK, RunInv, NEW p \in Processes,
         Apply(p) \/ Revert(p), NEW q \in Processes, q # p, ~crossed'[q]
  PROVE  UpHolds(q)' /\ DownHolds(q)'
<1>1. run'[q] = run[q]
  BY DEF Apply, Revert, Considers, SchemaTypeOK
<1>2. CASE Apply(p)
  <2>1. recorded \subseteq recorded'  BY <1>2 DEF Apply
  <2>2. ~crossed[q] /\ run[q].at \notin {"down", "down_done"}
    BY <1>2 DEF Apply, Crosses
  <2> QED BY <1>1, <2>1, <2>2 DEF RunInv, UpHolds, DownHolds
<1>3. CASE Revert(p)
  <2>1. recorded' \subseteq recorded  BY <1>3 DEF Revert
  <2>2. ~crossed[q] /\ run[q].at \notin {"up", "up_done"}
    BY <1>3 DEF Revert, Crosses
  <2> QED BY <1>1, <2>1, <2>2 DEF RunInv, UpHolds, DownHolds
<1> QED BY <1>2, <1>3

LEMMA RunInvStep ==
  ASSUME SchemaTypeOK, RunInv, [SchemaNext]_schemaVars
  PROVE  RunInv'
<1>0. Latest \in Nat \ {0}  BY LatestAssumption
<1>1. ASSUME NEW p \in Processes, NEW v \in 0..Latest, BeginMigrate(p, v)
      PROVE  RunInv'
  <2>1. recorded' = recorded  BY <1>1 DEF BeginMigrate, Begins
  <2>2. \A q \in Processes : q # p => run'[q] = run[q] /\ crossed'[q] = crossed[q]
    BY <1>1 DEF BeginMigrate, Begins
  <2>3. run'[p] = [at |-> "up", goal |-> v, seen |-> recorded, next |-> 1]
    BY <1>1 DEF BeginMigrate, Begins, SchemaTypeOK
  <2>4. UpHolds(p)' /\ DownHolds(p)'
    BY <1>0, <2>1, <2>3 DEF UpHolds, DownHolds, Versions
  <2> QED BY <2>1, <2>2, <2>4 DEF RunInv, UpHolds, DownHolds
<1>2. ASSUME NEW p \in Processes, NEW v \in 0..Latest, BeginRollback(p, v)
      PROVE  RunInv'
  <2>1. recorded' = recorded  BY <1>2 DEF BeginRollback, Begins
  <2>2. \A q \in Processes : q # p => run'[q] = run[q] /\ crossed'[q] = crossed[q]
    BY <1>2 DEF BeginRollback, Begins
  <2>3. run'[p] = [at |-> "down", goal |-> v, seen |-> recorded, next |-> Latest]
    BY <1>2 DEF BeginRollback, Begins, SchemaTypeOK
  <2>4. UpHolds(p)' /\ DownHolds(p)'
    BY <1>0, <2>1, <2>3 DEF UpHolds, DownHolds, Versions, SchemaTypeOK
  <2> QED BY <2>1, <2>2, <2>4 DEF RunInv, UpHolds, DownHolds
<1>3. ASSUME NEW p \in Processes, SkipUp(p)  PROVE RunInv'
  <2>1. /\ recorded' = recorded /\ crossed' = crossed
        /\ \A q \in Processes : q # p => run'[q] = run[q]
    BY <1>3 DEF SkipUp, Considers, SchemaTypeOK
  <2>2. run'[p] = [run[p] EXCEPT !.next = run[p].next + 1]
    BY <1>3 DEF SkipUp, Considers, SchemaTypeOK
  <2>3. /\ run'[p].at = "up" /\ run'[p].seen = run[p].seen
        /\ run'[p].next = run[p].next + 1 /\ run[p].next \in run[p].seen
        /\ run[p].next \in Nat
    BY <1>0, <1>3, <2>2, UpIsTyped DEF SkipUp, UpRuns
  <2>4. ~crossed[p] => UpHolds(p)' /\ DownHolds(p)'
    BY <1>3, <2>1, <2>3 DEF RunInv, UpHolds, DownHolds, SkipUp, Versions
  <2> QED BY <2>1, <2>4 DEF RunInv, UpHolds, DownHolds
<1>4. ASSUME NEW p \in Processes, Apply(p)  PROVE RunInv'
  <2>1. run'[p] = [run[p] EXCEPT !.next = run[p].next + 1]
    BY <1>4 DEF Apply, Considers, SchemaTypeOK
  <2>2. /\ run'[p].at = "up" /\ run'[p].seen = run[p].seen
        /\ run'[p].next = run[p].next + 1 /\ run[p].next \in Nat
    BY <1>0, <1>4, <2>1, UpIsTyped DEF Apply, UpRuns
  <2>3. recorded' = recorded \cup {run[p].next} /\ (~crossed'[p] => ~crossed[p])
    BY <1>4 DEF Apply, Crosses
  <2>4. ~crossed'[p] => UpHolds(p)' /\ DownHolds(p)'
    BY <1>4, <2>2, <2>3 DEF RunInv, UpHolds, DownHolds, Apply, Versions
  <2> QED BY <1>4, <2>4, OthersKeep DEF RunInv
<1>5. ASSUME NEW p \in Processes, ApplyTwice(p) \/ Fail(p)  PROVE RunInv'
  <2>1. /\ recorded' = recorded /\ crossed' = crossed
        /\ \A q \in Processes : q # p => run'[q] = run[q]
    BY <1>5 DEF ApplyTwice, Fail, SchemaTypeOK
  <2>2. run'[p] = Resting  BY <1>5 DEF ApplyTwice, Fail, SchemaTypeOK
  <2> QED BY <2>1, <2>2 DEF RunInv, UpHolds, DownHolds, Resting
<1>6. ASSUME NEW p \in Processes, EndMigrate(p)  PROVE RunInv'
  <2>1. /\ recorded' = recorded /\ crossed' = crossed
        /\ \A q \in Processes : q # p => run'[q] = run[q]
    BY <1>6 DEF EndMigrate, Returns, SchemaTypeOK
  <2>2. run'[p] = [run[p] EXCEPT !.at = "up_done"]
    BY <1>6 DEF EndMigrate, Returns, SchemaTypeOK
  <2>3. run'[p].at = "up_done" /\ run'[p].goal = run[p].goal
    BY <1>6, <2>2, UpIsTyped DEF EndMigrate, UpRuns
  <2>4. run[p].goal < run[p].next /\ run[p].goal \in 0..Latest /\ run[p].next \in Nat
    BY <1>0, <1>6, UpIsTyped DEF EndMigrate, Pending
  <2>5. ~crossed[p] => UpHolds(p)' /\ DownHolds(p)'
    <3> SUFFICES ASSUME ~crossed[p]  PROVE 1..run[p].goal \subseteq recorded
      BY <2>1, <2>3 DEF UpHolds, DownHolds
    <3>1. \A v \in Versions : v < run[p].next => v \in recorded
      BY <1>6 DEF RunInv, UpHolds, EndMigrate
    <3> QED BY <1>0, <2>4, <3>1 DEF Versions
  <2> QED BY <2>1, <2>5 DEF RunInv, UpHolds, DownHolds
<1>7. ASSUME NEW p \in Processes, SkipDown(p)  PROVE RunInv'
  <2>1. /\ recorded' = recorded /\ crossed' = crossed
        /\ \A q \in Processes : q # p => run'[q] = run[q]
    BY <1>7 DEF SkipDown, Considers, SchemaTypeOK
  <2>2. run'[p] = [run[p] EXCEPT !.next = run[p].next - 1]
    BY <1>7 DEF SkipDown, Considers, SchemaTypeOK
  <2>3. /\ run'[p].at = "down" /\ run'[p].seen = run[p].seen
        /\ run'[p].next = run[p].next - 1 /\ run[p].next \notin run[p].seen
        /\ run[p].next \in Nat
    BY <1>0, <1>7, <2>2, DownIsTyped DEF SkipDown, DownRuns
  <2>4. ~crossed[p] => UpHolds(p)' /\ DownHolds(p)'
    <3> SUFFICES ASSUME ~crossed[p]
                 PROVE  recorded \subseteq run[p].seen /\ \A v \in recorded : v <= run[p].next - 1
      BY <2>1, <2>3 DEF UpHolds, DownHolds
    <3>1. recorded \subseteq run[p].seen /\ \A v \in recorded : v <= run[p].next
      BY <1>7 DEF RunInv, DownHolds, SkipDown
    <3>2. \A v \in recorded : v \in 1..Latest  BY DEF SchemaTypeOK, Versions
    <3>3. \A v \in recorded : v # run[p].next  BY <2>3, <3>1
    <3> QED BY <1>0, <2>3, <3>1, <3>2, <3>3
  <2> QED BY <2>1, <2>4 DEF RunInv, UpHolds, DownHolds
<1>8. ASSUME NEW p \in Processes, Revert(p)  PROVE RunInv'
  <2>1. run'[p] = [run[p] EXCEPT !.next = run[p].next - 1]
    BY <1>8 DEF Revert, Considers, SchemaTypeOK
  <2>2. /\ run'[p].at = "down" /\ run'[p].seen = run[p].seen
        /\ run'[p].next = run[p].next - 1 /\ run[p].next \in Nat
    BY <1>0, <1>8, <2>1, DownIsTyped DEF Revert, DownRuns
  <2>3. recorded' = recorded \ {run[p].next} /\ (~crossed'[p] => ~crossed[p])
    BY <1>8 DEF Revert, Crosses
  <2>4. \A v \in recorded : v \in Nat
    BY <1>0 DEF SchemaTypeOK, Versions
  <2>5. ~crossed'[p] => UpHolds(p)' /\ DownHolds(p)'
    BY <1>8, <2>2, <2>3, <2>4 DEF RunInv, UpHolds, DownHolds, Revert
  <2> QED BY <1>8, <2>5, OthersKeep DEF RunInv
<1>9. ASSUME NEW p \in Processes, EndRollback(p)  PROVE RunInv'
  <2>1. /\ recorded' = recorded /\ crossed' = crossed
        /\ \A q \in Processes : q # p => run'[q] = run[q]
    BY <1>9 DEF EndRollback, Returns, SchemaTypeOK
  <2>2. run'[p] = [run[p] EXCEPT !.at = "down_done"]
    BY <1>9 DEF EndRollback, Returns, SchemaTypeOK
  <2>3. run'[p].at = "down_done" /\ run'[p].goal = run[p].goal
    BY <1>9, <2>2, DownIsTyped DEF EndRollback, DownRuns
  <2>4. run[p].next <= run[p].goal /\ run[p].goal \in Nat /\ run[p].next \in Nat
    BY <1>0, <1>9, DownIsTyped DEF EndRollback
  <2>5. ~crossed[p] => UpHolds(p)' /\ DownHolds(p)'
    <3> SUFFICES ASSUME ~crossed[p]  PROVE recorded \subseteq 1..run[p].goal
      BY <2>1, <2>3 DEF UpHolds, DownHolds
    <3>1. \A v \in recorded : v <= run[p].next
      BY <1>9 DEF RunInv, DownHolds, EndRollback
    <3>2. \A v \in recorded : v \in 1..Latest
      BY DEF SchemaTypeOK, Versions
    <3> QED BY <1>0, <2>4, <3>1, <3>2
  <2> QED BY <2>1, <2>5 DEF RunInv, UpHolds, DownHolds
<1>10. ASSUME UNCHANGED schemaVars  PROVE RunInv'
  BY <1>10 DEF schemaVars, RunInv, UpHolds, DownHolds
<1> QED BY <1>1, <1>2, <1>3, <1>4, <1>5, <1>6, <1>7, <1>8, <1>9, <1>10
        DEF SchemaNext, RunStep

(* A migrate or a rollback that returns has done what was asked, whoever   *)
(* runs in the same direction.                                             *)
THEOREM RunsDoAsAskedHolds == SchemaSpec => []RunsDoAsAsked
<1>1. SchemaInit => RunInv
  BY DEF SchemaInit, RunInv, UpHolds, DownHolds, Resting
<1>2. SchemaTypeOK /\ RunInv /\ [SchemaNext]_schemaVars => RunInv'
  BY RunInvStep
<1>3. RunInv => RunsDoAsAsked
  BY DEF RunInv, RunsDoAsAsked, UpHolds, DownHolds
<1> QED BY <1>1, <1>2, <1>3, SchemaTypeCorrect, PTL DEF SchemaSpec

-----------------------------------------------------------------------------
(* CircuitBreaker and StageExecution                                       *)

LEMMA MovesIsTyped ==
  ASSUME CircuitTypeOK, NEW t \in Threads, NEW step \in Steps, Moves(t, step)
  PROVE  thread' \in [Threads -> [at: Steps, seen: 0..FailureThreshold]]
BY DEF CircuitTypeOK, Moves

(* The attributes of the breaker keep their ranges, whatever the threads   *)
(* overwrite of each other.                                                *)
THEOREM CircuitTypeCorrect == CircuitSpec => []CircuitTypeOK
<1>1. CircuitInit => CircuitTypeOK
  BY CircuitBreakerAssumption DEF CircuitInit, CircuitTypeOK, Steps
<1>2. CircuitTypeOK /\ [CircuitNext]_circuitVars => CircuitTypeOK'
  <2> SUFFICES ASSUME CircuitTypeOK, [CircuitNext]_circuitVars  PROVE CircuitTypeOK'
    OBVIOUS
  <2> USE DEF Steps
  <2>1. ASSUME NEW t \in Threads,
               Check(t) \/ CheckTime(t) \/ Admit(t) \/ ToolFails(t) \/ ToolSucceeds(t)
        PROVE  CircuitTypeOK'
    <3>1. \E step \in Steps : Moves(t, step)
      BY <2>1 DEF Check, CheckTime, Admit, ToolFails, ToolSucceeds
    <3> QED BY <2>1, <3>1, MovesIsTyped
            DEF Check, CheckTime, Admit, ToolFails, ToolSucceeds, CircuitTypeOK
  <2>2. ASSUME NEW t \in Threads, Halve(t) \/ Close(t) \/ Open(t)  PROVE CircuitTypeOK'
    <3>1. \E step \in Steps : Moves(t, step)
      BY <2>2 DEF Halve, Close, Open
    <3> QED BY <2>2, <3>1, MovesIsTyped DEF Halve, Close, Open, CircuitTypeOK
  <2>3. ASSUME NEW t \in Threads, SeeHalfOpen(t) \/ Judge(t) \/ Compare(t)
        PROVE  CircuitTypeOK'
    <3>1. \E step \in Steps : Moves(t, step)
      BY <2>3 DEF SeeHalfOpen, Judge, Compare
    <3> QED BY <2>3, <3>1, MovesIsTyped DEF SeeHalfOpen, Judge, Compare, CircuitTypeOK
  <2>4. ASSUME NEW t \in Threads, ClearFailures(t)  PROVE CircuitTypeOK'
    <3>1. 0 \in 0..FailureThreshold  BY CircuitBreakerAssumption
    <3> QED BY <2>4, <3>1, MovesIsTyped DEF ClearFailures, CircuitTypeOK
  <2>5. ASSUME NEW t \in Threads, ReadFailures(t)  PROVE CircuitTypeOK'
    BY <2>5 DEF ReadFailures, CircuitTypeOK
  <2>6. ASSUME NEW t \in Threads, CountFailure(t)  PROVE CircuitTypeOK'
    <3>1. thread[t].seen \in 0..FailureThreshold  BY DEF CircuitTypeOK
    <3>2. failures' \in 0..FailureThreshold
      BY <2>6, <3>1, CircuitBreakerAssumption DEF CountFailure
    <3>3. 0 \in 0..FailureThreshold  BY CircuitBreakerAssumption
    <3> QED BY <2>6, <3>2, <3>3 DEF CountFailure, CircuitTypeOK
  <2>7. ASSUME NEW t \in Threads, Stamp(t)  PROVE CircuitTypeOK'
    <3>1. 0 \in 0..OpenTimeout  BY CircuitBreakerAssumption
    <3> QED BY <2>7, <3>1, MovesIsTyped DEF Stamp, CircuitTypeOK
  <2>8. ASSUME TimePasses  PROVE CircuitTypeOK'
    BY <2>8, CircuitBreakerAssumption DEF TimePasses, CircuitTypeOK
  <2>9. ASSUME UNCHANGED circuitVars  PROVE CircuitTypeOK'
    BY <2>9 DEF circuitVars, CircuitTypeOK
  <2> QED BY <2>1, <2>2, <2>3, <2>4, <2>5, <2>6, <2>7, <2>8, <2>9
          DEF CircuitNext, ThreadStep, Recording
<1> QED BY <1>1, <1>2, PTL DEF CircuitSpec

-----------------------------------------------------------------------------
(* The clock never runs backwards and nothing is charged before it starts. *)
ClockIsSane == clock.started <= now

LEMMA TimesAreNatural ==
  ASSUME StageTypeOK, ClockIsSane
  PROVE  Elapsed \in Nat /\ ExecutorTimeout \in Nat
<1>1. now \in Nat /\ clock.total \in Nat /\ clock.started \in Nat
  BY DEF StageTypeOK, Clocks
<1>2. now - clock.started \in Nat  BY <1>1 DEF ClockIsSane
<1>3. Elapsed \in Nat  BY <1>1, <1>2 DEF Elapsed
<1>4. Remaining \in Nat  BY <1>3, StageAssumption DEF Remaining, Larger
<1>5. BudgetForNode \in Nat  BY <1>4, StageAssumption DEF BudgetForNode, Smaller
<1>6. ExecutorTimeout \in Nat
  BY <1>5, StageAssumption DEF ExecutorTimeout, Larger
<1> QED BY <1>3, <1>6

LEMMA YieldsIsTyped ==
  ASSUME StageTypeOK, NEW what \in Yields, NodeYields(what)
  PROVE  runner' \in Nodes
BY DEF StageTypeOK, NodeYields, Nodes

LEMMA NodeStepIsTyped ==
  ASSUME StageTypeOK, NodeStep
  PROVE  runner' \in Nodes /\ UNCHANGED <<now, clock, enforcer>>
<1> USE DEF Yields
<1>0. runner \in Nodes  BY DEF StageTypeOK
<1>1. CASE AgentAnswers \/ AgentRaises \/ Uncorrectable
  BY <1>1, YieldsIsTyped DEF AgentAnswers, AgentRaises, Uncorrectable, Agent
<1>2. CASE ToolFailure
  <2>1. CASE runner.tool = MaxToolRetries
    BY <1>2, <2>1, YieldsIsTyped DEF ToolFailure, Agent
  <2>2. CASE runner.tool # MaxToolRetries
    <3>1. runner.tool + 1 \in 0..MaxToolRetries
      BY <1>0, <2>2, StageAssumption DEF Nodes
    <3> QED BY <1>0, <1>2, <2>2, <3>1 DEF ToolFailure, Agent, Nodes
  <2> QED BY <2>1, <2>2
<1>3. CASE SchemaViolation
  <2>1. CASE runner.schema = MaxSchemaRetries
    BY <1>3, <2>1, YieldsIsTyped DEF SchemaViolation, Agent
  <2>2. CASE runner.schema # MaxSchemaRetries
    <3>1. runner.schema + 1 \in 0..MaxSchemaRetries
      BY <1>0, <2>2, StageAssumption DEF Nodes
    <3> QED BY <1>0, <1>3, <2>2, <3>1 DEF SchemaViolation, Agent, Nodes
  <2> QED BY <2>1, <2>2
<1>4. CASE Unparseable
  <2>1. CASE runner.repair = MaxRepairs
    BY <1>4, <2>1, YieldsIsTyped DEF Unparseable, Agent
  <2>2. CASE runner.repair # MaxRepairs
    <3>1. runner.repair + 1 \in 0..MaxRepairs
      BY <1>0, <2>2, StageAssumption DEF Nodes
    <3> QED BY <1>0, <1>4, <2>2, <3>1 DEF Unparseable, Agent, Nodes
  <2> QED BY <2>1, <2>2
<1>5. CASE Wake
  BY <1>0, <1>5 DEF Wake, Nodes
<1> QED BY <1>1, <1>2, <1>3, <1>4, <1>5 DEF NodeStep

(* A clock with one field changed is a clock.                              *)
LEMMA OneClockField ==
  ASSUME NEW c \in Clocks
  PROVE  /\ \A n \in Nat : /\ [c EXCEPT !.started = n] \in Clocks
                           /\ [c EXCEPT !.started = n].started = n
         /\ \A n \in Nat : /\ [c EXCEPT !.total = n] \in Clocks
                           /\ [c EXCEPT !.total = n].started = c.started
         /\ \A b \in BOOLEAN : /\ [c EXCEPT !.paused = b] \in Clocks
                               /\ [c EXCEPT !.paused = b].started = c.started
BY DEF Clocks

(* The retry counters never pass their limits, and no stage is given a     *)
(* negative time, whatever the clock has been told.                        *)
THEOREM StageTypeCorrect == StageSpec => [](StageTypeOK /\ ClockIsSane)
<1>1. StageInit => StageTypeOK /\ ClockIsSane
  <2> SUFFICES ASSUME StageInit  PROVE StageTypeOK /\ ClockIsSane
    OBVIOUS
  <2> USE DEF StageInit
  <2>1. clock \in Clocks /\ enforcer \in Stages  BY DEF Clocks, Stages, Yields
  <2>2. runner \in Nodes  BY StageAssumption DEF Nodes, NoNode, Yields
  <2>3. now \in Nat /\ ClockIsSane  BY DEF ClockIsSane
  <2> QED BY <2>1, <2>2, <2>3 DEF StageTypeOK
<1>2. StageTypeOK /\ ClockIsSane /\ [StageNext]_stageVars => (StageTypeOK /\ ClockIsSane)'
  <2> SUFFICES ASSUME StageTypeOK, ClockIsSane, [StageNext]_stageVars
               PROVE  (StageTypeOK /\ ClockIsSane)'
    OBVIOUS
  <2>0. /\ now \in Nat /\ clock \in Clocks /\ enforcer \in Stages /\ runner \in Nodes
        /\ Elapsed \in Nat /\ ExecutorTimeout \in Nat
    BY TimesAreNatural DEF StageTypeOK
  <2>1. ASSUME StartClock  PROVE (StageTypeOK /\ ClockIsSane)'
    <3>1. clock' \in Clocks /\ clock'.started <= now
      <4>1. CASE clock.paused
        <5> DEFINE c == [clock EXCEPT !.started = now]
        <5>1. clock' = [c EXCEPT !.paused = FALSE]  BY <2>1, <4>1 DEF StartClock
        <5>2. c \in Clocks /\ c.started = now  BY <2>0, OneClockField
        <5> HIDE DEF c
        <5>3. [c EXCEPT !.paused = FALSE] \in Clocks
                /\ [c EXCEPT !.paused = FALSE].started = c.started
          BY <5>2, OneClockField
        <5>4. now <= now  BY <2>0
        <5> QED BY <5>1, <5>2, <5>3, <5>4
      <4>2. CASE ~clock.paused
        BY <2>0, <2>1, <4>2 DEF StartClock, ClockIsSane
      <4> QED BY <4>1, <4>2
    <3> QED BY <2>0, <2>1, <3>1 DEF StartClock, StageTypeOK, ClockIsSane
  <2>2. ASSUME PauseClock  PROVE (StageTypeOK /\ ClockIsSane)'
    <3>1. clock' \in Clocks /\ clock'.started <= now
      <4>1. CASE clock.paused
        BY <2>0, <2>2, <4>1 DEF PauseClock, ClockIsSane
      <4>2. CASE ~clock.paused
        <5> DEFINE c == [clock EXCEPT !.total = Elapsed]
        <5>1. clock' = [c EXCEPT !.paused = TRUE]  BY <2>2, <4>2 DEF PauseClock
        <5>2. c \in Clocks /\ c.started = clock.started  BY <2>0, OneClockField
        <5> HIDE DEF c
        <5>3. [c EXCEPT !.paused = TRUE] \in Clocks
                /\ [c EXCEPT !.paused = TRUE].started = c.started
          BY <5>2, OneClockField
        <5> QED BY <5>1, <5>2, <5>3 DEF ClockIsSane
      <4> QED BY <4>1, <4>2
    <3> QED BY <2>0, <2>2, <3>1 DEF PauseClock, StageTypeOK, ClockIsSane
  <2>3. ASSUME BeginStage  PROVE (StageTypeOK /\ ClockIsSane)'
    <3>1. enforcer' \in Stages  BY <2>0, <2>3 DEF BeginStage, Stages, Yields
    <3>2. runner' \in Nodes
      BY <2>3, StageAssumption DEF BeginStage, Nodes, NoNode, Yields
    <3> QED BY <2>0, <2>3, <3>1, <3>2 DEF BeginStage, StageTypeOK, ClockIsSane
  <2>4. ASSUME EndStage \/ TimeOut \/ Join  PROVE (StageTypeOK /\ ClockIsSane)'
    <3>1. enforcer' \in Stages
      BY <2>0, <2>4 DEF EndStage, TakenFor, TimeOut, Join, Stages, Nodes, Yields
    <3> QED BY <2>0, <2>4, <3>1 DEF EndStage, TimeOut, Join, StageTypeOK, ClockIsSane
  <2>5. ASSUME NodeStep  PROVE (StageTypeOK /\ ClockIsSane)'
    BY <2>0, <2>5, NodeStepIsTyped DEF StageTypeOK, ClockIsSane
  <2>6. ASSUME Tick  PROVE (StageTypeOK /\ ClockIsSane)'
    BY <2>0, <2>6 DEF Tick, StageTypeOK, ClockIsSane, Clocks
  <2>7. ASSUME UNCHANGED stageVars  PROVE (StageTypeOK /\ ClockIsSane)'
    BY <2>7 DEF stageVars, StageTypeOK, ClockIsSane
  <2> QED BY <2>1, <2>2, <2>3, <2>4, <2>5, <2>6, <2>7 DEF StageNext, EnforcerStep
<1> QED BY <1>1, <1>2, PTL DEF StageSpec

(* A stage that has returned, in time or not, leaves no node running.      *)
THEOREM NodeRunsAloneHolds == StageSpec => []NodeRunsAlone
<1>1. StageInit => NodeRunsAlone
  BY DEF StageInit, NodeRunsAlone, NoNode
<1>2. StageTypeOK /\ NodeRunsAlone /\ [StageNext]_stageVars => NodeRunsAlone'
  <2> SUFFICES ASSUME StageTypeOK, NodeRunsAlone, [StageNext]_stageVars
               PROVE  NodeRunsAlone'
    OBVIOUS
  <2> USE DEF NodeRunsAlone
  <2>1. ASSUME StartClock \/ PauseClock \/ Tick \/ UNCHANGED stageVars
        PROVE  NodeRunsAlone'
    BY <2>1 DEF StartClock, PauseClock, Tick, stageVars
  <2>2. ASSUME BeginStage  PROVE NodeRunsAlone'
    BY <2>2 DEF BeginStage
  <2>3. ASSUME EndStage \/ TimeOut \/ Join  PROVE NodeRunsAlone'
    BY <2>3 DEF EndStage, TimeOut, Join, StageTypeOK, Stages
  <2>4. ASSUME NodeStep  PROVE NodeRunsAlone'
    <3>1. enforcer' = enforcer  BY <2>4, NodeStepIsTyped
    <3>2. runner.at \in {"agent", "backoff"}
      BY <2>4 DEF NodeStep, AgentAnswers, AgentRaises, Uncorrectable, ToolFailure,
                  SchemaViolation, Unparseable, Wake, Agent
    <3> QED BY <3>1, <3>2
  <2> QED BY <2>1, <2>2, <2>3, <2>4 DEF StageNext, EnforcerStep
<1> QED BY <1>1, <1>2, StageTypeCorrect, PTL DEF StageSpec
=============================================================================
