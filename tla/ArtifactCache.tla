----------------------------- MODULE ArtifactCache -----------------------------
(***************************************************************************)
(* The in_progress sentinel of the artifact cache: workers that find no    *)
(* bundle under a key elect one of them with SET NX, the elected worker    *)
(* computes the bundle, writes it and removes the sentinel.                *)
(*                                                                         *)
(* One key is modelled; a key carries the versions of what the bundle is   *)
(* made from, so that keys do not interact.  The repository offers the     *)
(* steps, its callers put them in the order of the interface's comments.   *)
(***************************************************************************)
EXTENDS Naturals, FiniteSets

CONSTANTS
  Callers,     \* the workers that want the bundle
  Nobody,      \* no sentinel is set
  MaxFaults    \* bound: crashes of workers and losses of the bundle

ASSUME ArtifactCacheAssumption == Nobody \notin Callers /\ MaxFaults \in Nat

VARIABLES
  bundle,     \* is the bundle in the cache
  sentinel,   \* who set the sentinel: its value in Redis is "1" for everyone
  caller,     \* what each worker is about to do
  faults,     \* crashes and losses so far
  overrun     \* history: a sentinel expired on the worker that set it

cacheVars == <<bundle, sentinel, caller, faults, overrun>>

Phases == {"idle", "asking", "electing", "computing", "clearing"}

CacheTypeOK ==
  /\ bundle \in BOOLEAN
  /\ sentinel \in Callers \cup {Nobody}
  /\ caller \in [Callers -> Phases]
  /\ faults \in 0..MaxFaults
  /\ overrun \in BOOLEAN

Goes(c, phase) == caller' = [caller EXCEPT ![c] = phase]

-----------------------------------------------------------------------------
Ask(c) ==
  /\ caller[c] = "idle"
  /\ Goes(c, "asking")
  /\ UNCHANGED <<bundle, sentinel, faults, overrun>>

(* get: a worker that finds the bundle is done.                            *)
Look(c) ==
  /\ caller[c] = "asking"
  /\ Goes(c, IF bundle THEN "idle" ELSE "electing")
  /\ UNCHANGED <<bundle, sentinel, faults, overrun>>

(* Mutant: the sentinel is set whether it was set or not.                  *)
ElectAnyway(c) ==
  /\ caller[c] = "electing"
  /\ sentinel' = c
  /\ Goes(c, "computing")
  /\ UNCHANGED <<bundle, faults, overrun>>

(* set_in_progress: SET NX.  A worker that is not elected looks again      *)
(* later.  Nobody looks a second time before it computes.                  *)
Elect(c) ==
  /\ caller[c] = "electing"
  /\ IF sentinel = Nobody
       THEN sentinel' = c /\ Goes(c, "computing")
       ELSE UNCHANGED sentinel /\ Goes(c, "asking")
  /\ UNCHANGED <<bundle, faults, overrun>>

(* set: the bundle is computed and written.                                *)
Store(c) ==
  /\ caller[c] = "computing"
  /\ bundle' = TRUE
  /\ Goes(c, "clearing")
  /\ UNCHANGED <<sentinel, faults, overrun>>

(* clear_in_progress deletes the sentinel, whoever set it.                 *)
Clear(c) ==
  /\ caller[c] = "clearing"
  /\ sentinel' = Nobody
  /\ Goes(c, "idle")
  /\ UNCHANGED <<bundle, faults, overrun>>

Active(c) == caller[c] \in {"computing", "clearing"}

(* Mutant: a sentinel without a time to live.                              *)
ExpireAfterClear ==
  /\ sentinel # Nobody /\ Active(sentinel)
  /\ sentinel' = Nobody
  /\ overrun' = TRUE
  /\ UNCHANGED <<bundle, caller, faults>>

(* The sentinel's time to live passes.                                     *)
Expire ==
  /\ sentinel # Nobody
  /\ sentinel' = Nobody
  /\ overrun' = (overrun \/ Active(sentinel))
  /\ UNCHANGED <<bundle, caller, faults>>

(* The worker stops where it is; a sentinel it has set stays.              *)
WorkerCrash(c) ==
  /\ caller[c] # "idle"
  /\ faults < MaxFaults
  /\ faults' = faults + 1
  /\ Goes(c, "idle")
  /\ UNCHANGED <<bundle, sentinel, overrun>>

(* The bundle is deleted, or its six hours have passed.                    *)
Lose ==
  /\ bundle
  /\ faults < MaxFaults
  /\ faults' = faults + 1
  /\ bundle' = FALSE
  /\ UNCHANGED <<sentinel, caller, overrun>>

CacheInit ==
  /\ bundle = FALSE
  /\ sentinel = Nobody
  /\ caller = [c \in Callers |-> "idle"]
  /\ faults = 0
  /\ overrun = FALSE

Proceed(c) == Look(c) \/ Elect(c) \/ Store(c) \/ Clear(c)

CacheNext ==
  \/ \E c \in Callers : Ask(c) \/ Proceed(c) \/ WorkerCrash(c)
  \/ Expire
  \/ Lose

(* A worker that has not crashed goes on, and Redis expires the sentinel.  *)
CacheFairness == WF_cacheVars(Expire) /\ \A c \in Callers : WF_cacheVars(Proceed(c))

CacheSpec == CacheInit /\ [][CacheNext]_cacheVars /\ CacheFairness

-----------------------------------------------------------------------------
(* As long as no worker outlives its sentinel, one worker computes: the    *)
(* sentinel somebody clears is then always his own.  (After an overrun the *)
(* slow worker clears the sentinel of its successor, and a third worker    *)
(* computes with them.)                                                    *)
ComputesAlone ==
  ~overrun => \A c, d \in Callers :
    caller[c] = "computing" /\ caller[d] = "computing" => c = d

(* A worker that asks gets the bundle or computes it, although others have *)
(* set a sentinel and crashed.                                             *)
AskedIsServed ==
  \A c \in Callers : caller[c] = "asking" ~> caller[c] \in {"computing", "idle"}
=============================================================================
