----------------------------- MODULE EmbyLogoPlans -----------------------------
(***************************************************************************)
(* Clearing logos of Emby's Live TV channels from a prepared plan: prepare  *)
(* lists the channels, all or the requested ones; commit claims the plan,   *)
(* lists them again, compares, and starts a job that deletes the images.    *)
(***************************************************************************)
EXTENDS PlanStore

CONSTANTS
  Items,       \* Emby channels
  Subsets,     \* requests for some of the channels only (a set of sets)
  MaxChanges,  \* bound: channels that appear or disappear
  MaxFaults    \* bound: calls that fail

ASSUME EmbyAssumption == MaxChanges \in Nat /\ MaxFaults \in Nat /\ Subsets \subseteq SUBSET Items

VARIABLES
  live,      \* Emby's channels
  cleared,   \* channels whose images were deleted
  jobs,      \* per claimed plan: [plan, phase, left]
  changes, faults

embyVars == <<live, cleared, jobs, changes, faults>>
vars == <<store, nextId, now, live, cleared, jobs, changes, faults>>

TypeOK ==
  /\ StoreOK
  /\ live \subseteq Items /\ cleared \subseteq Items \X PlanIds
  /\ \A j \in jobs : j.phase \in {"verify", "list", "delete", "completed", "failed"}
                     /\ j.left \subseteq Items
  /\ changes \in 0 .. MaxChanges /\ faults \in 0 .. MaxFaults

Init == StoreInit /\ live \in SUBSET Items /\ cleared = {} /\ jobs = {}
        /\ changes = 0 /\ faults = 0

Fault == faults < MaxFaults /\ faults' = faults + 1

LogoPlan(who, ids) ==
  [id |-> nextId, op |-> "clear", principal |-> who, expires |-> now + PlanTTL,
   ids |-> ids]

Prepare(who) ==
  /\ MayPrepare
  /\ \/ Create(LogoPlan(who, live))
     \/ \E S \in Subsets : Create(LogoPlan(who, live \cap S))
  /\ UNCHANGED embyVars

Claim(who, id) ==
  /\ LET P == Claimable(id, "clear", who, TRUE)
     IN  /\ TakePlan(P)
         /\ jobs' = jobs \cup {[plan |-> p, phase |-> "verify", left |-> {}] : p \in P}
  /\ UNCHANGED <<live, cleared, changes, faults>>

\* mutant: a status the poll does not know
BecomesError(j, phase, left) ==
  jobs' = (jobs \ {j}) \cup
          {[j EXCEPT !.phase = IF phase = "failed" THEN "error" ELSE phase, !.left = left]}

Becomes(j, phase, left) == jobs' = (jobs \ {j}) \cup {[j EXCEPT !.phase = phase, !.left = left]}

SameChannels(j) == live = j.plan.ids

(* The listing of the commit call; a failing one is a 500, the plan gone.  *)
Verify(j) ==
  /\ j.phase = "verify"
  /\ \/ SameChannels(j) /\ Becomes(j, "list", {}) /\ UNCHANGED faults
     \/ ~SameChannels(j) /\ jobs' = jobs \ {j} /\ UNCHANGED faults
     \/ Fault /\ jobs' = jobs \ {j}
  /\ UNCHANGED <<storeVars, live, cleared, changes>>

\* mutant: the job takes every channel there is
AllChannels(j) == live

Wanted(j) == live \cap j.plan.ids

(* _run_clear_logos lists once more ...                                    *)
ListJob(j) ==
  /\ j.phase = "list"
  /\ \/ Becomes(j, "delete", Wanted(j)) /\ UNCHANGED faults
     \/ Fault /\ Becomes(j, "failed", {})
  /\ UNCHANGED <<storeVars, live, cleared, changes>>

(* ... and deletes image by image; an error is counted and the job goes on. *)
DeleteImage(j) ==
  /\ j.phase = "delete"
  /\ \E i \in j.left :
       /\ \/ cleared' = cleared \cup {<<i, j.plan.id>>} /\ UNCHANGED faults
          \/ Fault /\ UNCHANGED cleared
       /\ Becomes(j, "delete", j.left \ {i})
  /\ UNCHANGED <<storeVars, live, changes>>

JobDone(j) ==
  /\ j.phase = "delete" /\ j.left = {}
  /\ Becomes(j, "completed", {})
  /\ UNCHANGED <<storeVars, live, cleared, changes, faults>>

ChannelsChange(i) ==
  /\ changes < MaxChanges /\ changes' = changes + 1
  /\ live' = IF i \in live THEN live \ {i} ELSE live \cup {i}
  /\ UNCHANGED <<storeVars, cleared, jobs, faults>>

Tick == Expire /\ UNCHANGED embyVars

Next ==
  \/ \E who \in Principals : Prepare(who)
  \/ \E who \in Principals, id \in PlanIds : Claim(who, id)
  \/ \E j \in jobs : Verify(j) \/ ListJob(j) \/ DeleteImage(j) \/ JobDone(j)
  \/ \E i \in Items : ChannelsChange(i)
  \/ Tick

Spec == Init /\ [][Next]_vars

---------------------------------------------------------------------------
(* Properties *)

(* Images are deleted only of channels the confirmed plan named, also when *)
(* channels come and go between the commit's listing and the job's.        *)
ClearsOnlyPlanned ==
  \A j \in jobs : \A x \in cleared : x[2] = j.plan.id => x[1] \in j.plan.ids

(* Logo plans: well formed, they clear only what they name, and the store  *)
(* they wait in stays within its limit.                                    *)
LogoPlansSafe == TypeOK /\ ClearsOnlyPlanned /\ StoreBounded
================================================================================
