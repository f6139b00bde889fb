----------------------------- MODULE RequestProofs -----------------------------
(***************************************************************************)
(* Proofs about what a browser prepares, confirms and polls: clearing Emby *)
(* logos from a plan in the plan store, applying normalization, the runs   *)
(* of a bulk commit and the jobs they are.  They hold for any channels,    *)
(* streams and principals, any capacity of the store and lifetime of       *)
(* plans, any list of operations, and any number of plans, requests, jobs, *)
(* failed calls, restarts and edits by others.                             *)
(***************************************************************************)
EXTENDS EmbyLogoPlans, NormalizationApply, BulkCommit, BulkCommitJobs,
        FiniteSetTheorems, WellFoundedInduction, TLAPS

-----------------------------------------------------------------------------
(* Emby logos.                                                             *)

Phases == {"verify", "list", "delete", "completed", "failed"}
Plan == [id : 1 .. nextId - 1, op : {"clear"}, principal : Principals,
         expires : 1 .. MaxTime + PlanTTL, ids : SUBSET Items]
Job == [plan : Plan, phase : Phases, left : SUBSET Items]

LogoTyped ==
  /\ nextId \in 1 .. 2 * MaxPlans + 1 /\ now \in 0 .. MaxTime
  /\ store \subseteq Plan /\ jobs \subseteq Job
  /\ live \subseteq Items /\ cleared \subseteq Items \X PlanIds
  /\ changes \in 0 .. MaxChanges /\ faults \in 0 .. MaxFaults

(* A plan is in the store or claimed by one job, never both: its id tells. *)
ClaimedOnce ==
  /\ \A p, q \in store : p.id = q.id => p = q
  /\ \A j, k \in jobs : j.plan.id = k.plan.id => j = k
  /\ \A j \in jobs, p \in store : j.plan.id # p.id

(* What a job has left and what was cleared for it, its plan names.        *)
WithinPlan ==
  /\ \A j \in jobs : j.phase = "delete" => j.left \subseteq j.plan.ids
  /\ \A i \in Items, id \in PlanIds : <<i, id>> \in cleared =>
        \E j \in jobs : /\ j.phase \in {"delete", "completed"}
                        /\ j.plan.id = id /\ i \in j.plan.ids

(* The inductive invariant.                                                *)
LogoInv ==
  /\ LogoTyped /\ ClaimedOnce /\ WithinPlan
  /\ IsFiniteSet(store) /\ Cardinality(store) <= MaxEntries

---------------------------------------------------------------------------
(* Every set of numbers has a least element.                               *)
LEMMA LeastOf ==
  ASSUME NEW S, S \subseteq Nat, S # {}
  PROVE  \E i \in S : \A j \in S : i <= j
<1>. DEFINE Below == OpToRel(<, Nat)
<1>1. \A i, j \in Nat : i < j => <<i, j>> \in Below
  BY DEF OpToRel
<1>2. IsWellFoundedOn(Below, Nat)
  BY NatLessThanWellFounded
<1>. HIDE DEF Below
<1>3. PICK i \in S : \A j \in S : ~ (<<j, i>> \in Below)
  BY <1>2, WFMin
<1>4. \A j \in S : ~ (j < i)
  BY <1>1, <1>3
<1>. QED
  BY <1>3, <1>4

(* _prune leaves room for one more plan.                                   *)
LEMMA PruneMakesRoom ==
  ASSUME IsFiniteSet(store), \A p \in store : p.id \in Nat,
         \A p, q \in store : p.id = q.id => p = q
  PROVE  /\ Prune(store) \subseteq store /\ IsFiniteSet(Prune(store))
         /\ Cardinality(Prune(store)) \in Nat /\ Cardinality(Prune(store)) <= MaxEntries - 1
<1>. DEFINE K == Prune(store)
<1>1. K \subseteq store /\ Live(store) \subseteq store /\ K \subseteq Live(store)
  BY DEF Prune, Live
<1>2. IsFiniteSet(K) /\ Cardinality(K) \in Nat /\ IsFiniteSet(Live(store))
  BY <1>1, FS_Subset, FS_CardinalityType
<1>3. CASE K = {}
  BY <1>1, <1>2, <1>3, FS_EmptySet, StoreAssumption
<1>4. CASE K # {}
  <2>1. PICK p \in K : \A q \in K : p.id <= q.id
    <3>1. {p.id : p \in K} \subseteq Nat /\ {p.id : p \in K} # {}
      BY <1>1, <1>4
    <3>2. PICK i \in {p.id : p \in K} : \A j \in {p.id : p \in K} : i <= j
      BY <3>1, LeastOf
    <3>. QED
      BY <3>2
  <2>. DEFINE above == {q \in Live(store) : q.id > p.id}
  <2>2. K \ {p} \in SUBSET above
    <3>1. \A q \in K \ {p} : p.id \in Nat /\ q.id \in Nat /\ p.id # q.id /\ p.id <= q.id
      BY <1>1, <2>1
    <3>2. \A q \in K \ {p} : q.id > p.id
      BY <3>1
    <3>. QED
      BY <1>1, <3>2
  <2>3. IsFiniteSet(above) /\ above \in SUBSET Live(store)
    BY <1>2, FS_Subset
  <2>4. Cardinality(above) \in Nat /\ Cardinality(above) < MaxEntries - 1
    BY <2>1, <2>3, FS_CardinalityType DEF Prune
  <2>5. Cardinality(K \ {p}) = Cardinality(K) - 1
    BY <1>2, FS_RemoveElement
  <2>6. Cardinality(K \ {p}) <= Cardinality(above)
    BY <2>2, <2>3, FS_Subset
  <2>. HIDE DEF above, K
  <2>7. Cardinality(K) <= MaxEntries - 1
    BY <1>2, <2>4, <2>5, <2>6, StoreAssumption
  <2>. QED
    BY <1>1, <1>2, <2>7 DEF K
<1>. QED
  BY <1>3, <1>4

(* The invariant gives what _prune needs.                                  *)
LEMMA Pruned ==
  ASSUME LogoInv
  PROVE  /\ Prune(store) \subseteq store /\ IsFiniteSet(Prune(store))
         /\ Cardinality(Prune(store)) \in Nat /\ Cardinality(Prune(store)) <= MaxEntries - 1
<1>1. \A p \in store : p.id \in Nat
  BY DEF LogoInv, LogoTyped, Plan
<1>. QED
  BY <1>1, PruneMakesRoom DEF LogoInv, ClaimedOnce

LEMMA LogoInit == Init => LogoInv
<1>. SUFFICES ASSUME Init PROVE LogoInv
  OBVIOUS
<1>1. LogoTyped
  BY StoreAssumption, EmbyAssumption DEF Init, StoreInit, LogoTyped
<1>2. ClaimedOnce /\ WithinPlan
  BY DEF Init, StoreInit, ClaimedOnce, WithinPlan
<1>3. IsFiniteSet(store) /\ Cardinality(store) <= MaxEntries
  BY StoreAssumption, FS_EmptySet DEF Init, StoreInit
<1>. QED
  BY <1>1, <1>2, <1>3 DEF LogoInv

(* A new plan carries an id of its own.                                    *)
LEMMA PrepareKeeps ==
  ASSUME LogoInv, NEW who \in Principals, Prepare(who)
  PROVE  LogoInv'
<1>1. PICK ids \in SUBSET Items : Create(LogoPlan(who, ids))
  <2>1. live \in SUBSET Items /\ \A S \in Subsets : live \cap S \in SUBSET Items
    BY DEF LogoInv, LogoTyped
  <2>. QED
    BY <2>1 DEF Prepare
<1>. DEFINE new == LogoPlan(who, ids)
<1>2. store' = Prune(store) \cup {new} /\ nextId' = nextId + 1 /\ now' = now
      /\ nextId <= MaxPlans /\ UNCHANGED embyVars
  BY <1>1 DEF Create, Prepare, MayPrepare
<1>3. nextId \in Nat /\ now \in 0 .. MaxTime /\ nextId' \in 1 .. 2 * MaxPlans + 1 /\ nextId \in 1 .. nextId' - 1
  BY <1>2, StoreAssumption DEF LogoInv, LogoTyped
<1>4. new.id = nextId /\ new \in Plan'
  <2>1. now + PlanTTL \in 1 .. MaxTime + PlanTTL
    BY <1>3, StoreAssumption
  <2>. QED
    BY <1>3, <2>1 DEF LogoPlan, Plan
<1>5. Plan \subseteq Plan'
  <2>1. 1 .. nextId - 1 \subseteq 1 .. nextId' - 1
    BY <1>2, <1>3
  <2>. QED
    BY <2>1 DEF Plan
<1>. HIDE DEF new
<1>6. LogoTyped'
  <2>1. Job \subseteq Job'
    BY <1>5 DEF Job
  <2>2. store' \subseteq Plan'
    BY <1>2, <1>4, <1>5, Pruned DEF LogoInv, LogoTyped
  <2>3. jobs' \subseteq Job'
    BY <1>2, <2>1 DEF LogoInv, LogoTyped, embyVars
  <2>. QED
    BY <1>2, <1>3, <2>2, <2>3 DEF LogoInv, LogoTyped, embyVars
<1>7. ClaimedOnce'
  <2>1. \A p \in Plan : p.id # nextId
    BY <1>3 DEF Plan
  <2>2. (\A p \in store : p.id # new.id) /\ \A j \in jobs : j.plan.id # new.id
    BY <1>4, <2>1 DEF LogoInv, LogoTyped, Job
  <2>. QED
    BY <1>2, <2>2, Pruned DEF LogoInv, ClaimedOnce, embyVars
<1>8. WithinPlan'
  BY <1>2 DEF LogoInv, WithinPlan, embyVars
<1>9. IsFiniteSet(store') /\ Cardinality(store') <= MaxEntries
  BY <1>2, Pruned, FS_AddElement, StoreAssumption
<1>. QED
  BY <1>6, <1>7, <1>8, <1>9 DEF LogoInv

(* A claimed plan leaves the store.                                        *)
LEMMA ClaimKeeps ==
  ASSUME LogoInv, NEW who \in Principals, NEW id \in PlanIds, Claim(who, id)
  PROVE  LogoInv'
<1>. DEFINE P == Claimable(id, "clear", who, TRUE)
            new == {[plan |-> p, phase |-> "verify", left |-> {}] : p \in P}
<1>1. store' = Prune(store) \ P /\ jobs' = jobs \cup new
      /\ UNCHANGED <<nextId, now, live, cleared, changes, faults>>
  BY DEF Claim, TakePlan
<1>2. P \subseteq store /\ Prune(store) \subseteq store /\ \A p \in P : p.id = id
  BY Pruned DEF Claimable
<1>3. \A p \in P : \A j \in jobs : j.plan.id # p.id
  BY <1>2 DEF LogoInv, ClaimedOnce
<1>. HIDE DEF P
<1>4. \A j \in new : j.plan \in P /\ j.phase = "verify" /\ j = [plan |-> j.plan, phase |-> "verify", left |-> {}]
  OBVIOUS
<1>5. new \subseteq Job
  BY <1>2 DEF LogoInv, LogoTyped, Job, Phases
<1>. HIDE DEF new
<1>6. LogoTyped'
  <2>1. Job' = Job /\ Plan' = Plan
    BY <1>1 DEF Job, Plan
  <2>. QED
    BY <1>1, <1>2, <1>5, <2>1 DEF LogoInv, LogoTyped
<1>7. ClaimedOnce'
  <2>1. \A p \in store' : p \in store /\ p \notin P
    BY <1>1, <1>2
  <2>2. \A j \in jobs' : j \in jobs \/ j \in new
    BY <1>1
  <2>3. \A p, q \in store' : p.id = q.id => p = q
    BY <2>1 DEF LogoInv, ClaimedOnce
  <2>4. \A j, k \in jobs' : j.plan.id = k.plan.id => j = k
    <3>1. \A j, k \in new : j = k
      <4>1. \A p, q \in P : p = q
        BY <1>2 DEF LogoInv, ClaimedOnce
      <4>. QED
        BY <1>4, <4>1
    <3>2. \A j \in jobs, k \in new : j.plan.id # k.plan.id
      BY <1>3, <1>4
    <3>. QED
      BY <2>2, <3>1, <3>2 DEF LogoInv, ClaimedOnce
  <2>5. \A j \in jobs', p \in store' : j.plan.id # p.id
    <3>1. \A j \in new, p \in store' : j.plan.id # p.id
      BY <1>2, <1>4, <2>1 DEF LogoInv, ClaimedOnce
    <3>. QED
      BY <2>1, <2>2, <3>1 DEF LogoInv, ClaimedOnce
  <2>. QED
    BY <2>3, <2>4, <2>5 DEF ClaimedOnce
<1>8. WithinPlan'
  BY <1>1, <1>4 DEF LogoInv, WithinPlan
<1>9. IsFiniteSet(store') /\ Cardinality(store') <= MaxEntries
  <2>1. store' \in SUBSET Prune(store)
    BY <1>1
  <2>. QED
    BY <2>1, Pruned, FS_Subset, FS_CardinalityType, StoreAssumption
<1>. QED
  BY <1>6, <1>7, <1>8, <1>9 DEF LogoInv

(* A job takes a step: it stays the one job of its plan.                   *)
LEMMA JobStep ==
  ASSUME LogoInv, NEW j \in jobs, NEW phase \in Phases, NEW left \in SUBSET Items,
         Becomes(j, phase, left), UNCHANGED <<storeVars, live, changes>>,
         faults' \in 0 .. MaxFaults,
         phase = "delete" => left \subseteq j.plan.ids,
         j.phase \in {"delete", "completed"} => phase \in {"delete", "completed"},
         \/ cleared' = cleared
         \/ \E i \in j.plan.ids : cleared' = cleared \cup {<<i, j.plan.id>>} /\ phase = "delete"
  PROVE  LogoInv'
<1>. DEFINE k == [j EXCEPT !.phase = phase, !.left = left]
<1>1. jobs' = (jobs \ {j}) \cup {k}
  BY DEF Becomes
<1>2. j \in Job /\ j.plan \in Plan
  BY DEF LogoInv, LogoTyped, Job
<1>3. k \in Job /\ k.plan = j.plan /\ k.phase = phase /\ k.left = left
  BY <1>2 DEF Job
<1>. HIDE DEF k
<1>4. Job' = Job /\ Plan' = Plan /\ store' = store /\ nextId' = nextId /\ now' = now
      /\ live' = live /\ changes' = changes
  BY DEF Job, Plan, storeVars
<1>5. LogoTyped'
  <2>1. j.plan.id \in PlanIds /\ j.plan.ids \subseteq Items
    BY <1>2, StoreAssumption DEF LogoInv, LogoTyped, Plan, PlanIds
  <2>2. cleared' \subseteq Items \X PlanIds
    BY <2>1 DEF LogoInv, LogoTyped
  <2>3. jobs' \subseteq Job'
    BY <1>1, <1>3, <1>4 DEF LogoInv, LogoTyped
  <2>. QED
    BY <1>4, <2>2, <2>3 DEF LogoInv, LogoTyped, PlanIds
<1>6. ClaimedOnce'
  <2>1. \A x \in jobs' : x = k \/ (x \in jobs /\ x # j)
    BY <1>1
  <2>2. \A x, y \in jobs' : x.plan.id = y.plan.id => x = y
    BY <1>3, <2>1 DEF LogoInv, ClaimedOnce
  <2>3. \A x \in jobs', p \in store' : x.plan.id # p.id
    BY <1>3, <1>4, <2>1 DEF LogoInv, ClaimedOnce
  <2>. QED
    BY <1>4, <2>2, <2>3 DEF LogoInv, ClaimedOnce
<1>7. WithinPlan'
  <2>1. \A x \in jobs' : x.phase = "delete" => x.left \subseteq x.plan.ids
    BY <1>1, <1>3 DEF LogoInv, WithinPlan
  <2>2. ASSUME NEW i \in Items, NEW id \in PlanIds, <<i, id>> \in cleared'
        PROVE  \E x \in jobs' : x.phase \in {"delete", "completed"} /\ x.plan.id = id /\ i \in x.plan.ids
    <3>1. CASE <<i, id>> \in cleared
      <4>1. PICK x \in jobs : x.phase \in {"delete", "completed"} /\ x.plan.id = id /\ i \in x.plan.ids
        BY <3>1 DEF LogoInv, WithinPlan
      <4>2. CASE x = j
        BY <1>1, <1>3, <4>1, <4>2
      <4>3. CASE x # j
        BY <1>1, <4>1, <4>3
      <4>. QED
        BY <4>2, <4>3
    <3>2. CASE <<i, id>> \notin cleared
      <4>1. id = j.plan.id /\ i \in j.plan.ids /\ phase = "delete"
        BY <2>2, <3>2
      <4>. QED
        BY <1>1, <1>3, <4>1
    <3>. QED
      BY <3>1, <3>2
  <2>. QED
    BY <2>1, <2>2 DEF WithinPlan, PlanIds
<1>. QED
  BY <1>4, <1>5, <1>6, <1>7 DEF LogoInv

(* A job whose plan does not hold ends before it deleted anything.         *)
LEMMA JobGone ==
  ASSUME LogoInv, NEW j \in jobs, j.phase = "verify", jobs' = jobs \ {j},
         UNCHANGED <<storeVars, live, cleared, changes>>, faults' \in 0 .. MaxFaults
  PROVE  LogoInv'
<1>1. Job' = Job /\ Plan' = Plan /\ store' = store /\ nextId' = nextId /\ now' = now
      /\ live' = live /\ cleared' = cleared /\ changes' = changes /\ jobs' \subseteq jobs
  BY DEF Job, Plan, storeVars
<1>2. LogoTyped'
  BY <1>1 DEF LogoInv, LogoTyped, PlanIds
<1>3. ClaimedOnce'
  BY <1>1 DEF LogoInv, ClaimedOnce
<1>4. \A x \in jobs : x.phase \in {"delete", "completed"} => x \in jobs'
  OBVIOUS
<1>5. WithinPlan'
  <2>1. \A x \in jobs' : x.phase = "delete" => x.left \subseteq x.plan.ids
    BY <1>1 DEF LogoInv, WithinPlan
  <2>2. \A i \in Items, id \in PlanIds : <<i, id>> \in cleared =>
          \E x \in jobs' : x.phase \in {"delete", "completed"} /\ x.plan.id = id /\ i \in x.plan.ids
    BY <1>4 DEF LogoInv, WithinPlan
  <2>. QED
    BY <1>1, <2>1, <2>2 DEF WithinPlan, PlanIds
<1>. QED
  BY <1>1, <1>2, <1>3, <1>5 DEF LogoInv

LEMMA JobKeeps ==
  ASSUME LogoInv, NEW j \in jobs, Verify(j) \/ ListJob(j) \/ DeleteImage(j) \/ JobDone(j)
  PROVE  LogoInv'
<1>1. faults \in 0 .. MaxFaults /\ live \subseteq Items
  BY DEF LogoInv, LogoTyped
<1>2. Fault => faults' \in 0 .. MaxFaults
  BY <1>1, EmbyAssumption DEF Fault
<1>3. CASE Verify(j)
  <2>1. CASE SameChannels(j) /\ Becomes(j, "list", {}) /\ UNCHANGED faults
    BY <1>1, <1>3, <2>1, JobStep DEF Verify, Phases
  <2>2. CASE jobs' = jobs \ {j} /\ (UNCHANGED faults \/ Fault)
    BY <1>1, <1>2, <1>3, <2>2, JobGone DEF Verify
  <2>. QED
    BY <1>3, <2>1, <2>2 DEF Verify
<1>4. CASE ListJob(j)
  <2>1. CASE Becomes(j, "delete", Wanted(j)) /\ UNCHANGED faults
    <3>1. Wanted(j) \in SUBSET Items /\ Wanted(j) \subseteq j.plan.ids
      BY <1>1 DEF Wanted
    <3>2. "delete" \in Phases
      BY DEF Phases
    <3>. QED
      BY <1>1, <1>4, <2>1, <3>1, <3>2, JobStep DEF ListJob
  <2>2. CASE Fault /\ Becomes(j, "failed", {})
    BY <1>2, <1>4, <2>2, JobStep DEF ListJob, Phases
  <2>. QED
    BY <1>4, <2>1, <2>2 DEF ListJob
<1>5. CASE DeleteImage(j)
  <2>1. j.phase = "delete" /\ UNCHANGED <<storeVars, live, changes>>
    BY <1>5 DEF DeleteImage
  <2>2. PICK i \in j.left :
          /\ \/ cleared' = cleared \cup {<<i, j.plan.id>>} /\ UNCHANGED faults
             \/ Fault /\ UNCHANGED cleared
          /\ Becomes(j, "delete", j.left \ {i})
    BY <1>5 DEF DeleteImage
  <2>3. j.left \subseteq j.plan.ids /\ j.left \ {i} \in SUBSET Items
    BY <2>1 DEF LogoInv, WithinPlan, LogoTyped, Job
  <2>4. faults' \in 0 .. MaxFaults
    BY <1>1, <1>2, <2>2
  <2>5. \/ cleared' = cleared
        \/ \E x \in j.plan.ids : cleared' = cleared \cup {<<x, j.plan.id>>} /\ "delete" = "delete"
    BY <2>2, <2>3
  <2>6. "delete" \in Phases /\ j.left \ {i} \subseteq j.plan.ids
    BY <2>3 DEF Phases
  <2>. QED
    BY <2>1, <2>2, <2>3, <2>4, <2>5, <2>6, JobStep
<1>6. CASE JobDone(j)
  BY <1>1, <1>6, JobStep DEF JobDone, Phases
<1>. QED
  BY <1>3, <1>4, <1>5, <1>6

(* What the channels and the clock do does not touch plans and jobs.       *)
LEMMA OutsideKeeps ==
  ASSUME LogoInv,
         (\E i \in Items : ChannelsChange(i)) \/ Tick \/ UNCHANGED vars
  PROVE  LogoInv'
<1>1. UNCHANGED <<store, nextId, jobs, cleared, faults>>
  BY DEF ChannelsChange, Tick, Expire, vars, storeVars, embyVars
<1>2. now' \in 0 .. MaxTime /\ changes' \in 0 .. MaxChanges
  BY StoreAssumption, EmbyAssumption
  DEF ChannelsChange, Tick, Expire, vars, storeVars, embyVars, LogoInv, LogoTyped
<1>3. live' \subseteq Items
  BY DEF ChannelsChange, Tick, Expire, vars, storeVars, embyVars, LogoInv, LogoTyped
<1>4. Plan' = Plan /\ Job' = Job
  BY <1>1 DEF Plan, Job
<1>5. LogoTyped'
  BY <1>1, <1>2, <1>3, <1>4 DEF LogoInv, LogoTyped, PlanIds
<1>6. ClaimedOnce' /\ WithinPlan'
  BY <1>1 DEF LogoInv, ClaimedOnce, WithinPlan, PlanIds
<1>. QED
  BY <1>1, <1>5, <1>6 DEF LogoInv

LEMMA LogoNext == LogoInv /\ [Next]_vars => LogoInv'
<1>. SUFFICES ASSUME LogoInv, [Next]_vars PROVE LogoInv'
  OBVIOUS
<1>1. CASE \E who \in Principals : Prepare(who)
  BY <1>1, PrepareKeeps
<1>2. CASE \E who \in Principals, id \in PlanIds : Claim(who, id)
  BY <1>2, ClaimKeeps
<1>3. CASE \E j \in jobs : Verify(j) \/ ListJob(j) \/ DeleteImage(j) \/ JobDone(j)
  BY <1>3, JobKeeps
<1>4. CASE (\E i \in Items : ChannelsChange(i)) \/ Tick \/ UNCHANGED vars
  BY <1>4, OutsideKeeps
<1>. QED
  BY <1>1, <1>2, <1>3, <1>4 DEF Next

LEMMA LogoInvSafe == LogoInv => LogoPlansSafe
<1>. SUFFICES ASSUME LogoInv PROVE LogoPlansSafe
  OBVIOUS
<1>1. StoreOK
  BY DEF LogoInv, LogoTyped, ClaimedOnce, StoreOK, Plan
<1>2. TypeOK
  BY <1>1 DEF LogoInv, LogoTyped, TypeOK, Job, Phases
<1>3. ClearsOnlyPlanned
  <2>. SUFFICES ASSUME NEW j \in jobs, NEW x \in cleared, x[2] = j.plan.id
                PROVE  x[1] \in j.plan.ids
    BY DEF ClearsOnlyPlanned
  <2>1. x[1] \in Items /\ x[2] \in PlanIds /\ x = <<x[1], x[2]>>
    BY DEF LogoInv, LogoTyped
  <2>2. PICK k \in jobs : k.plan.id = x[2] /\ x[1] \in k.plan.ids
    BY <2>1 DEF LogoInv, WithinPlan
  <2>. QED
    BY <2>2 DEF LogoInv, ClaimedOnce
<1>. QED
  BY <1>2, <1>3 DEF LogoInv, LogoPlansSafe, StoreBounded

(* Logo plans and the store they wait in, for any number of everything: a  *)
(* plan is in the store or claimed once and never both, a job deletes only *)
(* images of channels its confirmed plan names though channels come and go *)
(* between the listings, and _prune keeps the store within                 *)
(* PLAN_MAX_ENTRIES.                                                       *)
THEOREM LogoPlansCorrect == Spec => []LogoPlansSafe
<1>1. Init => LogoInv
  BY LogoInit
<1>2. LogoInv /\ [Next]_vars => LogoInv'
  BY LogoNext
<1>3. LogoInv => LogoPlansSafe
  BY LogoInvSafe
<1>. QED
  BY <1>1, <1>2, <1>3, PTL DEF Spec

-----------------------------------------------------------------------------
(* Normalization.                                                          *)

Running(c) == pc[c] \in {"next", "update", "delete"}

ApplyTyped ==
  /\ ApplyTypeOK
  /\ DOMAIN plan = Commits /\ DOMAIN acts = Commits /\ DOMAIN diff = Commits
  /\ \A c \in Commits : \A ch \in DOMAIN acts[c] : acts[c][ch] # ch
  /\ \A c \in Commits : \A ch \in DOMAIN diff[c] : diff[c][ch].to \in Names

(* Who runs holds the lock, works on rows it has an action for, and is in  *)
(* a merge at one of them.                                                 *)
AtWork(c) ==
  Running(c) => /\ lock = c
                /\ todo[c] \subseteq DOMAIN acts[c] /\ todo[c] \subseteq DOMAIN diff[c]
                /\ pc[c] # "next" => cur[c] \in todo[c] /\ acts[c][cur[c]] \in Channels

(* A plan p prepared for the actions a: it froze what the merges touch.    *)
Prepared(p, a) ==
  /\ DOMAIN p.diff = DOMAIN a
  /\ DOMAIN p.pre \subseteq Channels
  /\ \A ch \in DOMAIN p.pre : p.pre[ch].s \subseteq Streams
  /\ \A ch \in DOMAIN a : a[ch] \in Channels => {ch, a[ch]} \subseteq DOMAIN p.pre

PlansMade == \A c \in Commits : plan[c] # NoPlan /\ pc[c] # "done" => Prepared(plan[c], acts[c])

(* What was frozen for the merges of the rows T is what the channels hold. *)
Fresh(p, a, T, S, A) ==
  \A ch \in T : a[ch] \in Channels =>
    /\ {ch, a[ch]} \subseteq A
    /\ p.pre[ch].s = S[ch] /\ p.pre[a[ch]].s = S[a[ch]]

(* Rows of which no merge has begun.                                       *)
Untouched(c) == IF pc[c] = "next" THEN todo[c] ELSE todo[c] \ {cur[c]}

(* A merge in progress: before the update it is about to write what source *)
(* and target hold, before the delete the target holds all of the source.  *)
MergeHolds(c) ==
  LET t == acts[c][cur[c]]
  IN  /\ pc[c] = "update" => /\ {cur[c], t} \subseteq alive
                             /\ merged[c] = streams[t] \cup streams[cur[c]]
      /\ pc[c] = "delete" => t \in alive /\ streams[cur[c]] \subseteq streams[t]
      /\ Running(c) /\ plan[c] # NoPlan => Fresh(plan[c], acts[c], Untouched(c), streams, alive)

(* Nobody else edited, and every plan ever executed keeps merges apart; a  *)
(* plan still waiting may be any.                                          *)
Clean ==
  edits = 0 /\ \A c \in Commits : pc[c] = "idle" \/ plan[c] = NoPlan \/ Apart(acts[c])

(* The inductive invariant.                                                *)
ApplyInv ==
  /\ ApplyTyped /\ PlansMade
  /\ \A c \in Commits : AtWork(c)
  /\ Clean => Kept = AllStreams /\ \A c \in Commits : MergeHolds(c)

---------------------------------------------------------------------------
LEMMA InvInit == ApplyInit => ApplyInv
<1>. SUFFICES ASSUME ApplyInit PROVE ApplyInv
  OBVIOUS
<1>1. DOMAIN NoDiff = {}
  BY DEF NoDiff
<1>2. \A c \in Commits : pc[c] = "idle" /\ plan[c] = NoPlan /\ acts[c] = NoDiff /\ diff[c] = NoDiff
  BY DEF ApplyInit
<1>3. ApplyTypeOK
  <2>1. \A c \in Commits : DOMAIN acts[c] \subseteq Channels /\ DOMAIN diff[c] \subseteq Channels
    BY <1>1, <1>2
  <2>2. name \in [Channels -> Names] /\ streams \in [Channels -> SUBSET Streams] /\ alive \subseteq Channels
    BY NormalizeAssumption DEF ApplyInit
  <2>3. edits \in 0 .. MaxEdits /\ failures \in 0 .. MaxFailures
    BY NormalizeAssumption DEF ApplyInit
  <2>4. /\ pc \in [Commits -> {"idle", "next", "update", "delete", "done"}]
        /\ todo \in [Commits -> SUBSET Channels] /\ cur \in [Commits -> Channels \cup {Nobody}]
        /\ merged \in [Commits -> SUBSET Streams] /\ lock \in Commits \cup {Nobody}
    BY DEF ApplyInit
  <2>. QED
    BY <2>1, <2>2, <2>3, <2>4 DEF ApplyTypeOK
<1>4. ApplyTyped
  BY <1>1, <1>2, <1>3 DEF ApplyTyped, ApplyInit
<1>5. PlansMade /\ \A c \in Commits : AtWork(c)
  BY <1>2 DEF PlansMade, AtWork, Running
<1>6. Kept = AllStreams
  BY DEF Kept, AllStreams, ApplyInit
<1>7. \A c \in Commits : MergeHolds(c)
  BY <1>2 DEF MergeHolds, Running
<1>. QED
  BY <1>4, <1>5, <1>6, <1>7 DEF ApplyInv

(* While one request runs, or none does, no other is running.              *)
LEMMA OthersWait ==
  ASSUME ApplyInv, NEW c \in Commits, NEW d \in Commits, d # c,
         Running(c) \/ lock = Nobody
  PROVE  ~Running(d)
  BY NormalizeAssumption DEF ApplyInv, AtWork, Nobody

(* What a step of one request has to keep.                                 *)
LEMMA StepOf ==
  ASSUME ApplyInv, NEW c \in Commits, Running(c) \/ lock = Nobody,
         \A d \in Commits \ {c} : pc'[d] = pc[d] /\ acts'[d] = acts[d] /\ plan'[d] = plan[d],
         ApplyTyped', AtWork(c)', edits' = edits,
         plan'[c] # NoPlan /\ pc'[c] # "done" => Prepared(plan'[c], acts'[c]),
         pc[c] = "idle" \/ plan[c] = NoPlan \/ (pc'[c] # "idle" /\ plan'[c] # NoPlan /\ acts'[c] = acts[c]),
         Clean /\ Clean' => Kept' = AllStreams /\ MergeHolds(c)'
  PROVE  ApplyInv'
<1>1. \A d \in Commits \ {c} : ~Running(d)'
  BY OthersWait DEF Running
<1>2. PlansMade'
  BY DEF ApplyInv, PlansMade
<1>3. \A d \in Commits : AtWork(d)'
  BY <1>1 DEF AtWork
<1>4. Clean' => Clean
  BY DEF Clean
<1>5. \A d \in Commits \ {c} : MergeHolds(d)'
  BY <1>1 DEF MergeHolds, Running
<1>6. AllStreams' = AllStreams
  BY DEF AllStreams
<1>. QED
  BY <1>2, <1>3, <1>4, <1>5, <1>6 DEF ApplyInv

(* The diff has rows for channels only, and so have the actions on it.     *)
LEMMA DiffRows ==
  ASSUME ApplyInv
  PROVE  Rows \subseteq alive /\ alive \subseteq Channels /\ DOMAIN BuildApplyDiff = Rows
  BY DEF ApplyInv, ApplyTyped, ApplyTypeOK, Rows, BuildApplyDiff

(* A step that waits for nobody and touches no channel: a plan is made or  *)
(* dropped.                                                                *)
LEMMA StepOfWaiting ==
  ASSUME ApplyInv, NEW c \in Commits, pc[c] = "idle", pc'[c] \in {"idle", "done"},
         \A d \in Commits \ {c} : pc'[d] = pc[d] /\ acts'[d] = acts[d] /\ plan'[d] = plan[d],
         UNCHANGED <<chanVars, todo, diff, cur, merged, lock, edits>>, ApplyTyped',
         plan'[c] # NoPlan /\ pc'[c] # "done" => Prepared(plan'[c], acts'[c])
  PROVE  ApplyInv'
<1>1. ~Running(c) /\ ~Running(c)'
  BY DEF Running
<1>2. PlansMade'
  BY DEF ApplyInv, PlansMade
<1>3. \A d \in Commits : AtWork(d)'
  BY <1>1 DEF ApplyInv, AtWork, Running
<1>4. Clean' => Clean
  BY DEF Clean
<1>5. \A d \in Commits : MergeHolds(d) => MergeHolds(d)'
  <2>1. MergeHolds(c)'
    BY <1>1 DEF MergeHolds, Running
  <2>2. ASSUME NEW d \in Commits \ {c}, MergeHolds(d) PROVE MergeHolds(d)'
    BY <2>2 DEF MergeHolds, Running, Untouched, Fresh, chanVars
  <2>. QED
    BY <2>1, <2>2
<1>6. Kept' = Kept /\ AllStreams' = AllStreams
  BY DEF Kept, AllStreams, chanVars
<1>. QED
  BY <1>2, <1>3, <1>4, <1>5, <1>6 DEF ApplyInv

LEMMA PrepareApplyKeeps ==
  ASSUME ApplyInv, NEW c \in Commits, PrepareApply(c)
  PROVE  ApplyInv'
<1>1. PICK a \in [Rows -> Actions] :
        /\ Acceptable(a) /\ DOMAIN Frozen(a) \subseteq alive
        /\ acts' = [acts EXCEPT ![c] = a]
        /\ plan' = [plan EXCEPT ![c] = [planned |-> TRUE, diff |-> BuildApplyDiff, pre |-> Frozen(a)]]
  BY DEF PrepareApply
<1>2. pc[c] = "idle" /\ UNCHANGED <<chanVars, pc, todo, diff, cur, merged, lock, budget>>
  BY DEF PrepareApply
<1>3. DOMAIN a = Rows /\ Rows \subseteq Channels /\ \A ch \in DOMAIN a : a[ch] # ch
  BY <1>1, DiffRows DEF Acceptable
<1>4. ApplyTyped'
  <2>1. \A d \in Commits : acts'[d] = IF d = c THEN a ELSE acts[d]
    BY <1>1 DEF ApplyInv, ApplyTyped
  <2>2. ApplyTypeOK'
    BY <1>2, <1>3, <2>1 DEF ApplyInv, ApplyTyped, ApplyTypeOK, chanVars, budget
  <2>. QED
    BY <1>1, <1>2, <1>3, <2>1, <2>2 DEF ApplyInv, ApplyTyped
<1>5. plan'[c] = [planned |-> TRUE, diff |-> BuildApplyDiff, pre |-> Frozen(a)] /\ acts'[c] = a
  BY <1>1 DEF ApplyInv, ApplyTyped
<1>6. Prepared(plan'[c], acts'[c])
  <2>1. plan'[c].diff = BuildApplyDiff /\ plan'[c].pre = Frozen(a)
    BY <1>5
  <2>2. \A ch \in DOMAIN Frozen(a) : ch \in Channels /\ Frozen(a)[ch].s = streams[ch]
    BY <1>1, DiffRows DEF Frozen
  <2>3. \A ch \in DOMAIN a : a[ch] \in Channels => {ch, a[ch]} \subseteq DOMAIN Frozen(a)
    BY NormalizeAssumption DEF Frozen
  <2>4. \A ch \in Channels : streams[ch] \subseteq Streams
    BY DEF ApplyInv, ApplyTyped, ApplyTypeOK
  <2>. QED
    BY <1>3, <1>5, <2>1, <2>2, <2>3, <2>4, DiffRows DEF Prepared
<1>7. \A d \in Commits \ {c} : pc'[d] = pc[d] /\ acts'[d] = acts[d] /\ plan'[d] = plan[d]
  BY <1>1, <1>2 DEF ApplyInv, ApplyTyped
<1>. QED
  BY <1>2, <1>4, <1>6, <1>7, StepOfWaiting DEF budget

LEMMA RefuseKeeps ==
  ASSUME ApplyInv, NEW c \in Commits, RefuseDrifted(c)
  PROVE  ApplyInv'
<1>1. /\ pc[c] = "idle" /\ pc' = [pc EXCEPT ![c] = "done"]
      /\ plan' = [plan EXCEPT ![c] = NoPlan] /\ acts' = [acts EXCEPT ![c] = NoDiff]
      /\ UNCHANGED <<chanVars, todo, diff, cur, merged, lock, budget>>
  BY DEF RefuseDrifted
<1>2. DOMAIN NoDiff = {}
  BY DEF NoDiff
<1>3. pc'[c] = "done" /\ \A d \in Commits : acts'[d] = IF d = c THEN NoDiff ELSE acts[d]
  BY <1>1 DEF ApplyInv, ApplyTyped, ApplyTypeOK
<1>4. ApplyTyped'
  <2>1. ApplyTypeOK'
    BY <1>1, <1>2, <1>3 DEF ApplyInv, ApplyTyped, ApplyTypeOK, chanVars, budget
  <2>. QED
    BY <1>1, <1>2, <1>3, <2>1 DEF ApplyInv, ApplyTyped
<1>5. \A d \in Commits \ {c} : pc'[d] = pc[d] /\ acts'[d] = acts[d] /\ plan'[d] = plan[d]
  BY <1>1 DEF ApplyInv, ApplyTyped, ApplyTypeOK
<1>. QED
  BY <1>1, <1>3, <1>4, <1>5, StepOfWaiting DEF budget

(* A planned request starts on the contents it froze.                      *)
LEMMA ExecuteKeeps ==
  ASSUME ApplyInv, NEW c \in Commits, Execute(c)
  PROVE  ApplyInv'
<1>1. /\ pc[c] = "idle" /\ lock = Nobody /\ lock' = c
      /\ diff' = [diff EXCEPT ![c] = BuildApplyDiff]
      /\ todo' = [todo EXCEPT ![c] = Rows]
      /\ pc' = [pc EXCEPT ![c] = "next"]
      /\ UNCHANGED <<chanVars, plan, cur, merged, budget>>
  BY DEF Execute, AcquireLock
<1>2. PICK a : /\ DOMAIN acts' = Commits /\ \A d \in Commits : acts'[d] = IF d = c THEN a ELSE acts[d]
               /\ DOMAIN a = Rows /\ (\A ch \in DOMAIN a : a[ch] # ch)
               /\ (plan[c] # NoPlan => PlanHolds(c) /\ a = acts[c])
  <2>1. CASE plan[c] = NoPlan
    <3>1. PICK b \in [Rows -> Actions] : Acceptable(b) /\ acts' = [acts EXCEPT ![c] = b]
      BY <2>1 DEF Execute
    <3>. QED
      BY <2>1, <3>1 DEF Acceptable, ApplyInv, ApplyTyped
  <2>2. CASE plan[c] # NoPlan
    <3>1. PlanHolds(c) /\ acts' = acts
      BY <2>2 DEF Execute
    <3>2. DOMAIN acts[c] = Rows
      BY <1>1, <2>2, <3>1, DiffRows DEF ApplyInv, PlansMade, Prepared, PlanHolds
    <3>3. DOMAIN acts = Commits
      BY DEF ApplyInv, ApplyTyped
    <3>4. \A ch \in DOMAIN acts[c] : acts[c][ch] # ch
      BY DEF ApplyInv, ApplyTyped
    <3>. QED
      BY <3>1, <3>2, <3>3, <3>4
  <2>. QED
    BY <2>1, <2>2
<1>3. /\ \A d \in Commits : diff'[d] = IF d = c THEN BuildApplyDiff ELSE diff[d]
      /\ pc'[c] = "next" /\ todo'[c] = Rows /\ plan'[c] = plan[c] /\ acts'[c] = a
  BY <1>1, <1>2 DEF ApplyInv, ApplyTyped, ApplyTypeOK
<1>4. ApplyTyped'
  <2>1. ApplyTypeOK'
    BY <1>1, <1>2, <1>3, DiffRows DEF ApplyInv, ApplyTyped, ApplyTypeOK, chanVars, budget
  <2>2. \A ch \in DOMAIN BuildApplyDiff : BuildApplyDiff[ch].to \in Names
    BY NormalizeAssumption DEF ApplyInv, ApplyTyped, ApplyTypeOK, BuildApplyDiff
  <2>. QED
    BY <1>1, <1>2, <1>3, <2>1, <2>2 DEF ApplyInv, ApplyTyped
<1>5. AtWork(c)'
  BY <1>1, <1>2, <1>3, DiffRows DEF AtWork
<1>6. plan'[c] # NoPlan => Prepared(plan'[c], acts'[c])
  BY <1>1, <1>2, <1>3 DEF ApplyInv, PlansMade
<1>7. Kept' = Kept
  BY <1>1 DEF Kept, chanVars
<1>8. MergeHolds(c)'
  <2>1. ASSUME plan[c] # NoPlan, NEW ch \in Rows, a[ch] \in Channels
        PROVE  /\ {ch, a[ch]} \subseteq alive
               /\ plan[c].pre[ch].s = streams[ch] /\ plan[c].pre[a[ch]].s = streams[a[ch]]
    <3>1. {ch, a[ch]} \subseteq DOMAIN plan[c].pre
      BY <1>2, <1>3, <1>6, <2>1 DEF Prepared
    <3>2. ASSUME NEW x \in DOMAIN plan[c].pre
          PROVE  x \in alive /\ plan[c].pre[x].s = streams[x]
      <4>1. x \in alive /\ plan[c].pre[x] = [n |-> name[x], s |-> streams[x]]
        BY <1>2, <2>1 DEF PlanHolds
      <4>. QED
        BY <4>1
    <3>. QED
      BY <3>1, <3>2
  <2>2. plan'[c] # NoPlan => Fresh(plan'[c], acts'[c], todo'[c], streams', alive')
    BY <1>1, <1>3, <2>1 DEF Fresh, chanVars
  <2>. QED
    BY <1>3, <2>2 DEF MergeHolds, Untouched
<1>9. \A d \in Commits \ {c} : pc'[d] = pc[d] /\ acts'[d] = acts[d] /\ plan'[d] = plan[d]
  BY <1>1, <1>2 DEF ApplyInv, ApplyTyped, ApplyTypeOK
<1>10. Clean => Kept' = AllStreams
  BY <1>7 DEF ApplyInv
<1>. QED
  BY <1>1, <1>4, <1>5, <1>6, <1>8, <1>9, <1>10, StepOf DEF budget

(* A row that ends without a stream or a channel touched.                  *)
LEMMA RowEnds ==
  ASSUME ApplyInv, NEW c \in Commits, NEW ch \in Channels, Running(c), RowDone(c, ch),
         pc' = [pc EXCEPT ![c] = "next"], pc[c] # "next" => ch = cur[c],
         name' \in [Channels -> Names], failures' \in 0 .. MaxFailures,
         streams' \in [Channels -> SUBSET Streams], alive' \subseteq Channels,
         UNCHANGED <<plan, acts, diff, merged, lock, edits>>,
         Clean => Kept' = AllStreams,
         Clean /\ plan[c] # NoPlan => Fresh(plan[c], acts[c], Untouched(c) \ {ch}, streams', alive')
  PROVE  ApplyInv'
<1>1. pc'[c] = "next" /\ todo'[c] = todo[c] \ {ch}
  BY DEF ApplyInv, ApplyTyped, ApplyTypeOK, RowDone
<1>2. ApplyTyped'
  <2>1. /\ todo' \in [Commits -> SUBSET Channels] /\ cur' \in [Commits -> Channels \cup {Nobody}]
        /\ pc' \in [Commits -> {"idle", "next", "update", "delete", "done"}]
    BY DEF ApplyInv, ApplyTyped, ApplyTypeOK, RowDone
  <2>2. ApplyTypeOK'
    BY <2>1 DEF ApplyInv, ApplyTyped, ApplyTypeOK
  <2>. QED
    BY <2>2 DEF ApplyInv, ApplyTyped
<1>3. AtWork(c)'
  BY <1>1 DEF ApplyInv, AtWork, Running
<1>4. plan'[c] # NoPlan => Prepared(plan'[c], acts'[c])
  BY DEF ApplyInv, PlansMade, Running
<1>5. \A d \in Commits \ {c} : pc'[d] = pc[d] /\ acts'[d] = acts[d] /\ plan'[d] = plan[d]
  BY DEF ApplyInv, ApplyTyped, ApplyTypeOK
<1>6. Untouched(c)' = Untouched(c) \ {ch}
  <2>1. Untouched(c) \ {ch} = todo[c] \ {ch}
    BY DEF Untouched
  <2>. QED
    BY <1>1, <2>1 DEF Untouched
<1>7. Clean => MergeHolds(c)'
  BY <1>1, <1>6 DEF MergeHolds
<1>. QED
  BY <1>1, <1>2, <1>3, <1>4, <1>5, <1>7, StepOf

(* The same of rows that leave the channels' streams alone.                *)
LEMMA RowEndsQuietly ==
  ASSUME ApplyInv, NEW c \in Commits, NEW ch \in Channels, Running(c), RowDone(c, ch),
         pc' = [pc EXCEPT ![c] = "next"], pc[c] # "next" => ch = cur[c],
         name' \in [Channels -> Names], failures' \in 0 .. MaxFailures,
         UNCHANGED <<streams, alive, plan, acts, diff, merged, lock, edits>>
  PROVE  ApplyInv'
<1>1. Clean => Kept' = AllStreams
  BY DEF ApplyInv, Kept
<1>2. Clean /\ plan[c] # NoPlan => Fresh(plan[c], acts[c], Untouched(c) \ {ch}, streams', alive')
  BY DEF ApplyInv, MergeHolds, Fresh
<1>3. streams' \in [Channels -> SUBSET Streams] /\ alive' \subseteq Channels
  BY DEF ApplyInv, ApplyTyped, ApplyTypeOK
<1>. QED
  BY <1>1, <1>2, <1>3, RowEnds

LEMMA FaultTyped ==
  ASSUME ApplyInv, CallFails \/ UNCHANGED budget
  PROVE  failures' \in 0 .. MaxFailures /\ edits' = edits
<1>1. failures \in 0 .. MaxFailures /\ MaxFailures \in Nat
  BY NormalizeAssumption DEF ApplyInv, ApplyTyped, ApplyTypeOK
<1>. QED
  BY <1>1 DEF CallFails, budget

LEMMA NextStays ==
  ASSUME ApplyInv, NEW c \in Commits, pc[c] = "next", pc' = pc
  PROVE  pc' = [pc EXCEPT ![c] = "next"]
  BY DEF ApplyInv, ApplyTyped, ApplyTypeOK

LEMMA RowKeeps ==
  ASSUME ApplyInv, NEW c \in Commits, NEW ch \in Channels,
         Skip(c, ch) \/ Rename(c, ch) \/ MergeUnread(c, ch)
  PROVE  ApplyInv'
<1>1. /\ pc[c] = "next" /\ RowDone(c, ch)
      /\ UNCHANGED <<streams, alive, plan, acts, pc, diff, merged, lock>>
  BY DEF Skip, Rename, MergeUnread, chanVars
<1>2. CallFails \/ UNCHANGED budget
  BY DEF Skip, Rename, MergeUnread, budget
<1>3. name' \in [Channels -> Names]
  <2>1. name \in [Channels -> Names]
    BY DEF ApplyInv, ApplyTyped, ApplyTypeOK
  <2>2. CASE Rename(c, ch) /\ name' = [name EXCEPT ![ch] = diff[c][ch].to]
    <3>1. diff[c][ch].to \in Names
      BY <1>1, <2>2 DEF Rename, ApplyInv, ApplyTyped, AtWork, Running
    <3>. QED
      BY <2>1, <2>2, <3>1
  <2>. QED
    BY <2>1, <2>2 DEF Skip, Rename, MergeUnread, chanVars
<1>. QED
  BY <1>1, <1>2, <1>3, FaultTyped, NextStays, RowEndsQuietly DEF Running

(* A merge begins: it has both channels and knows what they hold.          *)
LEMMA MergeKeeps ==
  ASSUME ApplyInv, NEW c \in Commits, NEW ch \in Channels, Merge(c, ch)
  PROVE  ApplyInv'
<1>. DEFINE t == acts[c][ch]
<1>1. /\ pc[c] = "next" /\ ch \in todo[c] /\ t \in Channels
      /\ UNCHANGED <<chanVars, plan, acts, diff, lock, budget>>
  BY DEF Merge
<1>2. ch \in DOMAIN acts[c] /\ t # ch /\ Running(c) /\ lock = c
  BY <1>1 DEF ApplyInv, ApplyTyped, AtWork, Running
<1>3. CASE plan[c] = NoPlan /\ {ch, t} \ alive # {}
  <2>1. RowDone(c, ch) /\ UNCHANGED <<pc, merged>>
    BY <1>3 DEF Merge
  <2>2. name' \in [Channels -> Names] /\ failures' \in 0 .. MaxFailures
    BY <1>1 DEF ApplyInv, ApplyTyped, ApplyTypeOK, chanVars, budget
  <2>. QED
    BY <1>1, <1>2, <2>1, <2>2, NextStays, RowEndsQuietly DEF chanVars, budget
<1>4. CASE ~(plan[c] = NoPlan /\ {ch, t} \ alive # {})
  <2>. DEFINE all == Contents(c, t) \cup Contents(c, ch)
              phase == IF Contents(c, ch) \subseteq Contents(c, t) THEN "delete" ELSE "update"
  <2>1. /\ merged' = [merged EXCEPT ![c] = all] /\ pc' = [pc EXCEPT ![c] = phase]
        /\ cur' = [cur EXCEPT ![c] = ch] /\ todo' = todo
    BY <1>4 DEF Merge
  <2>2. phase \in {"delete", "update"} /\ (phase = "delete" => Contents(c, ch) \subseteq Contents(c, t))
    OBVIOUS
  <2>3. plan[c] # NoPlan => Prepared(plan[c], acts[c])
    BY <1>1 DEF ApplyInv, PlansMade
  <2>4. all \subseteq Streams
    BY <1>1, <1>2, <2>3 DEF ApplyInv, ApplyTyped, ApplyTypeOK, Contents, Prepared
  <2>5. Clean => /\ {ch, t} \subseteq alive
                 /\ Contents(c, ch) = streams[ch] /\ Contents(c, t) = streams[t]
    <3>1. CASE plan[c] = NoPlan
      BY <1>4, <3>1 DEF Contents
    <3>2. CASE plan[c] # NoPlan
      <4>1. Clean => Fresh(plan[c], acts[c], todo[c], streams, alive)
        BY <1>1, <1>2, <3>2 DEF ApplyInv, MergeHolds, Untouched
      <4>. QED
        BY <1>1, <3>2, <4>1 DEF Fresh, Contents
    <3>. QED
      BY <3>1, <3>2
  <2>6. Clean => all = streams[t] \cup streams[ch]
    BY <2>5
  <2>7. Clean /\ phase = "delete" => streams[ch] \subseteq streams[t]
    BY <2>2, <2>5
  <2>. HIDE DEF all, phase
  <2>8. pc'[c] = phase /\ cur'[c] = ch /\ merged'[c] = all /\ todo'[c] = todo[c]
        /\ acts'[c] = acts[c] /\ plan'[c] = plan[c] /\ streams' = streams /\ alive' = alive
    BY <1>1, <2>1 DEF ApplyInv, ApplyTyped, ApplyTypeOK, chanVars
  <2>9. ApplyTyped'
    <3>1. /\ pc' \in [Commits -> {"idle", "next", "update", "delete", "done"}]
          /\ merged' \in [Commits -> SUBSET Streams] /\ cur' \in [Commits -> Channels \cup {Nobody}]
      BY <2>1, <2>2, <2>4 DEF ApplyInv, ApplyTyped, ApplyTypeOK
    <3>2. ApplyTypeOK'
      BY <1>1, <2>1, <3>1 DEF ApplyInv, ApplyTyped, ApplyTypeOK, chanVars, budget
    <3>. QED
      BY <1>1, <3>2 DEF ApplyInv, ApplyTyped
  <2>10. AtWork(c)'
    BY <1>1, <1>2, <2>8 DEF ApplyInv, AtWork
  <2>11. \A d \in Commits \ {c} : pc'[d] = pc[d] /\ acts'[d] = acts[d] /\ plan'[d] = plan[d]
    BY <1>1, <2>1 DEF ApplyInv, ApplyTyped, ApplyTypeOK
  <2>12. Clean => Kept' = AllStreams
    BY <2>8 DEF ApplyInv, Kept
  <2>13. Clean => MergeHolds(c)'
    <3>1. Untouched(c)' \subseteq Untouched(c)
      BY <1>1, <2>2, <2>8 DEF Untouched
    <3>2. Clean /\ plan[c] # NoPlan => Fresh(plan[c], acts[c], Untouched(c), streams, alive)
      BY <1>2 DEF ApplyInv, MergeHolds
    <3>3. Clean /\ plan'[c] # NoPlan => Fresh(plan'[c], acts'[c], Untouched(c)', streams', alive')
      BY <2>8, <3>1, <3>2 DEF Fresh
    <3>. QED
      BY <2>2, <2>5, <2>6, <2>7, <2>8, <3>3 DEF MergeHolds
  <2>. QED
    BY <1>1, <1>2, <2>2, <2>3, <2>8, <2>9, <2>10, <2>11, <2>12, <2>13, StepOf DEF budget
<1>. QED
  BY <1>3, <1>4

(* What a clean state says of the merge in progress and of the other rows. *)
LEMMA InMerge ==
  ASSUME ApplyInv, NEW c \in Commits, pc[c] \in {"update", "delete"},
         NEW s, s = cur[c], NEW t, t = acts[c][s]
  PROVE  /\ Running(c) /\ lock = c /\ s \in todo[c] /\ s \in DOMAIN acts[c] /\ s \in Channels
         /\ t \in Channels /\ t # s
         /\ Clean /\ plan[c] # NoPlan =>
              \A y \in Untouched(c) : acts[c][y] \in Channels => {y, acts[c][y]} \cap {s, t} = {}
<1>1. Running(c) /\ lock = c /\ s \in todo[c] /\ t \in Channels /\ todo[c] \subseteq DOMAIN acts[c]
  BY DEF ApplyInv, AtWork, Running
<1>2. s \in DOMAIN acts[c] /\ s \in Channels /\ t # s
  BY <1>1 DEF ApplyInv, ApplyTyped, ApplyTypeOK
<1>3. ASSUME Clean, plan[c] # NoPlan, NEW y \in Untouched(c), acts[c][y] \in Channels
      PROVE  {y, acts[c][y]} \cap {s, t} = {}
  <2>1. Apart(acts[c])
    BY <1>3 DEF Clean
  <2>2. y \in DOMAIN acts[c] /\ y # s
    BY <1>1 DEF Untouched
  <2>. QED
    BY <1>1, <1>2, <1>3, <2>1, <2>2 DEF Apart
<1>. QED
  BY <1>1, <1>2, <1>3

(* Source and target are both there when the target is written.            *)
LEMMA Written ==
  ASSUME ApplyInv, NEW c \in Commits, pc[c] = "update",
         NEW s, s = cur[c], NEW t, t = acts[c][s],
         t \in alive, streams' = [streams EXCEPT ![t] = merged[c]], alive' = alive
  PROVE  /\ streams' \in [Channels -> SUBSET Streams]
         /\ Clean => /\ Kept' = AllStreams
                     /\ streams'[s] \subseteq streams'[t]
         /\ Clean /\ plan[c] # NoPlan => Fresh(plan[c], acts[c], Untouched(c), streams', alive')
<1>1. s \in Channels /\ t \in Channels /\ t # s /\ Running(c)
  BY InMerge
<1>2. streams' \in [Channels -> SUBSET Streams]
  BY <1>1 DEF ApplyInv, ApplyTyped, ApplyTypeOK
<1>3. \A x \in Channels : streams'[x] = IF x = t THEN merged[c] ELSE streams[x]
  BY DEF ApplyInv, ApplyTyped, ApplyTypeOK
<1>4. ASSUME Clean
      PROVE  Kept' = AllStreams /\ streams'[s] \subseteq streams'[t]
  <2>1. s \in alive /\ t \in alive /\ merged[c] = streams[t] \cup streams[s]
    BY <1>4 DEF ApplyInv, MergeHolds
  <2>2. alive \subseteq Channels /\ Kept = AllStreams
    BY <1>4 DEF ApplyInv, ApplyTyped, ApplyTypeOK
  <2>3. Kept' \subseteq Kept
    BY <1>3, <2>1, <2>2 DEF Kept
  <2>4. Kept \subseteq Kept'
    BY <1>3, <2>1, <2>2 DEF Kept
  <2>. QED
    BY <1>1, <1>3, <2>1, <2>2, <2>3, <2>4
<1>5. ASSUME Clean, plan[c] # NoPlan
      PROVE  Fresh(plan[c], acts[c], Untouched(c), streams', alive')
  <2>1. Fresh(plan[c], acts[c], Untouched(c), streams, alive)
    BY <1>1, <1>5 DEF ApplyInv, MergeHolds
  <2>2. \A y \in Untouched(c) : acts[c][y] \in Channels => y # t /\ acts[c][y] # t
    BY <1>5, InMerge
  <2>3. Untouched(c) \subseteq Channels
    BY DEF ApplyInv, ApplyTyped, ApplyTypeOK, Untouched
  <2>. QED
    BY <1>3, <2>1, <2>2, <2>3 DEF Fresh
<1>. QED
  BY <1>2, <1>4, <1>5

LEMMA UpdateKeeps ==
  ASSUME ApplyInv, NEW c \in Commits, UpdateTarget(c)
  PROVE  ApplyInv'
<1>. DEFINE s == cur[c]
            t == acts[c][s]
<1>1. pc[c] = "update" /\ UNCHANGED <<name, alive, plan, acts, diff, merged, lock>>
  BY DEF UpdateTarget
<1>2. /\ Running(c) /\ lock = c /\ s \in todo[c] /\ s \in DOMAIN acts[c] /\ s \in Channels
      /\ t \in Channels /\ t # s
  BY <1>1, InMerge
<1>3. name' \in [Channels -> Names] /\ alive' \subseteq Channels
      /\ streams \in [Channels -> SUBSET Streams]
  BY <1>1 DEF ApplyInv, ApplyTyped, ApplyTypeOK
<1>4. CASE /\ t \in alive /\ streams' = [streams EXCEPT ![t] = merged[c]]
           /\ pc' = [pc EXCEPT ![c] = "delete"] /\ UNCHANGED <<budget, todo, cur>>
  <2>1. /\ streams' \in [Channels -> SUBSET Streams]
        /\ Clean => Kept' = AllStreams /\ streams'[s] \subseteq streams'[t]
        /\ Clean /\ plan[c] # NoPlan => Fresh(plan[c], acts[c], Untouched(c), streams', alive')
    BY <1>1, <1>4, Written
  <2>2. pc'[c] = "delete" /\ cur'[c] = s /\ todo'[c] = todo[c] /\ acts'[c] = acts[c] /\ plan'[c] = plan[c]
    BY <1>1, <1>4 DEF ApplyInv, ApplyTyped, ApplyTypeOK
  <2>3. ApplyTyped'
    <3>1. pc' \in [Commits -> {"idle", "next", "update", "delete", "done"}]
      BY <1>4 DEF ApplyInv, ApplyTyped, ApplyTypeOK
    <3>2. ApplyTypeOK'
      BY <1>1, <1>3, <1>4, <2>1, <3>1 DEF ApplyInv, ApplyTyped, ApplyTypeOK, budget
    <3>. QED
      BY <1>1, <3>2 DEF ApplyInv, ApplyTyped
  <2>4. AtWork(c)'
    BY <1>1, <1>2, <2>2 DEF ApplyInv, AtWork
  <2>5. \A d \in Commits \ {c} : pc'[d] = pc[d] /\ acts'[d] = acts[d] /\ plan'[d] = plan[d]
    BY <1>1, <1>4 DEF ApplyInv, ApplyTyped, ApplyTypeOK
  <2>6. plan'[c] # NoPlan => Prepared(plan'[c], acts'[c])
    BY <1>1, <2>2 DEF ApplyInv, PlansMade
  <2>7. Untouched(c)' = Untouched(c)
    BY <1>1, <2>2 DEF Untouched
  <2>8. Clean => MergeHolds(c)'
    <3>1. alive' = alive /\ t \in alive
      BY <1>1, <1>4
    <3>. HIDE DEF s, t
    <3>2. acts'[c][cur'[c]] = t
      BY <2>2 DEF s, t
    <3>. QED
      BY <2>1, <2>2, <2>7, <3>1, <3>2 DEF MergeHolds
  <2>. QED
    BY <1>2, <1>4, <2>1, <2>2, <2>3, <2>4, <2>5, <2>6, <2>8, StepOf DEF budget
<1>5. CASE /\ RowDone(c, s) /\ pc' = [pc EXCEPT ![c] = "next"]
           /\ \/ t \in alive /\ streams' = [streams EXCEPT ![t] = merged[c]] /\ CallFails
              \/ CallFails /\ UNCHANGED streams
              \/ t \notin alive /\ UNCHANGED <<streams, budget>>
  <2>1. failures' \in 0 .. MaxFailures /\ edits' = edits
    BY <1>5, FaultTyped
  <2>2. CASE UNCHANGED streams
    BY <1>1, <1>2, <1>3, <1>5, <2>1, <2>2, RowEndsQuietly
  <2>3. CASE t \in alive /\ streams' = [streams EXCEPT ![t] = merged[c]]
    <3>1. /\ streams' \in [Channels -> SUBSET Streams]
          /\ Clean => Kept' = AllStreams
          /\ Clean /\ plan[c] # NoPlan => Fresh(plan[c], acts[c], Untouched(c), streams', alive')
      BY <1>1, <2>3, Written
    <3>2. Clean /\ plan[c] # NoPlan => Fresh(plan[c], acts[c], Untouched(c) \ {s}, streams', alive')
      BY <3>1 DEF Fresh
    <3>. QED
      BY <1>1, <1>2, <1>3, <1>5, <2>1, <3>1, <3>2, RowEnds
  <2>. QED
    BY <1>5, <2>2, <2>3
<1>. QED
  BY <1>4, <1>5 DEF UpdateTarget

(* The source goes when the target holds all of it.                        *)
LEMMA DeleteKeeps ==
  ASSUME ApplyInv, NEW c \in Commits, DeleteSource(c)
  PROVE  ApplyInv'
<1>. DEFINE s == cur[c]
            t == acts[c][s]
<1>1. /\ pc[c] = "delete" /\ RowDone(c, s) /\ pc' = [pc EXCEPT ![c] = "next"]
      /\ UNCHANGED <<name, streams, plan, acts, diff, merged, lock>>
  BY DEF DeleteSource
<1>2. (alive' = alive \/ alive' = alive \ {s}) /\ (CallFails \/ UNCHANGED budget)
  BY DEF DeleteSource
<1>3. /\ Running(c) /\ s \in Channels /\ t \in Channels /\ t # s
      /\ Clean /\ plan[c] # NoPlan =>
           \A y \in Untouched(c) : acts[c][y] \in Channels => {y, acts[c][y]} \cap {s, t} = {}
  BY <1>1, InMerge
<1>4. name' \in [Channels -> Names] /\ streams' \in [Channels -> SUBSET Streams] /\ alive' \subseteq Channels
  BY <1>1, <1>2 DEF ApplyInv, ApplyTyped, ApplyTypeOK
<1>5. Clean => Kept' = AllStreams
  <2>. SUFFICES ASSUME Clean PROVE Kept' = Kept
    BY DEF ApplyInv
  <2>1. t \in alive /\ streams[s] \subseteq streams[t]
    BY <1>1 DEF ApplyInv, MergeHolds
  <2>2. t \in alive' /\ alive' \subseteq alive /\ alive \subseteq alive' \cup {s}
    BY <1>2, <1>3, <2>1
  <2>. QED
    BY <1>1, <2>1, <2>2 DEF Kept
<1>6. ASSUME Clean, plan[c] # NoPlan
      PROVE  Fresh(plan[c], acts[c], Untouched(c) \ {s}, streams', alive')
  <2>1. Fresh(plan[c], acts[c], Untouched(c), streams, alive)
    BY <1>3, <1>6 DEF ApplyInv, MergeHolds
  <2>2. \A y \in Untouched(c) : acts[c][y] \in Channels => y # s /\ acts[c][y] # s
    BY <1>3, <1>6
  <2>. QED
    BY <1>1, <1>2, <2>1, <2>2 DEF Fresh
<1>. QED
  BY <1>1, <1>2, <1>3, <1>4, <1>5, <1>6, FaultTyped, RowEnds

LEMMA FinishKeeps ==
  ASSUME ApplyInv, NEW c \in Commits, Finish(c)
  PROVE  ApplyInv'
<1>1. /\ pc[c] = "next" /\ pc' = [pc EXCEPT ![c] = "done"] /\ lock' = Nobody
      /\ diff' = [diff EXCEPT ![c] = NoDiff] /\ merged' = [merged EXCEPT ![c] = {}]
      /\ UNCHANGED <<chanVars, todo, cur, budget>>
  BY DEF Finish
<1>2. DOMAIN NoDiff = {} /\ NoPlan # Spent
  <2>1. NoPlan.planned = FALSE /\ Spent.planned = TRUE
    BY Zenon DEF NoPlan, Spent
  <2>. QED
    BY <2>1 DEF NoDiff
<1>3. /\ DOMAIN acts' = Commits /\ DOMAIN plan' = Commits
      /\ \A d \in Commits \ {c} : acts'[d] = acts[d] /\ plan'[d] = plan[d]
      /\ \/ plan[c] = NoPlan /\ acts'[c] = NoDiff
         \/ plan[c] # NoPlan /\ plan'[c] = Spent /\ acts'[c] = acts[c]
  BY DEF Finish, ApplyInv, ApplyTyped
<1>4. pc'[c] = "done" /\ \A d \in Commits \ {c} : pc'[d] = pc[d]
  BY <1>1 DEF ApplyInv, ApplyTyped, ApplyTypeOK
<1>5. DOMAIN diff' = Commits /\ \A d \in Commits : diff'[d] = IF d = c THEN NoDiff ELSE diff[d]
  BY <1>1 DEF ApplyInv, ApplyTyped
<1>6. ApplyTyped'
  <2>1. \A d \in Commits : DOMAIN acts'[d] \subseteq DOMAIN acts[d]
                           /\ \A ch \in DOMAIN acts'[d] : acts'[d][ch] = acts[d][ch]
    BY <1>2, <1>3
  <2>2. /\ pc' \in [Commits -> {"idle", "next", "update", "delete", "done"}]
        /\ merged' \in [Commits -> SUBSET Streams]
    BY <1>1 DEF ApplyInv, ApplyTyped, ApplyTypeOK
  <2>3. ApplyTypeOK'
    BY <1>1, <1>2, <1>5, <2>1, <2>2 DEF ApplyInv, ApplyTyped, ApplyTypeOK, chanVars, budget
  <2>. QED
    BY <1>2, <1>3, <1>5, <2>1, <2>3 DEF ApplyInv, ApplyTyped
<1>7. AtWork(c)' /\ MergeHolds(c)'
  BY <1>4 DEF AtWork, MergeHolds, Running
<1>8. Clean => Kept' = AllStreams
  BY <1>1 DEF ApplyInv, Kept, chanVars
<1>9. Running(c)
  BY <1>1 DEF Running
<1>. QED
  BY <1>1, <1>2, <1>3, <1>4, <1>6, <1>7, <1>8, <1>9, StepOf DEF budget

LEMMA EditKeeps ==
  ASSUME ApplyInv, NEW ch \in Channels, OutsideEdit(ch)
  PROVE  ApplyInv'
<1>1. edits \in 0 .. MaxEdits /\ edits < MaxEdits /\ edits' = edits + 1 /\ MaxEdits \in Nat
      /\ UNCHANGED <<alive, runVars, failures>>
  BY NormalizeAssumption DEF OutsideEdit, ApplyInv, ApplyTyped, ApplyTypeOK
<1>2. ~Clean' /\ edits' \in 0 .. MaxEdits
  BY <1>1 DEF Clean
<1>3. name' \in [Channels -> Names] /\ streams' \in [Channels -> SUBSET Streams]
  <2>1. name \in [Channels -> Names] /\ streams \in [Channels -> SUBSET Streams]
    BY DEF ApplyInv, ApplyTyped, ApplyTypeOK
  <2>2. CASE \E s \in Streams : streams' = [streams EXCEPT ![ch] = {s}] /\ UNCHANGED name
    <3>1. PICK s \in Streams : streams' = [streams EXCEPT ![ch] = {s}] /\ UNCHANGED name
      BY <2>2
    <3>2. {s} \in SUBSET Streams
      OBVIOUS
    <3>. QED
      BY <2>1, <3>1, <3>2
  <2>3. CASE \E n \in Names : name' = [name EXCEPT ![ch] = n] /\ UNCHANGED streams
    BY <2>1, <2>3
  <2>. QED
    BY <2>2, <2>3 DEF OutsideEdit
<1>4. ApplyTyped'
  BY <1>1, <1>2, <1>3 DEF ApplyInv, ApplyTyped, ApplyTypeOK, runVars
<1>5. PlansMade' /\ \A c \in Commits : AtWork(c)'
  BY <1>1 DEF ApplyInv, PlansMade, AtWork, Running, runVars
<1>. QED
  BY <1>2, <1>4, <1>5 DEF ApplyInv

LEMMA StutterKeeps ==
  ASSUME ApplyInv, UNCHANGED applyVars
  PROVE  ApplyInv'
<1>1. ApplyTyped'
  BY DEF ApplyInv, ApplyTyped, ApplyTypeOK, applyVars
<1>2. PlansMade' /\ \A c \in Commits : AtWork(c)'
  BY DEF ApplyInv, PlansMade, AtWork, Running, applyVars
<1>3. Kept' = Kept /\ AllStreams' = AllStreams /\ Clean' = Clean
  BY DEF Kept, AllStreams, Clean, applyVars
<1>4. \A c \in Commits : MergeHolds(c) => MergeHolds(c)'
  BY DEF MergeHolds, Running, Untouched, applyVars
<1>. QED
  BY <1>1, <1>2, <1>3, <1>4 DEF ApplyInv

LEMMA InvNext == ApplyInv /\ [ApplyNext]_applyVars => ApplyInv'
<1>. SUFFICES ASSUME ApplyInv, [ApplyNext]_applyVars PROVE ApplyInv'
  OBVIOUS
<1>1. ASSUME NEW c \in Commits,
             \/ PrepareApply(c) \/ Execute(c) \/ RefuseDrifted(c)
             \/ UpdateTarget(c) \/ DeleteSource(c) \/ Finish(c)
      PROVE  ApplyInv'
  BY <1>1, PrepareApplyKeeps, ExecuteKeeps, RefuseKeeps, UpdateKeeps, DeleteKeeps, FinishKeeps
<1>2. ASSUME NEW c \in Commits, NEW ch \in Channels,
             Skip(c, ch) \/ Rename(c, ch) \/ Merge(c, ch) \/ MergeUnread(c, ch)
      PROVE  ApplyInv'
  BY <1>2, RowKeeps, MergeKeeps
<1>. QED
  BY <1>1, <1>2, EditKeeps, StutterKeeps DEF ApplyNext

LEMMA ApplyInvSafe == ApplyInv => AppliesKeepStreams
<1>. SUFFICES ASSUME ApplyInv PROVE AppliesKeepStreams
  OBVIOUS
<1>1. ApplyTypeOK
  BY DEF ApplyInv, ApplyTyped
<1>2. OneApplyAtATime
  BY DEF ApplyInv, OneApplyAtATime, AtWork, Running
<1>3. SeparateMergesKeepStreams
  BY DEF ApplyInv, SeparateMergesKeepStreams, Clean
<1>. QED
  BY <1>1, <1>2, <1>3 DEF AppliesKeepStreams

(* Bulk applies exclude each other and lose no stream, for any rules and   *)
(* any number of channels and requests: whatever calls fail or are carried *)
(* out and answer an error, every stream is still on a channel, of direct  *)
(* requests and of plans whose merges share no channel, while nobody else  *)
(* edits.                                                                  *)
THEOREM AppliesCorrect == ApplySpec => []AppliesKeepStreams
<1>1. ApplyInit => ApplyInv
  BY InvInit
<1>2. ApplyInv /\ [ApplyNext]_applyVars => ApplyInv'
  BY InvNext
<1>3. ApplyInv => AppliesKeepStreams
  BY ApplyInvSafe
<1>. QED
  BY <1>1, <1>2, <1>3, PTL DEF ApplySpec

(* A planned commit that starts finds the channels its merges will write   *)
(* over or delete with the streams the plan froze: the revalidation under  *)
(* the execute lock leaves no edit of others to be overwritten unseen.     *)
THEOREM FrozenCorrect == ApplySpec => StartsOnFrozen
<1>. DEFINE Starts == \A c \in Commits : pc[c] = "idle" /\ pc'[c] = "next" /\ plan[c] # NoPlan =>
                        \A ch \in DOMAIN plan[c].pre : plan[c].pre[ch].s = streams[ch]
<1>1. ApplyInit => ApplyInv
  BY InvInit
<1>2. ApplyInv /\ [ApplyNext]_applyVars => ApplyInv'
  BY InvNext
<1>3. ApplyInv /\ [ApplyNext]_applyVars => [Starts]_applyVars
  <2>. SUFFICES ASSUME ApplyInv, ApplyNext, NEW c \in Commits,
                       pc[c] = "idle", pc'[c] = "next", plan[c] # NoPlan,
                       NEW ch \in DOMAIN plan[c].pre
                PROVE  plan[c].pre[ch].s = streams[ch]
    OBVIOUS
  <2>1. pc \in [Commits -> {"idle", "next", "update", "delete", "done"}]
    BY DEF ApplyInv, ApplyTyped, ApplyTypeOK
  <2>2. Execute(c)
    <3>1. \A d \in Commits : UpdateTarget(d) \/ DeleteSource(d) \/ Finish(d) \/ PrepareApply(d) \/ RefuseDrifted(d)
                             => pc'[c] # "next" \/ pc[c] # "idle"
      BY <2>1 DEF UpdateTarget, DeleteSource, Finish, PrepareApply, RefuseDrifted
    <3>2. \A d \in Commits, x \in Channels :
            Skip(d, x) \/ Rename(d, x) \/ Merge(d, x) \/ MergeUnread(d, x) => pc'[c] # "next" \/ pc[c] # "idle"
      BY <2>1 DEF Skip, Rename, Merge, MergeUnread
    <3>3. \A x \in Channels : OutsideEdit(x) => pc'[c] # "next" \/ pc[c] # "idle"
      BY DEF OutsideEdit, runVars
    <3>4. \A d \in Commits : Execute(d) => d = c
      BY <2>1 DEF Execute
    <3>. QED
      BY <3>1, <3>2, <3>3, <3>4 DEF ApplyNext
  <2>3. PlanHolds(c)
    BY <2>2 DEF Execute
  <2>4. plan[c].pre[ch] = [n |-> name[ch], s |-> streams[ch]]
    BY <2>3 DEF PlanHolds
  <2>. QED
    BY <2>4
<1>. QED
  BY <1>1, <1>2, <1>3, PTL DEF ApplySpec, StartsOnFrozen

-----------------------------------------------------------------------------
(* Jobs of a bulk commit.                                                  *)

JobsTyped ==
  /\ job \in [Jobs -> {"none", "running", "completed", "failed"}]
  /\ task \in [Jobs -> {"none", "running", "completed", "failed", "dead"}]
  /\ client \in [Jobs -> {"idle", "polling", "completed", "failed", "not found",
                          "network error"}]
  /\ restarts \in Nat

(* The table says of a job what its run does; it may have dropped a        *)
(* running one only by age.                                                *)
JobListed(j) ==
  /\ client[j] = "idle" => task[j] = "none" /\ job[j] = "none"
  /\ job[j] # "none" => job[j] = task[j]
  /\ task[j] = "running" => job[j] = "running" \/ j \in old

(* The inductive invariant.                                                *)
JobsInv == JobsTyped /\ JobsAnswer /\ \A j \in Jobs : JobListed(j)

LEMMA JobsStart == JobsInit => JobsInv
  BY DEF JobsInit, JobsInv, JobsTyped, JobsAnswer, AnswerIsTrue, ResultIsHeld, JobListed

LEMMA PostKeeps ==
  ASSUME JobsInv, NEW j \in Jobs, Post(j)
  PROVE  JobsInv'
<1>1. JobsTyped'
  BY DEF Post, PrunedJobs, JobsInv, JobsTyped
<1>2. /\ job'[j] = "running" /\ task'[j] = "running" /\ client'[j] = "polling"
      /\ \A i \in Jobs \ {j} : /\ job'[i] = IF i \in old THEN "none" ELSE job[i]
                               /\ task'[i] = task[i] /\ client'[i] = client[i]
      /\ old' = old /\ restarts' = restarts
  BY DEF Post, PrunedJobs, JobsInv, JobsTyped
<1>3. \A i \in Jobs : JobListed(i)'
  BY <1>2 DEF JobListed, JobsInv
<1>4. JobsAnswer'
  BY <1>2 DEF JobsAnswer, AnswerIsTrue, ResultIsHeld, JobsInv
<1>. QED
  BY <1>1, <1>3, <1>4 DEF JobsInv

LEMMA RunEndsKeeps ==
  ASSUME JobsInv, NEW j \in Jobs, RunEnds(j)
  PROVE  JobsInv'
<1>1. PICK end \in {"completed", "failed"} :
        /\ task' = [task EXCEPT ![j] = end]
        /\ job' = [job EXCEPT ![j] = IF @ = "none" THEN @ ELSE end]
  BY DEF RunEnds
<1>2. JobsTyped'
  BY <1>1 DEF RunEnds, JobsInv, JobsTyped
<1>3. /\ task[j] = "running" /\ task'[j] = end
      /\ job'[j] = IF job[j] = "none" THEN "none" ELSE end
      /\ \A i \in Jobs \ {j} : job'[i] = job[i] /\ task'[i] = task[i]
      /\ old' = old /\ client' = client /\ restarts' = restarts
  BY <1>1 DEF RunEnds, JobsInv, JobsTyped
<1>4. \A i \in Jobs : JobListed(i)'
  BY <1>3 DEF JobListed, JobsInv
<1>5. JobsAnswer'
  BY <1>3 DEF JobsAnswer, AnswerIsTrue, ResultIsHeld, JobListed, JobsInv
<1>. QED
  BY <1>2, <1>4, <1>5 DEF JobsInv

LEMMA PollKeeps ==
  ASSUME JobsInv, NEW j \in Jobs, Poll(j)
  PROVE  JobsInv'
<1>. DEFINE answer == CASE job[j] = "none" -> "not found"
                        [] job[j] = "running" -> "polling"
                        [] OTHER -> job[j]
<1>1. /\ client[j] = "polling" /\ task' = task /\ old' = old /\ restarts' = restarts
      /\ job' = [job EXCEPT ![j] = IF @ = "completed" THEN "none" ELSE @]
      /\ \E ans \in {"network error", answer} : client' = [client EXCEPT ![j] = ans]
  BY DEF Poll, Evicted
<1>2. PICK ans \in {"network error", answer} : client' = [client EXCEPT ![j] = ans]
  BY <1>1
<1>3. /\ ans \in {"network error", "not found", "polling", "completed", "failed"}
      /\ ans = "not found" => job[j] = "none"
      /\ ans = "polling" => job[j] = "running"
      /\ ans \in {"completed", "failed"} => job[j] = ans
  BY DEF JobsInv, JobsTyped
<1>. HIDE DEF answer
<1>4. JobsTyped'
  BY <1>1, <1>2, <1>3 DEF JobsInv, JobsTyped
<1>5. /\ client'[j] = ans /\ job'[j] = IF job[j] = "completed" THEN "none" ELSE job[j]
      /\ \A i \in Jobs \ {j} : job'[i] = job[i] /\ client'[i] = client[i]
  BY <1>1, <1>2 DEF JobsInv, JobsTyped
<1>6. \A i \in Jobs : JobListed(i)'
  BY <1>1, <1>3, <1>5 DEF JobListed, JobsInv
<1>7. JobsAnswer'
  BY <1>1, <1>3, <1>5 DEF JobsAnswer, AnswerIsTrue, ResultIsHeld, JobListed, JobsInv
<1>. QED
  BY <1>4, <1>6, <1>7 DEF JobsInv

LEMMA JobsStep == JobsInv /\ [JobsNext]_jobVars => JobsInv'
<1>. SUFFICES ASSUME JobsInv, [JobsNext]_jobVars PROVE JobsInv'
  OBVIOUS
<1>1. CASE \E j \in Jobs : JobExpires(j)
  BY <1>1 DEF JobExpires, JobsInv, JobsTyped, JobListed, JobsAnswer, AnswerIsTrue, ResultIsHeld
<1>2. CASE Restart
  <2>0. /\ job' = [j \in Jobs |-> "none"] /\ restarts' = restarts + 1
        /\ task' = [j \in Jobs |-> IF task[j] = "running" THEN "dead" ELSE task[j]]
        /\ old' = old /\ client' = client
    BY <1>2, Zenon DEF Restart
  <2>1. /\ restarts' \in Nat /\ restarts' # 0
        /\ client' \in [Jobs -> {"idle", "polling", "completed", "failed", "not found",
                                 "network error"}]
    <3>1. restarts' = restarts + 1 /\ client' = client
      BY <2>0
    <3>2. restarts \in Nat
      BY DEF JobsInv, JobsTyped
    <3>3. restarts' \in Nat /\ restarts' # 0
      BY <3>1, <3>2
    <3>. QED
      BY <3>1, <3>3 DEF JobsInv, JobsTyped
  <2>2. \A j \in Jobs : task[j] \in {"none", "running", "completed", "failed", "dead"}
    BY DEF JobsInv, JobsTyped
  <2>3. task' \in [Jobs -> {"none", "running", "completed", "failed", "dead"}]
    BY <2>0, <2>2
  <2>4. job' \in [Jobs -> {"none", "running", "completed", "failed"}]
    BY <2>0
  <2>5. \A j \in Jobs : /\ job'[j] = "none"
                        /\ task'[j] = IF task[j] = "running" THEN "dead" ELSE task[j]
    BY <2>0
  <2>6. JobsTyped'
    BY <2>1, <2>3, <2>4 DEF JobsTyped
  <2>. QED
    BY <2>0, <2>1, <2>2, <2>5, <2>6
       DEF JobsInv, JobListed, JobsAnswer, AnswerIsTrue, ResultIsHeld
<1>3. CASE UNCHANGED jobVars
  BY <1>3 DEF jobVars, JobsInv, JobsTyped, JobListed, JobsAnswer, AnswerIsTrue, ResultIsHeld
<1>. QED
  BY <1>1, <1>2, <1>3, PostKeeps, RunEndsKeeps, PollKeeps DEF JobsNext

(***************************************************************************)
(* A client that polls its bulk commit is told what the run did, and only  *)
(* after the run ended, and a result it has not read is held: over any     *)
(* number of jobs, restarts and prunes of the job table, within the TTL    *)
(* (get_bulk_commit_status, _prune_old_bulk_commit_jobs).                  *)
(***************************************************************************)
THEOREM JobsCorrect == JobsSpec => []JobsAnswer
<1>1. JobsInit => JobsInv
  BY JobsStart
<1>2. JobsInv /\ [JobsNext]_jobVars => JobsInv'
  BY JobsStep
<1>3. JobsInv => JobsAnswer
  BY DEF JobsInv
<1>. QED
  BY <1>1, <1>2, <1>3, PTL DEF JobsSpec

-----------------------------------------------------------------------------
(* Bulk commits.                                                           *)

(* What every record of a run holds.                                       *)
CommitShape ==
  /\ DOMAIN up = {"num", "group", "streams", "groups"}
  /\ DOMAIN run = {"pc", "cur", "todo", "temp", "mapped", "streams", "moves", "steps",
                   "start", "resolved"}
  /\ {"applied", "failed", "side"} \subseteq DOMAIN led
  /\ DOMAIN comp = {"landed", "count", "failed"}
  /\ DOMAIN out = {"outcome", "journal", "recovery"}
  /\ {"landed", "acked", "moot", "overwrote", "touched", "doubled", "before"}
        \subseteq DOMAIN ghost
  /\ others \in Nat

(* How far a run is, and what it has not done yet.                         *)
CommitPhases ==
  /\ run.pc \in {"submit", "lineup"} => /\ run.resolved = FALSE
                                        /\ DOMAIN up.num = DOMAIN World.num
  /\ run.pc \in {"submit", "lineup", "groups"} => /\ comp.failed = FALSE
                                                  /\ led.failed = {}
                                                  /\ DOMAIN comp.landed = {}
  /\ run.pc \notin {"compensate", "done"} => run.steps = {}
  /\ Finished => run.pc = "done" /\ run.steps = {}
  /\ DOMAIN ghost.before \subseteq DOMAIN World.num

(* The operation a run is in the middle of is one that takes that step, and *)
(* a numbering edit on its way to Dispatcharr has passed its claim.         *)
OpenOperation ==
  /\ run.pc = "read" => Op.type \in StreamTypes
  /\ run.pc \in {"scan", "move"} => Op.type = "deleteChannelGroup"
  /\ run.pc = "logo" => Op.type = "createChannel"
  /\ run.pc = "write" /\ Op.type = "updateChannel" => ~ClaimFails(Op)

(* A numbering operation that failed is on the compensator's mind.         *)
FailureNoted == (\E i \in led.failed : NumberingOp(Ops[i])) => comp.failed = TRUE

(* The compensator holds channels the run renumbered, and its steps undo   *)
(* what it holds.                                                          *)
CompensatorOwn ==
  /\ DOMAIN comp.landed \subseteq ghost.touched
  /\ \A s \in run.steps :
        /\ s.channelId \in DOMAIN comp.landed
        /\ s = [channelId |-> s.channelId, before |-> comp.landed[s.channelId].after,
                after |-> comp.landed[s.channelId].before]

(* A channel the run has not renumbered is where its lineup says.          *)
UntouchedStand ==
  env.earlyOnly /\ run.resolved =>
    \A c \in DOMAIN up.num \ ghost.touched : c \in DOMAIN run.start /\ up.num[c] = run.start[c]

Old == DOMAIN ghost.before \cap DOMAIN up.num

(* What a run alone believes of a channel is so.                           *)
Believed ==
  \A c \in Old : c \in DOMAIN known /\ "num" \in DOMAIN known[c] /\ known[c].num = up.num[c]

(* What the compensator holds of a channel is where it was and where it is.*)
Held ==
  \A c \in Old :
    /\ c \notin DOMAIN comp.landed => up.num[c] = ghost.before[c]
    /\ c \in DOMAIN comp.landed =>
         /\ comp.landed[c].before = ghost.before[c]
         /\ run.pc \notin {"compensate", "flush", "done"} => comp.landed[c].after = up.num[c]

(* Once a failed run compensates, each channel is back, listed, or still   *)
(* has its step to come.                                                   *)
BackOrToCome ==
  comp.failed = TRUE /\ (run.pc \in {"compensate", "flush"} \/ Finished) =>
    \A c \in Old :
      \/ PutBack(c)
      \/ \E s \in run.steps :
           s.channelId = c /\ s.before = up.num[c] /\ s.after = ghost.before[c]

WhenAlone == Alone /\ ~ghost.doubled => Believed /\ Held /\ BackOrToCome

(* The inductive invariant.                                                *)
CommitInv ==
  /\ CommitShape /\ CommitPhases /\ OpenOperation /\ FailureNoted /\ CompensatorOwn
  /\ UntouchedStand /\ (env.earlyOnly => NoBlindOverwrite) /\ WhenAlone

---------------------------------------------------------------------------
LEMMA CommitStart == CommitInit => CommitInv
<1>. SUFFICES ASSUME CommitInit PROVE CommitInv
  OBVIOUS
<1>1. CommitShape /\ CommitPhases
  BY BulkAssumption DEF CommitInit, CommitShape, CommitPhases, NoRun, NoLedger, Finished
<1>2. OpenOperation /\ FailureNoted /\ CompensatorOwn
  BY DEF CommitInit, OpenOperation, FailureNoted, CompensatorOwn, NoRun, NoLedger
<1>3. UntouchedStand /\ (env.earlyOnly => NoBlindOverwrite) /\ WhenAlone
  BY DEF CommitInit, UntouchedStand, NoBlindOverwrite, WhenAlone, Alone, NoRun
<1>. QED
  BY <1>1, <1>2, <1>3 DEF CommitInv

---------------------------------------------------------------------------
(* What a call may answer.                                                 *)
LEMMA AnswerCases ==
  ASSUME NEW accepted, NEW world, NEW a \in Answers(accepted, world)
  PROVE  /\ a[1] \in {"ok", "refused", "lost"}
         /\ a[1] = "lost" => "lost" \in env.faults
         /\ a[1] = "refused" => a[2] = up
         /\ a[1] \in {"ok", "lost"} => accepted /\ a[2] = world
BY DEF Answers

(* A call changes numbers only where it is meant to.                       *)
LEMMA AppliedNumbers ==
  ASSUME CommitShape, NEW op, Accepts(up, op)
  PROVE  /\ DOMAIN Applied(up, op) = DOMAIN up
         /\ \A c \in DOMAIN Applied(up, op).num \ Touches(op) :
              c \in DOMAIN up.num /\ Applied(up, op).num[c] = up.num[c]
         /\ \A c \in DOMAIN Applied(up, op).num :
              c \in DOMAIN up.num \/ (op.type = "createChannel" /\ c = NewId(op.tempId))
<1>. DEFINE u == Applied(up, op)
<1>1. CASE op.type = "updateChannel"
  <2>. DEFINE c == Resolve(op.channelId)
  <2>1. u = [up EXCEPT !.num[c] = IF SetsNumber(op) THEN op.data.num ELSE @,
                       !.group[c] = IF "group" \in DOMAIN op.data THEN op.data.group ELSE @]
    BY <1>1 DEF Applied, StreamTypes
  <2>2. SetsNumber(op) => Touches(op) = {c}
    BY DEF Touches, SetsNumber
  <2>. HIDE DEF c
  <2>3. DOMAIN u = DOMAIN up /\ DOMAIN u.num = DOMAIN up.num
    BY <2>1 DEF CommitShape
  <2>4. \A d \in DOMAIN up.num : d # c => u.num[d] = up.num[d]
    BY <2>1 DEF CommitShape
  <2>5. ~SetsNumber(op) => \A d \in DOMAIN up.num : u.num[d] = up.num[d]
    BY <2>1 DEF CommitShape
  <2>. QED
    BY <1>1, <2>2, <2>3, <2>4, <2>5
<1>2. CASE op.type = "bulkAssignChannelNumbers"
  <2>1. u = [up EXCEPT !.num = [c \in DOMAIN up.num |->
                                   IF InRange(op, c) THEN RangeNumber(op, c) ELSE up.num[c]]]
    BY <1>2 DEF Applied, StreamTypes
  <2>2. Touches(op) = {Resolve(op.channelIds[k]) : k \in Positions(op.channelIds)}
    BY <1>2 DEF Touches, SetsNumber
  <2>3. \A c : InRange(op, c) => c \in Touches(op)
    BY <2>2 DEF InRange
  <2>. QED
    BY <1>2, <2>1, <2>3 DEF CommitShape
<1>3. CASE op.type = "createChannel"
  <2>1. u = [up EXCEPT !.num = Extend(@, NewId(op.tempId), CreatedNumber(op)),
                       !.group = Extend(@, NewId(op.tempId), DefaultGroup),
                       !.streams = Extend(@, NewId(op.tempId), {})]
    BY <1>3 DEF Applied, StreamTypes
  <2>2. Touches(op) = {NewId(op.tempId)}
    BY <1>3 DEF Touches, SetsNumber
  <2>. QED
    BY <1>3, <2>1, <2>2 DEF CommitShape, Extend
<1>4. CASE op.type = "deleteChannel"
  <2>. DEFINE c == Resolve(op.channelId)
  <2>1. u = [up EXCEPT !.num = Without(@, c), !.group = Without(@, c), !.streams = Without(@, c)]
    BY <1>4 DEF Applied, StreamTypes
  <2>. HIDE DEF c
  <2>. QED
    BY <1>4, <2>1 DEF CommitShape, Without
<1>5. CASE op.type \notin {"updateChannel", "bulkAssignChannelNumbers", "createChannel", "deleteChannel"}
  <2>1. DOMAIN u = DOMAIN up /\ u.num = up.num
    BY <1>5 DEF Applied, StreamTypes, CommitShape
  <2>. QED
    BY <2>1
<1>. QED
  BY <1>1, <1>2, <1>3, <1>4, <1>5

---------------------------------------------------------------------------
(* The phases between the first operation and the last, and the steps that *)
(* leave numbers alone.                                                    *)
Underway == {"next", "open", "read", "scan", "move", "logo", "local", "write"}

Quiet ==
  /\ up'.num = up.num /\ known' = known /\ env' = env /\ out' = out
  /\ comp'.landed = comp.landed
  /\ ghost'.overwrote = ghost.overwrote /\ ghost'.touched = ghost.touched
  /\ ghost'.doubled = ghost.doubled /\ ghost'.before = ghost.before
  /\ run'.start = run.start /\ run'.resolved = run.resolved /\ run'.steps = run.steps

LEMMA QuietKeeps ==
  ASSUME CommitInv, Quiet,
         run'.pc \notin {"compensate", "flush", "done"} => run.pc \notin {"compensate", "flush", "done"},
         \/ comp'.failed = FALSE
         \/ run'.pc \notin {"compensate", "flush"} /\ ~Finished'
         \/ run.pc \in {"compensate", "flush"} /\ comp'.failed = comp.failed
  PROVE  /\ CompensatorOwn' /\ UntouchedStand' /\ WhenAlone'
         /\ (env.earlyOnly => NoBlindOverwrite)'
<1>1. CompensatorOwn'
  BY DEF CommitInv, CompensatorOwn, Quiet
<1>2. UntouchedStand' /\ (env.earlyOnly => NoBlindOverwrite)'
  BY DEF CommitInv, UntouchedStand, NoBlindOverwrite, Quiet
<1>3. ASSUME Alone', ~ghost'.doubled
      PROVE  Believed' /\ Held' /\ BackOrToCome'
  <2>1. Believed /\ Held /\ BackOrToCome /\ Old' = Old
    BY <1>3 DEF CommitInv, WhenAlone, Alone, Quiet, Old
  <2>2. Believed'
    BY <2>1 DEF Believed, Quiet
  <2>3. Held'
    BY <2>1 DEF Held, Quiet
  <2>4. ASSUME comp'.failed = TRUE, run'.pc \in {"compensate", "flush"} \/ Finished'
        PROVE  BackOrToCome'
    <3>1. comp.failed = TRUE /\ run.pc \in {"compensate", "flush"}
      BY <2>4
    <3>. QED
      BY <2>1, <3>1 DEF BackOrToCome, PutBack, Quiet
  <2>. QED
    BY <2>2, <2>3, <2>4 DEF BackOrToCome
<1>. QED
  BY <1>1, <1>2, <1>3 DEF WhenAlone

LEMMA UnderwayKeeps ==
  ASSUME CommitInv, Quiet, CommitShape', OpenOperation', FailureNoted',
         run.pc \in Underway, run'.pc \in Underway
  PROVE  CommitInv'
<1>1. CommitPhases'
  BY DEF CommitInv, CommitPhases, Quiet, Underway, Finished
<1>2. ~Finished'
  BY DEF CommitInv, CommitPhases, Quiet, Underway, Finished
<1>3. /\ CompensatorOwn' /\ UntouchedStand' /\ WhenAlone'
      /\ (env.earlyOnly => NoBlindOverwrite)'
  BY <1>2, QuietKeeps DEF Underway
<1>. QED
  BY <1>1, <1>3 DEF CommitInv

(* A failing operation is noted.                                           *)
LEMMA FailsNoted ==
  ASSUME CommitInv, Fails, request' = request
  PROVE  /\ FailureNoted'
         /\ comp'.landed = comp.landed
         /\ DOMAIN led' = DOMAIN led /\ DOMAIN comp' = DOMAIN comp /\ DOMAIN run' = DOMAIN run
         /\ run'.pc = "next" /\ run'.cur = run.cur
         /\ run'.start = run.start /\ run'.resolved = run.resolved /\ run'.steps = run.steps
<1>1. /\ led'.failed = led.failed \cup {run.cur} /\ DOMAIN led' = DOMAIN led
  BY DEF CommitInv, CommitShape, Fails, FailOp
<1>2. /\ comp'.landed = comp.landed /\ DOMAIN comp' = DOMAIN comp
      /\ comp'.failed = IF NumberingOp(Op) THEN TRUE ELSE comp.failed
  BY DEF CommitInv, CommitShape, Fails, NoteFailedNumber
<1>3. /\ DOMAIN run' = DOMAIN run /\ run'.pc = "next" /\ run'.cur = run.cur
      /\ run'.start = run.start /\ run'.resolved = run.resolved /\ run'.steps = run.steps
  BY DEF CommitInv, CommitShape, Fails, AfterFailure
<1>4. FailureNoted'
  <2>1. Ops' = Ops
    BY DEF Ops
  <2>2. ASSUME NEW i \in led'.failed, NumberingOp(Ops[i])
        PROVE  comp'.failed = TRUE
    BY <2>2, <1>1, <1>2 DEF CommitInv, FailureNoted, Op
  <2>. QED
    BY <2>1, <2>2 DEF FailureNoted, NumberingOp, SetsNumber
<1>. QED
  BY <1>1, <1>2, <1>3, <1>4

(* The open operation and its claim stand still within it.                 *)
LEMMA OpKept ==
  ASSUME request' = request, run'.cur = run.cur, run'.temp = run.temp,
         run'.start = run.start, run'.resolved = run.resolved
  PROVE  Op' = Op /\ (ClaimFails(Op)' <=> ClaimFails(Op))
BY DEF Op, Ops, ClaimFails, Resolve, SetsNumber

LEMMA NothingNoted ==
  ASSUME CommitInv, request' = request, led'.failed = led.failed, comp'.failed = comp.failed
  PROVE  FailureNoted'
BY DEF CommitInv, FailureNoted, Ops, NumberingOp, SetsNumber

---------------------------------------------------------------------------
LEMMA BeginKeeps == CommitInv /\ Begin => CommitInv'
<1>. SUFFICES ASSUME CommitInv, Begin PROVE CommitInv'
  OBVIOUS
<1>1. CommitShape' /\ Quiet /\ run.pc = "next" /\ run'.pc = "open"
  BY DEF CommitInv, CommitShape, Begin, Quiet
<1>2. FailureNoted'
  BY NothingNoted DEF Begin
<1>. QED
  BY <1>1, <1>2, UnderwayKeeps DEF OpenOperation, Underway

LEMMA OpenKeeps == CommitInv /\ Open => CommitInv'
<1>. SUFFICES ASSUME CommitInv, Open PROVE CommitInv'
  OBVIOUS
<1>0. /\ run.pc = "open" /\ request' = request /\ up' = up /\ known' = known /\ env' = env
      /\ out' = out /\ ghost' = ghost /\ others' = others
  BY DEF Open
<1>1. CASE Fails
  <2>1. CommitShape' /\ Quiet /\ run'.pc = "next" /\ FailureNoted'
    BY <1>0, <1>1, FailsNoted DEF CommitInv, CommitShape, Quiet
  <2>. QED
    BY <1>0, <2>1, UnderwayKeeps DEF OpenOperation, Underway
<1>2. CASE led' = ApplyOp(led) /\ run' = [run EXCEPT !.pc = "next"] /\ comp' = comp
  <2>1. CommitShape' /\ Quiet /\ run'.pc = "next"
    BY <1>0, <1>2 DEF CommitInv, CommitShape, Quiet, ApplyOp
  <2>2. FailureNoted'
    BY <1>0, <1>2, NothingNoted DEF CommitInv, CommitShape, ApplyOp
  <2>. QED
    BY <1>0, <2>1, <2>2, UnderwayKeeps DEF OpenOperation, Underway
<1>3. CASE /\ ~(Op.type = "updateChannel" /\ ClaimFails(Op))
           /\ run' = [run EXCEPT !.pc = FirstAwait(Op)] /\ led' = led /\ comp' = comp
  <2>1. CommitShape' /\ Quiet /\ run'.pc = FirstAwait(Op)
    BY <1>0, <1>3 DEF CommitInv, CommitShape, Quiet
  <2>2. FailureNoted'
    BY <1>0, <1>3, NothingNoted
  <2>3. Op' = Op /\ (ClaimFails(Op)' <=> ClaimFails(Op))
    BY <1>0, <1>3, OpKept DEF CommitInv, CommitShape
  <2>4. /\ FirstAwait(Op) \in {"read", "scan", "logo", "local", "write"}
        /\ FirstAwait(Op) = "read" => Op.type \in StreamTypes
        /\ FirstAwait(Op) = "scan" => Op.type = "deleteChannelGroup"
        /\ FirstAwait(Op) = "logo" => Op.type = "createChannel"
    BY DEF FirstAwait, StreamTypes, LocalTypes
  <2>5. OpenOperation'
    BY <1>3, <2>1, <2>3, <2>4 DEF OpenOperation
  <2>. QED
    BY <1>0, <2>1, <2>2, <2>4, <2>5, UnderwayKeeps DEF Underway
<1>. QED
  BY <1>1, <1>2, <1>3 DEF Open

LEMMA ReadKeeps == CommitInv /\ ReadChannel => CommitInv'
<1>. SUFFICES ASSUME CommitInv, ReadChannel PROVE CommitInv'
  OBVIOUS
<1>0. /\ run.pc = "read" /\ request' = request /\ up' = up /\ known' = known /\ env' = env
      /\ out' = out /\ ghost' = ghost /\ others' = others
  BY DEF ReadChannel
<1>1. CASE Fails
  <2>1. CommitShape' /\ Quiet /\ run'.pc = "next" /\ FailureNoted'
    BY <1>0, <1>1, FailsNoted DEF CommitInv, CommitShape, Quiet
  <2>. QED
    BY <1>0, <2>1, UnderwayKeeps DEF OpenOperation, Underway
<1>2. CASE comp' = comp /\ led' = ApplyOp(led) /\ run' = [run EXCEPT !.pc = "next"]
  <2>1. CommitShape' /\ Quiet /\ run'.pc = "next"
    BY <1>0, <1>2 DEF CommitInv, CommitShape, Quiet, ApplyOp
  <2>2. FailureNoted'
    BY <1>0, <1>2, NothingNoted DEF CommitInv, CommitShape, ApplyOp
  <2>. QED
    BY <1>0, <2>1, <2>2, UnderwayKeeps DEF OpenOperation, Underway
<1>3. ASSUME NEW edited, comp' = comp, led' = led,
             run' = [run EXCEPT !.pc = "write", !.streams = edited]
      PROVE  CommitInv'
  <2>1. CommitShape' /\ Quiet /\ run'.pc = "write"
    BY <1>0, <1>3 DEF CommitInv, CommitShape, Quiet
  <2>2. FailureNoted'
    BY <1>0, <1>3, NothingNoted
  <2>3. Op' = Op
    BY <1>0, <1>3, OpKept DEF CommitInv, CommitShape
  <2>4. OpenOperation'
    BY <1>0, <2>1, <2>3 DEF CommitInv, OpenOperation, StreamTypes
  <2>. QED
    BY <1>0, <2>1, <2>2, <2>4, UnderwayKeeps DEF Underway
<1>. QED
  BY <1>1, <1>2, <1>3 DEF ReadChannel

LEMMA ScanKeeps == CommitInv /\ ScanGroup => CommitInv'
<1>. SUFFICES ASSUME CommitInv, ScanGroup PROVE CommitInv'
  OBVIOUS
<1>0. /\ run.pc = "scan" /\ request' = request /\ up' = up /\ known' = known /\ env' = env
      /\ out' = out /\ ghost' = ghost /\ others' = others
  BY DEF ScanGroup
<1>1. CASE Fails
  <2>1. CommitShape' /\ Quiet /\ run'.pc = "next" /\ FailureNoted'
    BY <1>0, <1>1, FailsNoted DEF CommitInv, CommitShape, Quiet
  <2>. QED
    BY <1>0, <2>1, UnderwayKeeps DEF OpenOperation, Underway
<1>2. ASSUME NEW members, comp' = comp, led' = led,
             run' = [run EXCEPT !.pc = IF members = {} THEN "write" ELSE "move", !.moves = members]
      PROVE  CommitInv'
  <2>1. CommitShape' /\ Quiet /\ run'.pc \in {"write", "move"}
    BY <1>0, <1>2 DEF CommitInv, CommitShape, Quiet
  <2>2. FailureNoted'
    BY <1>0, <1>2, NothingNoted
  <2>3. Op' = Op
    BY <1>0, <1>2, OpKept DEF CommitInv, CommitShape
  <2>4. OpenOperation'
    BY <1>0, <2>1, <2>3 DEF CommitInv, OpenOperation
  <2>. QED
    BY <1>0, <2>1, <2>2, <2>4, UnderwayKeeps DEF Underway
<1>. QED
  BY <1>1, <1>2 DEF ScanGroup

(* What an answer leaves of the account of what happened.                  *)
LEMMA HappenedKeeps ==
  ASSUME CommitInv, NEW id, NEW a, NEW g, g = Happened(id, a, ghost)
  PROVE  /\ DOMAIN g = DOMAIN ghost
         /\ g.overwrote = ghost.overwrote /\ g.touched = ghost.touched
         /\ g.doubled = ghost.doubled /\ g.before = ghost.before
BY DEF CommitInv, CommitShape, Happened

LEMMA MoveKeeps == CommitInv /\ MoveMember => CommitInv'
<1>. SUFFICES ASSUME CommitInv, MoveMember PROVE CommitInv'
  OBVIOUS
<1>0. /\ run.pc = "move" /\ request' = request /\ known' = known /\ env' = env
      /\ out' = out /\ others' = others
  BY DEF MoveMember
<1>a. PICK c \in run.moves : MoveMember!2!(c)
  BY DEF MoveMember
<1>. DEFINE goOn == [run EXCEPT !.moves = @ \ {c}, !.pc = IF run.moves = {c} THEN "write" ELSE "move"]
<1>1. ASSUME run' = goOn, comp' = comp, DOMAIN led' = DOMAIN led, led'.failed = led.failed,
             DOMAIN up' = DOMAIN up, up'.num = up.num, DOMAIN ghost' = DOMAIN ghost,
             ghost'.overwrote = ghost.overwrote, ghost'.touched = ghost.touched,
             ghost'.doubled = ghost.doubled, ghost'.before = ghost.before
      PROVE  CommitInv'
  <2>1. CommitShape' /\ Quiet /\ run'.pc \in {"write", "move"}
    BY <1>0, <1>1 DEF CommitInv, CommitShape, Quiet
  <2>2. FailureNoted'
    BY <1>0, <1>1, NothingNoted
  <2>3. Op' = Op
    BY <1>0, <1>1, OpKept DEF CommitInv, CommitShape
  <2>4. OpenOperation'
    BY <1>0, <2>1, <2>3 DEF CommitInv, OpenOperation
  <2>. QED
    BY <1>0, <2>1, <2>2, <2>4, UnderwayKeeps DEF Underway
<1>2. CASE Exists(up, c) /\ up.group[c] # Op.groupId
  BY <1>a, <1>1, <1>2
<1>3. CASE ~(Exists(up, c) /\ up.group[c] # Op.groupId)
  <2>. DEFINE world == IF Exists(up, c) THEN [up EXCEPT !.group[c] = DefaultGroup] ELSE up
  <2>1. PICK a : /\ a \in Answers(Exists(up, c) /\ DefaultGroup \in up.groups, world)
                 /\ up' = a[2]
                 /\ ghost' = Happened(<<run.cur, c>>, a, ghost)
                 /\ IF a[1] = "ok"
                    THEN led' = RecordMove(led, <<run.cur, c>>) /\ run' = goOn /\ comp' = comp
                    ELSE Fails
    BY <1>a, <1>3
  <2>2. a[2] \in {up, world}
    <3>1. \/ a = <<"ok", world>> \/ a = <<"lost", world>> \/ a = <<"refused", up>>
      BY <2>1 DEF Answers
    <3>. HIDE DEF world
    <3>. QED
      BY <3>1
  <2>3. DOMAIN up' = DOMAIN up /\ up'.num = up.num
    BY <2>1, <2>2 DEF CommitInv, CommitShape
  <2>4. /\ DOMAIN ghost' = DOMAIN ghost
        /\ ghost'.overwrote = ghost.overwrote /\ ghost'.touched = ghost.touched
        /\ ghost'.doubled = ghost.doubled /\ ghost'.before = ghost.before
    BY <2>1, HappenedKeeps
  <2>5. CASE a[1] = "ok"
    <3>1. DOMAIN led' = DOMAIN led /\ led'.failed = led.failed
      BY <2>1, <2>5 DEF RecordMove, CommitInv, CommitShape
    <3>. QED
      BY <1>1, <2>1, <2>3, <2>4, <2>5, <3>1
  <2>6. CASE Fails
    <3>1. CommitShape' /\ Quiet /\ run'.pc = "next" /\ FailureNoted'
      BY <1>0, <2>3, <2>4, <2>6, FailsNoted DEF CommitInv, CommitShape, Quiet
    <3>. QED
      BY <1>0, <3>1, UnderwayKeeps DEF OpenOperation, Underway
  <2>. QED
    BY <2>1, <2>5, <2>6
<1>. QED
  BY <1>2, <1>3

LEMMA LogoKeeps == CommitInv /\ MakeLogo => CommitInv'
<1>. SUFFICES ASSUME CommitInv, MakeLogo PROVE CommitInv'
  OBVIOUS
<1>0. /\ run.pc = "logo" /\ request' = request /\ known' = known /\ env' = env /\ comp' = comp
      /\ out' = out /\ others' = others /\ up' = up /\ run' = [run EXCEPT !.pc = "write"]
  BY DEF MakeLogo
<1>1. PICK a : /\ ghost' = [Happened(<<run.cur, -1>>, a, ghost) EXCEPT !.moot = @ \ {<<run.cur, -1>>}]
               /\ led' = IF a[1] = "ok" THEN RecordMove(led, <<run.cur, -1>>) ELSE led
  BY DEF MakeLogo
<1>2. DOMAIN led' = DOMAIN led /\ led'.failed = led.failed
  BY <1>1 DEF RecordMove, CommitInv, CommitShape
<1>3. /\ DOMAIN ghost' = DOMAIN ghost
      /\ ghost'.overwrote = ghost.overwrote /\ ghost'.touched = ghost.touched
      /\ ghost'.doubled = ghost.doubled /\ ghost'.before = ghost.before
  BY <1>1 DEF CommitInv, CommitShape, Happened
<1>4. CommitShape' /\ Quiet /\ run'.pc = "write"
  BY <1>0, <1>2, <1>3 DEF CommitInv, CommitShape, Quiet
<1>5. FailureNoted'
  BY <1>0, <1>2, NothingNoted
<1>6. Op' = Op
  BY <1>0, OpKept DEF CommitInv, CommitShape
<1>7. OpenOperation'
  BY <1>0, <1>4, <1>6 DEF CommitInv, OpenOperation
<1>. QED
  BY <1>0, <1>4, <1>5, <1>7, UnderwayKeeps DEF Underway

LEMMA LocalKeeps == CommitInv /\ (LocalWrite \/ WriteGone) => CommitInv'
<1>. SUFFICES ASSUME CommitInv, LocalWrite \/ WriteGone PROVE CommitInv'
  OBVIOUS
<1>0. /\ run.pc \in {"local", "write"} /\ request' = request /\ known' = known /\ env' = env
      /\ comp' = comp /\ out' = out /\ others' = others /\ up' = up
      /\ run' = [run EXCEPT !.pc = "next"]
  BY DEF LocalWrite, WriteGone
<1>1. DOMAIN led' = DOMAIN led /\ led'.failed = led.failed
  BY DEF LocalWrite, WriteGone, ApplyOp, CommitInv, CommitShape
<1>2. /\ DOMAIN ghost' = DOMAIN ghost
      /\ ghost'.overwrote = ghost.overwrote /\ ghost'.touched = ghost.touched
      /\ ghost'.doubled = ghost.doubled /\ ghost'.before = ghost.before
  BY DEF LocalWrite, WriteGone, CommitInv, CommitShape
<1>3. CommitShape' /\ Quiet /\ run'.pc = "next"
  BY <1>0, <1>1, <1>2 DEF CommitInv, CommitShape, Quiet
<1>4. FailureNoted'
  BY <1>0, <1>1, NothingNoted
<1>. QED
  BY <1>0, <1>3, <1>4, UnderwayKeeps DEF OpenOperation, Underway

---------------------------------------------------------------------------
(* Before the first operation, and after the last.                         *)
LEMMA SubmitKeeps == CommitInv /\ Submit => CommitInv'
<1>. SUFFICES ASSUME CommitInv, Submit PROVE CommitInv'
  OBVIOUS
<1>0. /\ run.pc = "submit" /\ up' = up /\ known' = known /\ env' = env /\ led' = led
      /\ comp' = comp /\ ghost' = ghost /\ others' = others
  BY DEF Submit
<1>1. \/ run' = [run EXCEPT !.pc = "lineup"] /\ out' = out
      \/ run' = [run EXCEPT !.pc = "done"] /\ out' = [out EXCEPT !.outcome = "error"]
  BY DEF Submit
<1>2. /\ DOMAIN run' = DOMAIN run /\ DOMAIN out' = DOMAIN out /\ run'.pc \in {"lineup", "done"}
      /\ run'.resolved = FALSE /\ run.steps = {} /\ run'.steps = {}
      /\ run'.start = run.start /\ run.resolved = FALSE /\ ~Finished'
  BY <1>0, <1>1 DEF CommitInv, CommitShape, CommitPhases, Finished
<1>3. CommitShape' /\ CommitPhases' /\ OpenOperation'
  BY <1>0, <1>2 DEF CommitInv, CommitShape, CommitPhases, OpenOperation
<1>4. FailureNoted'
  BY <1>0 DEF CommitInv, CommitPhases, FailureNoted
<1>5. CompensatorOwn' /\ UntouchedStand' /\ WhenAlone' /\ (env.earlyOnly => NoBlindOverwrite)'
  BY <1>0, <1>2 DEF CommitInv, CompensatorOwn, UntouchedStand, WhenAlone, Alone, NoBlindOverwrite
<1>. QED
  BY <1>3, <1>4, <1>5 DEF CommitInv

LEMMA LineupKeeps ==
  ASSUME CommitInv, NEW resolved \in BOOLEAN, ReadLineup(resolved)
  PROVE  CommitInv'
<1>. DEFINE lineup == IF resolved THEN Lineup(up) ELSE Empty
<1>0. /\ run.pc = "lineup" /\ up' = up /\ request' = request /\ env' = env /\ led' = led
      /\ comp' = comp /\ others' = others /\ known' = lineup
      /\ ghost' = [ghost EXCEPT !.before = up.num]
  BY DEF ReadLineup
<1>1. /\ DOMAIN run' = DOMAIN run /\ run'.pc \in {"done", "groups", "next"}
      /\ run'.resolved = resolved /\ run'.start = NumbersOf(lineup)
      /\ run'.steps = run.steps
  BY DEF ReadLineup, CommitInv, CommitShape
<1>2. DOMAIN out' = DOMAIN out /\ ~Finished'
  BY <1>0 DEF ReadLineup, CommitInv, CommitShape, CommitPhases, Finished
<1>3. /\ DOMAIN ghost' = DOMAIN ghost /\ ghost'.before = up.num
      /\ ghost'.overwrote = ghost.overwrote /\ ghost'.touched = ghost.touched
      /\ ghost'.doubled = ghost.doubled
  BY <1>0 DEF CommitInv, CommitShape
<1>4. /\ run.steps = {} /\ DOMAIN comp.landed = {} /\ comp.failed = FALSE /\ led.failed = {}
      /\ DOMAIN up.num = DOMAIN World.num
  BY <1>0 DEF CommitInv, CommitPhases
<1>5. CommitShape' /\ CommitPhases' /\ OpenOperation'
  BY <1>0, <1>1, <1>2, <1>3, <1>4 DEF CommitInv, CommitShape, CommitPhases, OpenOperation
<1>6. FailureNoted' /\ CompensatorOwn' /\ (env.earlyOnly => NoBlindOverwrite)'
  BY <1>0, <1>1, <1>3, <1>4 DEF CommitInv, CompensatorOwn, NoBlindOverwrite, FailureNoted
<1>7. UntouchedStand'
  BY <1>0, <1>1 DEF UntouchedStand, NumbersOf, Lineup, Row
<1>8. ASSUME Alone' PROVE Believed' /\ Held' /\ BackOrToCome'
  <2>1. known' = Lineup(up)
    BY <1>0, <1>1, <1>8 DEF Alone
  <2>2. Old' = DOMAIN up.num
    BY <1>0, <1>3 DEF Old
  <2>3. Believed'
    BY <1>0, <2>1, <2>2 DEF Believed, Lineup, Row
  <2>4. Held' /\ BackOrToCome'
    BY <1>0, <1>3, <1>4, <2>2 DEF Held, BackOrToCome
  <2>. QED
    BY <2>3, <2>4
<1>. QED
  BY <1>5, <1>6, <1>7, <1>8 DEF CommitInv, WhenAlone

LEMMA GroupKeeps == CommitInv /\ MakeGroup => CommitInv'
<1>. SUFFICES ASSUME CommitInv, MakeGroup PROVE CommitInv'
  OBVIOUS
<1>0. /\ run.pc = "groups" /\ request' = request /\ known' = known /\ env' = env /\ comp' = comp
      /\ out' = out /\ others' = others
  BY DEF MakeGroup
<1>. DEFINE world == [up EXCEPT !.groups = @ \cup {"new"}]
<1>1. PICK a \in Answers("new" \notin up.groups, world), exists \in BOOLEAN :
        /\ up' = a[2]
        /\ ghost' = Happened(<<0, 0>>, a, ghost)
        /\ IF a[1] = "ok" \/ exists
           THEN /\ led' = IF exists THEN led ELSE [led EXCEPT !.rows = @ \cup {<<0, 0>>}]
                /\ run' = [run EXCEPT !.pc = "next", !.mapped = @ \cup {"new"}]
           ELSE /\ led' = [led EXCEPT !.setup = @ + 1, !.aborted = TRUE,
                                      !.errors = @ \cup {[op |-> -1, applied |-> FALSE, side |-> FALSE]}]
                /\ run' = [run EXCEPT !.pc = "flush"]
  BY DEF MakeGroup
<1>2. a[2] \in {up, world}
  BY <1>1, AnswerCases
<1>3. DOMAIN up' = DOMAIN up /\ up'.num = up.num
  BY <1>1, <1>2 DEF CommitInv, CommitShape
<1>4. /\ DOMAIN ghost' = DOMAIN ghost
      /\ ghost'.overwrote = ghost.overwrote /\ ghost'.touched = ghost.touched
      /\ ghost'.doubled = ghost.doubled /\ ghost'.before = ghost.before
  BY <1>1, HappenedKeeps
<1>5. DOMAIN led' = DOMAIN led /\ led'.failed = led.failed
  BY <1>1 DEF CommitInv, CommitShape
<1>6. /\ DOMAIN run' = DOMAIN run /\ run'.pc \in {"next", "flush"} /\ run'.start = run.start
      /\ run'.resolved = run.resolved /\ run'.steps = run.steps
  BY <1>1 DEF CommitInv, CommitShape
<1>7. CommitShape' /\ Quiet
  BY <1>0, <1>3, <1>4, <1>5, <1>6 DEF CommitInv, CommitShape, Quiet
<1>8. CommitPhases' /\ OpenOperation' /\ comp'.failed = FALSE
  BY <1>0, <1>5, <1>6, <1>7 DEF CommitInv, CommitPhases, OpenOperation, Quiet, Finished
<1>9. FailureNoted'
  BY <1>0, <1>5, NothingNoted
<1>10. CompensatorOwn' /\ UntouchedStand' /\ WhenAlone' /\ (env.earlyOnly => NoBlindOverwrite)'
  BY <1>0, <1>7, <1>8, QuietKeeps
<1>. QED
  BY <1>7, <1>8, <1>9, <1>10 DEF CommitInv

LEMMA OtherKeeps == CommitInv /\ OtherClient => CommitInv'
<1>. SUFFICES ASSUME CommitInv, OtherClient PROVE CommitInv'
  OBVIOUS
<1>0. /\ run' = run /\ request' = request /\ known' = known /\ env' = env /\ comp' = comp
      /\ led' = led /\ out' = out /\ ghost' = ghost
      /\ others < env.maxOther /\ others' = others + 1
      /\ (env.earlyOnly => run.pc \in {"submit", "lineup"})
  BY DEF OtherClient
<1>1. DOMAIN up' = DOMAIN up /\ DOMAIN up'.num = DOMAIN up.num
  <2>1. PICK c : \/ \E n : up' = [up EXCEPT !.num[c] = n]
                 \/ \E g : up' = [up EXCEPT !.group[c] = g]
                 \/ \E s : up' = [up EXCEPT !.streams[c] = @ \cup {s}]
    BY DEF OtherClient
  <2>. QED
    BY <2>1 DEF CommitInv, CommitShape
<1>2. CommitShape' /\ CommitPhases' /\ OpenOperation' /\ FailureNoted' /\ CompensatorOwn'
  <2>1. CommitShape' /\ CommitPhases' /\ CompensatorOwn'
    BY <1>0, <1>1 DEF CommitInv, CommitShape, CommitPhases, CompensatorOwn, Finished
  <2>2. OpenOperation'
    BY <1>0, OpKept DEF CommitInv, OpenOperation
  <2>3. FailureNoted'
    BY <1>0, NothingNoted
  <2>. QED
    BY <2>1, <2>2, <2>3
<1>3. UntouchedStand' /\ (env.earlyOnly => NoBlindOverwrite)'
  BY <1>0 DEF CommitInv, CommitPhases, UntouchedStand, NoBlindOverwrite
<1>4. ~Alone'
  BY <1>0 DEF Alone, CommitInv, CommitShape
<1>. QED
  BY <1>2, <1>3, <1>4 DEF CommitInv, WhenAlone

LEMMA SettleKeeps == CommitInv /\ Settle => CommitInv'
<1>. SUFFICES ASSUME CommitInv, Settle PROVE CommitInv'
  OBVIOUS
<1>0. /\ run.pc = "next" /\ request' = request /\ known' = known /\ env' = env /\ comp' = comp
      /\ up' = up /\ led' = led /\ out' = out /\ ghost' = ghost /\ others' = others
  BY DEF Settle
<1>1. /\ DOMAIN run' = DOMAIN run /\ run'.start = run.start /\ run'.resolved = run.resolved
      /\ run'.pc = IF HalfApplied THEN "compensate" ELSE "flush"
      /\ run'.steps = IF HalfApplied THEN CompensationSteps ELSE {}
  BY DEF Settle, CommitInv, CommitShape
<1>2. CommitShape' /\ CommitPhases' /\ OpenOperation'
  BY <1>0, <1>1 DEF CommitInv, CommitShape, CommitPhases, OpenOperation, Finished
<1>3. FailureNoted'
  BY <1>0, NothingNoted
<1>. DEFINE step(c) == [channelId |-> c, before |-> comp.landed[c].after, after |-> comp.landed[c].before]
<1>4. CompensationSteps = {s \in {step(c) : c \in DOMAIN comp.landed} : Moves(s)}
  BY DEF CompensationSteps
<1>5. CompensatorOwn'
  BY <1>0, <1>1, <1>4 DEF CommitInv, CompensatorOwn
<1>6. UntouchedStand' /\ (env.earlyOnly => NoBlindOverwrite)'
  BY <1>0, <1>1 DEF CommitInv, UntouchedStand, NoBlindOverwrite
<1>7. ASSUME Alone', ~ghost.doubled PROVE Believed' /\ Held' /\ BackOrToCome'
  <2>1. Believed /\ Held /\ Old' = Old
    BY <1>0, <1>1, <1>7 DEF CommitInv, WhenAlone, Alone, Old
  <2>2. Believed' /\ Held'
    BY <1>0, <2>1 DEF Believed, Held
  <2>3. ASSUME comp.failed = TRUE, NEW c \in Old
        PROVE  \/ PutBack(c)'
               \/ \E s \in run'.steps :
                    s.channelId = c /\ s.before = up.num[c] /\ s.after = ghost.before[c]
    <3>1. CASE c \notin DOMAIN comp.landed
      BY <1>0, <2>1, <3>1 DEF Held, PutBack
    <3>2. CASE c \in DOMAIN comp.landed
      <4>1. comp.landed[c].before = ghost.before[c] /\ comp.landed[c].after = up.num[c]
        BY <1>0, <2>1, <3>2 DEF Held
      <4>2. run'.steps = CompensationSteps
        BY <1>1, <2>3, <3>2 DEF HalfApplied
      <4>3. CASE Moves(step(c))
        <5>1. step(c) \in run'.steps
          BY <1>4, <3>2, <4>2, <4>3
        <5>. QED
          BY <4>1, <5>1
      <4>4. CASE ~Moves(step(c))
        BY <1>0, <4>1, <4>4 DEF Moves, PutBack
      <4>. QED
        BY <4>3, <4>4
    <3>. QED
      BY <3>1, <3>2
  <2>4. BackOrToCome'
    BY <1>0, <2>1, <2>3 DEF BackOrToCome
  <2>. QED
    BY <2>2, <2>4
<1>. QED
  BY <1>0, <1>2, <1>3, <1>5, <1>6, <1>7 DEF CommitInv, WhenAlone

LEMMA CompensateKeeps == CommitInv /\ Compensate => CommitInv'
<1>. SUFFICES ASSUME CommitInv, Compensate PROVE CommitInv'
  OBVIOUS
<1>0. /\ run.pc = "compensate" /\ request' = request /\ env' = env /\ comp' = comp
      /\ others' = others
  BY DEF Compensate
<1>. PICK step \in run.steps : Compensate!2!(step)
  BY DEF Compensate
<1>. DEFINE c == step.channelId
            world == IF Exists(up, c) THEN [up EXCEPT !.num[c] = step.after] ELSE up
<1>1. PICK a \in Answers(Exists(up, c), world) :
        /\ up' = a[2]
        /\ ghost' = Happened(<<0, c>>, a, ghost)
        /\ IF a[1] = "ok"
           THEN /\ led' = [led EXCEPT !.rows = @ \cup {<<0, c>>}]
                /\ known' = IF c \in DOMAIN known THEN [known EXCEPT ![c].num = step.after] ELSE known
                /\ out' = out
           ELSE /\ out' = [out EXCEPT !.recovery = @ \cup {step}]
                /\ led' = led /\ known' = known
  OBVIOUS
<1>2. run' = [run EXCEPT !.steps = @ \ {step}]
  OBVIOUS
<1>3. /\ a[1] \in {"ok", "refused", "lost"}
      /\ a[1] = "lost" => "lost" \in env.faults
      /\ a[1] = "refused" => up' = up
      /\ a[1] \in {"ok", "lost"} => Exists(up, c) /\ up' = world
  <2>. HIDE DEF world
  <2>. QED
    BY <1>1, AnswerCases
<1>4. /\ DOMAIN ghost' = DOMAIN ghost
      /\ ghost'.overwrote = ghost.overwrote /\ ghost'.touched = ghost.touched
      /\ ghost'.doubled = ghost.doubled /\ ghost'.before = ghost.before
  <2>. HIDE DEF c
  <2>. QED
    BY <1>1, HappenedKeeps
<1>5. /\ DOMAIN up' = DOMAIN up /\ DOMAIN up'.num = DOMAIN up.num
      /\ \A d \in DOMAIN up.num : d # c => up'.num[d] = up.num[d]
  <2>. HIDE DEF c
  <2>. QED
    BY <1>3 DEF CommitInv, CommitShape, Exists
<1>6. DOMAIN led' = DOMAIN led /\ led'.failed = led.failed
  <2>. HIDE DEF c
  <2>. QED
    BY <1>1 DEF CommitInv, CommitShape
<1>7. /\ DOMAIN out' = DOMAIN out /\ out'.outcome = out.outcome
      /\ out.recovery \subseteq out'.recovery
      /\ a[1] # "ok" => step \in out'.recovery
  BY <1>1 DEF CommitInv, CommitShape
<1>8. /\ DOMAIN run' = DOMAIN run /\ run'.pc = run.pc /\ run'.start = run.start
      /\ run'.resolved = run.resolved /\ run'.steps = run.steps \ {step}
  BY <1>2 DEF CommitInv, CommitShape
<1>9. /\ c \in DOMAIN comp.landed
      /\ step = [channelId |-> c, before |-> comp.landed[c].after, after |-> comp.landed[c].before]
      /\ \A s \in run.steps : s.channelId = c => s = step
  BY DEF CommitInv, CompensatorOwn
<1>. HIDE DEF c, world
<1>10. CommitShape' /\ CommitPhases' /\ OpenOperation' /\ CompensatorOwn'
  <2>1. CommitShape' /\ CompensatorOwn'
    BY <1>0, <1>4, <1>5, <1>6, <1>7, <1>8 DEF CommitInv, CommitShape, CompensatorOwn
  <2>2. CommitPhases' /\ OpenOperation'
    BY <1>0, <1>4, <1>7, <1>8 DEF CommitInv, CommitPhases, OpenOperation, Finished
  <2>. QED
    BY <2>1, <2>2
<1>11. FailureNoted'
  BY <1>0, <1>6, NothingNoted
<1>12. UntouchedStand' /\ (env.earlyOnly => NoBlindOverwrite)'
  <2>1. c \in ghost.touched
    BY <1>9 DEF CommitInv, CompensatorOwn
  <2>. QED
    BY <1>0, <1>4, <1>5, <1>8, <2>1 DEF CommitInv, UntouchedStand, NoBlindOverwrite
<1>13. ASSUME Alone', ~ghost'.doubled PROVE Believed' /\ Held' /\ BackOrToCome'
  <2>1. Believed /\ Held /\ BackOrToCome /\ Old' = Old /\ "lost" \notin env.faults
    BY <1>0, <1>4, <1>5, <1>8, <1>13 DEF CommitInv, WhenAlone, Alone, Old
  <2>2. a[1] # "lost" /\ (a[1] # "ok" => up' = up)
    BY <1>3, <2>1
  <2>3. a[1] = "ok" => c \in DOMAIN up.num /\ up'.num[c] = step.after
    BY <1>3 DEF world, Exists, CommitInv, CommitShape
  <2>4. Believed'
    <3>. SUFFICES ASSUME NEW d \in Old
                  PROVE  d \in DOMAIN known' /\ "num" \in DOMAIN known'[d] /\ known'[d].num = up'.num[d]
      BY <2>1 DEF Believed
    <3>1. d \in DOMAIN known /\ "num" \in DOMAIN known[d] /\ known[d].num = up.num[d]
          /\ d \in DOMAIN up.num
      BY <2>1 DEF Believed, Old
    <3>2. CASE a[1] # "ok"
      BY <1>1, <2>2, <3>1, <3>2
    <3>3. CASE a[1] = "ok" /\ d = c
      <4>1. known' = [known EXCEPT ![c].num = step.after]
        BY <1>1, <3>1, <3>3
      <4>. QED
        BY <2>3, <3>1, <3>3, <4>1
    <3>4. CASE a[1] = "ok" /\ d # c
      <4>1. d \in DOMAIN known' /\ known'[d] = known[d]
        BY <1>1, <3>1, <3>4
      <4>. QED
        BY <1>5, <3>1, <3>4, <4>1
    <3>. QED
      BY <3>2, <3>3, <3>4
  <2>5. Held'
    BY <1>0, <1>4, <1>5, <1>8, <1>9, <2>1 DEF Held, Old
  <2>6. ASSUME comp.failed = TRUE, NEW d \in Old
        PROVE  \/ PutBack(d)'
               \/ \E s \in run'.steps :
                    s.channelId = d /\ s.before = up'.num[d] /\ s.after = ghost.before[d]
    <3>1. \/ PutBack(d)
          \/ \E s \in run.steps :
               s.channelId = d /\ s.before = up.num[d] /\ s.after = ghost.before[d]
      BY <1>0, <2>1, <2>6 DEF BackOrToCome
    <3>2. CASE d # c
      <4>1. up'.num[d] = up.num[d]
        BY <1>5, <2>6, <3>2 DEF Old
      <4>2. \A s \in run.steps : s.channelId = d => s \in run'.steps
        BY <1>8, <3>2 DEF c
      <4>. QED
        BY <1>4, <1>7, <3>1, <4>1, <4>2 DEF PutBack
    <3>3. CASE d = c /\ a[1] = "ok"
      <4>1. step.after = ghost.before[d]
        BY <1>9, <2>1, <2>6, <3>3 DEF Held
      <4>. QED
        BY <1>4, <2>3, <3>3, <4>1 DEF PutBack
    <3>4. CASE d = c /\ a[1] # "ok"
      <4>1. up' = up /\ step \in out'.recovery
        BY <1>7, <2>2, <3>4
      <4>2. CASE PutBack(d)
        BY <1>4, <1>7, <4>1, <4>2 DEF PutBack
      <4>3. CASE \E s \in run.steps :
                   s.channelId = d /\ s.before = up.num[d] /\ s.after = ghost.before[d]
        <5>1. step.channelId = d /\ step.before = up.num[d] /\ step.after = ghost.before[d]
          BY <1>9, <3>4, <4>3
        <5>. QED
          BY <1>4, <4>1, <5>1 DEF PutBack
      <4>. QED
        BY <3>1, <4>2, <4>3
    <3>. QED
      BY <3>2, <3>3, <3>4
  <2>7. BackOrToCome'
    <3>. SUFFICES ASSUME comp'.failed = TRUE, NEW d \in Old
                  PROVE  \/ PutBack(d)'
                         \/ \E s \in run'.steps : /\ s.channelId = d /\ s.before = up'.num[d]
                                                  /\ s.after = ghost'.before[d]
      BY <2>1 DEF BackOrToCome
    <3>1. comp.failed = TRUE
      BY <1>0
    <3>2. \/ PutBack(d)'
          \/ \E s \in run'.steps :
               s.channelId = d /\ s.before = up'.num[d] /\ s.after = ghost.before[d]
      BY <2>6, <3>1
    <3>. QED
      BY <1>4, <3>2
  <2>. QED
    BY <2>4, <2>5, <2>7
<1>. QED
  BY <1>10, <1>11, <1>12, <1>13 DEF CommitInv, WhenAlone

LEMMA EndKeeps == CommitInv /\ (Compensated \/ FinishRun) => CommitInv'
<1>. SUFFICES ASSUME CommitInv, Compensated \/ FinishRun PROVE CommitInv'
  OBVIOUS
<1>0. /\ request' = request /\ known' = known /\ env' = env /\ up' = up /\ comp' = comp
      /\ ghost' = ghost /\ others' = others
      /\ run.pc \in {"compensate", "flush"} /\ run.steps = {}
  BY DEF Compensated, FinishRun, CommitInv, CommitPhases
<1>1. DOMAIN led' = DOMAIN led /\ led'.failed = led.failed
  BY DEF Compensated, FinishRun, RecoveryError, CommitInv, CommitShape
<1>2. DOMAIN out' = DOMAIN out /\ out'.recovery = out.recovery
  BY DEF Compensated, FinishRun, CommitInv, CommitShape
<1>3. /\ DOMAIN run' = DOMAIN run /\ run'.steps = {}
      /\ run'.start = run.start /\ run'.resolved = run.resolved
      /\ run'.pc \in {"flush", "done"} /\ (Finished' => run'.pc = "done")
  BY <1>0 DEF Compensated, FinishRun, CommitInv, CommitShape, CommitPhases, Finished
<1>4. CommitShape' /\ CommitPhases' /\ OpenOperation'
  BY <1>0, <1>1, <1>2, <1>3 DEF CommitInv, CommitShape, CommitPhases, OpenOperation
<1>5. FailureNoted'
  BY <1>0, <1>1, NothingNoted
<1>6. CompensatorOwn' /\ UntouchedStand' /\ (env.earlyOnly => NoBlindOverwrite)'
  BY <1>0, <1>3 DEF CommitInv, CompensatorOwn, UntouchedStand, NoBlindOverwrite
<1>7. ASSUME Alone', ~ghost.doubled PROVE Believed' /\ Held' /\ BackOrToCome'
  <2>1. Believed /\ Held /\ BackOrToCome /\ Old' = Old
    BY <1>0, <1>3, <1>7 DEF CommitInv, WhenAlone, Alone, Old
  <2>2. Believed' /\ Held'
    BY <1>0, <1>3, <2>1 DEF Believed, Held
  <2>3. BackOrToCome'
    BY <1>0, <1>2, <1>3, <2>1 DEF BackOrToCome, PutBack
  <2>. QED
    BY <2>2, <2>3
<1>. QED
  BY <1>0, <1>4, <1>5, <1>6, <1>7 DEF CommitInv, WhenAlone

---------------------------------------------------------------------------
(* The write of an operation.                                              *)
LEMMA Witnessed ==
  ASSUME CommitInv, NEW a, NEW g, g = Witness(a)
  PROVE  /\ DOMAIN g = DOMAIN ghost /\ g.before = ghost.before
         /\ a[1] = "refused" => /\ g.overwrote = ghost.overwrote
                                /\ g.touched = ghost.touched /\ g.doubled = ghost.doubled
         /\ a[1] # "refused" => /\ ~Overwrites(Op) => g.overwrote = ghost.overwrote
                                /\ g.touched = ghost.touched \cup Touches(Op)
                                /\ g.doubled = (ghost.doubled \/ Doubles(Op))
<1>. DEFINE h == Happened(<<run.cur, 0>>, a, ghost)
<1>1. /\ DOMAIN h = DOMAIN ghost
      /\ h.overwrote = ghost.overwrote /\ h.touched = ghost.touched
      /\ h.doubled = ghost.doubled /\ h.before = ghost.before
  BY HappenedKeeps
<1>2. CASE a[1] = "refused"
  <2>1. g = h
    BY <1>2 DEF Witness
  <2>. QED
    BY <1>1, <1>2, <2>1
<1>3. CASE a[1] # "refused"
  <2>1. PICK moot :
          g = [h EXCEPT !.overwrote = IF Overwrites(Op) THEN @ \cup {run.cur} ELSE @,
                        !.touched = @ \cup Touches(Op),
                        !.doubled = @ \/ Doubles(Op),
                        !.moot = moot]
    BY <1>3 DEF Witness
  <2>. HIDE DEF h
  <2>. QED
    BY <1>1, <1>3, <2>1 DEF CommitInv, CommitShape
<1>. QED
  BY <1>2, <1>3

(* An edit that passed its claim replaces the number it expected.          *)
LEMMA Expected ==
  ASSUME CommitInv, run.pc = "write", Accepts(up, Op), env.earlyOnly
  PROVE  ~Overwrites(Op)
<1>. SUFFICES ASSUME Overwrites(Op) PROVE FALSE
  OBVIOUS
<1>. DEFINE c == Resolve(Op.channelId)
<1>1. /\ SetsNumber(Op) /\ Op.expected # NoClaim /\ c \notin ghost.touched
      /\ up.num[c] # Op.expected
  BY DEF Overwrites
<1>2. Op.type = "updateChannel"
  BY <1>1 DEF SetsNumber
<1>3. c \in DOMAIN up.num
  BY <1>2 DEF Accepts, Exists
<1>4. run.resolved /\ (IF c \in DOMAIN run.start THEN run.start[c] ELSE Unset) = Op.expected
  BY <1>1, <1>2 DEF CommitInv, OpenOperation, ClaimFails
<1>. HIDE DEF c
<1>5. c \in DOMAIN run.start /\ up.num[c] = run.start[c]
  BY <1>1, <1>3, <1>4 DEF CommitInv, UntouchedStand
<1>. QED
  BY <1>1, <1>4, <1>5

(* A write of a run leaves the rest of the lineup standing.                *)
LEMMA AppliedStands ==
  ASSUME CommitInv, run.pc = "write", Accepts(up, Op), up' = Applied(up, Op), env' = env,
         ghost'.touched = ghost.touched \cup Touches(Op),
         ~Overwrites(Op) => ghost'.overwrote = ghost.overwrote,
         run'.start = run.start, run'.resolved = run.resolved
  PROVE  UntouchedStand' /\ (env.earlyOnly => NoBlindOverwrite)' /\ DOMAIN up' = DOMAIN up
<1>1. /\ DOMAIN up' = DOMAIN up
      /\ \A c \in DOMAIN up'.num \ Touches(Op) : c \in DOMAIN up.num /\ up'.num[c] = up.num[c]
  BY AppliedNumbers DEF CommitInv
<1>2. UntouchedStand'
  BY <1>1 DEF CommitInv, UntouchedStand
<1>3. (env.earlyOnly => NoBlindOverwrite)'
  BY Expected DEF CommitInv, NoBlindOverwrite
<1>. QED
  BY <1>1, <1>2, <1>3

(* What the write of a run alone moves, it knows.                          *)
LEMMA MovesKnown ==
  ASSUME CommitInv, Alone, ~ghost.doubled, ~Doubles(Op), Accepts(up, Op),
         NEW c \in DOMAIN ghost.before \cap DOMAIN Applied(up, Op).num
  PROVE  /\ c \in Old
         /\ c \in DOMAIN Follow(Op) /\ "num" \in DOMAIN Follow(Op)[c]
         /\ Follow(Op)[c].num = Applied(up, Op).num[c]
         /\ c \in DOMAIN Moving(Op) => Moving(Op)[c] = Applied(up, Op).num[c]
         /\ c \notin DOMAIN Moving(Op) => Applied(up, Op).num[c] = up.num[c]
<1>. DEFINE u == Applied(up, Op)
<1>1. c \in DOMAIN World.num
  BY DEF CommitInv, CommitPhases
<1>2. Op.type = "createChannel" => c # NewId(Op.tempId)
  BY <1>1 DEF Accepts, StreamTypes
<1>3. c \in DOMAIN up.num /\ (c \notin Touches(Op) => u.num[c] = up.num[c])
  <2>1. c \in DOMAIN up.num \/ (Op.type = "createChannel" /\ c = NewId(Op.tempId))
    BY AppliedNumbers DEF CommitInv
  <2>2. c \notin Touches(Op) => u.num[c] = up.num[c]
    BY AppliedNumbers DEF CommitInv
  <2>. QED
    BY <1>2, <2>1, <2>2
<1>4. c \in Old
  BY <1>3 DEF Old
<1>5. c \in DOMAIN known /\ "num" \in DOMAIN known[c] /\ known[c].num = up.num[c]
  BY <1>4 DEF CommitInv, WhenAlone, Believed
<1>6. CASE Op.type = "updateChannel"
  <2>. DEFINE d == Resolve(Op.channelId)
  <2>1. u = [up EXCEPT !.num[d] = IF SetsNumber(Op) THEN Op.data.num ELSE @,
                       !.group[d] = IF "group" \in DOMAIN Op.data THEN Op.data.group ELSE @]
    BY <1>6 DEF Applied, StreamTypes
  <2>2. d \in DOMAIN known =>
          Follow(Op) = [known EXCEPT ![d] =
                          [k \in DOMAIN @ |-> IF k \in DOMAIN Op.data THEN Op.data[k] ELSE @[k]]]
    BY <1>6 DEF Follow
  <2>3. d \notin DOMAIN known => Follow(Op) = known
    BY <1>6 DEF Follow
  <2>4. Moving(Op) = IF SetsNumber(Op) THEN [e \in {d} |-> Op.data.num] ELSE [e \in {} |-> 0]
    BY <1>6 DEF Moving, SetsNumber
  <2>5. SetsNumber(Op) <=> "num" \in DOMAIN Op.data
    BY <1>6 DEF SetsNumber
  <2>. HIDE DEF d
  <2>6. CASE c # d
    <3>1. u.num[c] = up.num[c] /\ c \notin DOMAIN Moving(Op)
      BY <1>3, <2>1, <2>4, <2>6 DEF CommitInv, CommitShape
    <3>2. c \in DOMAIN Follow(Op) /\ Follow(Op)[c] = known[c]
      BY <1>5, <2>2, <2>3, <2>6
    <3>. QED
      BY <1>4, <1>5, <3>1, <3>2
  <2>7. CASE c = d
    <3>1. u.num[c] = IF SetsNumber(Op) THEN Op.data.num ELSE up.num[c]
      BY <1>3, <2>1, <2>7 DEF CommitInv, CommitShape
    <3>2. /\ c \in DOMAIN Follow(Op) /\ "num" \in DOMAIN Follow(Op)[c]
          /\ Follow(Op)[c].num = IF SetsNumber(Op) THEN Op.data.num ELSE known[c].num
      BY <1>5, <2>2, <2>5, <2>7
    <3>3. /\ SetsNumber(Op) => c \in DOMAIN Moving(Op) /\ Moving(Op)[c] = Op.data.num
          /\ ~SetsNumber(Op) => c \notin DOMAIN Moving(Op)
      BY <2>4, <2>7
    <3>. QED
      BY <1>4, <1>5, <3>1, <3>2, <3>3
  <2>. QED
    BY <2>6, <2>7
<1>7. CASE Op.type = "bulkAssignChannelNumbers"
  <2>. DEFINE places == {k \in Positions(Op.channelIds) : Resolve(Op.channelIds[k]) = c}
  <2>1. u.num[c] = IF InRange(Op, c) THEN RangeNumber(Op, c) ELSE up.num[c]
    BY <1>3, <1>7 DEF Applied, StreamTypes, CommitInv, CommitShape
  <2>2. Moving(Op) = Renumbered(Op)
    BY <1>7 DEF Moving, SetsNumber
  <2>3. Follow(Op) = [e \in DOMAIN known |->
                        IF e \in DOMAIN Renumbered(Op)
                        THEN [known[e] EXCEPT !.num = Renumbered(Op)[e]] ELSE known[e]]
    BY <1>7 DEF Follow
  <2>4. /\ c \in DOMAIN Renumbered(Op) <=> Differing(Op, c) # {}
        /\ c \in DOMAIN Renumbered(Op) =>
             Renumbered(Op)[c] = Op.start + Latest(Differing(Op, c)) - 1
    BY DEF Renumbered, Differing
  <2>5. Differing(Op, c) = {k \in places : Op.start + k - 1 # up.num[c]}
    BY <1>5 DEF Differing, Before
  <2>6. InRange(Op, c) <=> places # {}
    BY DEF InRange
  <2>7. RangeNumber(Op, c) = Op.start + Latest(places) - 1
    BY DEF RangeNumber
  <2>8. \A j, k \in places : j = k
    BY <1>7 DEF Doubles
  <2>9. places \subseteq Int
    BY DEF Positions
  <2>. HIDE DEF places
  <2>10. CASE Differing(Op, c) # {}
    <3>1. Differing(Op, c) = places /\ places # {}
      BY <2>5, <2>8, <2>10
    <3>2. u.num[c] = Renumbered(Op)[c] /\ c \in DOMAIN Renumbered(Op)
      BY <2>1, <2>4, <2>6, <2>7, <3>1
    <3>. QED
      BY <1>4, <1>5, <2>2, <2>3, <3>2
  <2>11. CASE Differing(Op, c) = {}
    <3>1. c \notin DOMAIN Renumbered(Op)
      BY <2>4, <2>11
    <3>2. u.num[c] = up.num[c]
      <4>1. CASE places = {}
        BY <2>1, <2>6, <4>1
      <4>2. CASE places # {}
        <5>1. PICK k \in places : TRUE
          BY <4>2
        <5>2. places = {k} /\ k \in Int
          BY <2>8, <2>9, <5>1
        <5>3. Latest(places) = k
          BY <5>2 DEF Latest
        <5>4. Op.start + k - 1 = up.num[c]
          BY <2>5, <2>11, <5>1
        <5>. QED
          BY <2>1, <2>6, <2>7, <4>2, <5>3, <5>4
      <4>. QED
        BY <4>1, <4>2
    <3>. QED
      BY <1>4, <1>5, <2>2, <2>3, <3>1, <3>2
  <2>. QED
    BY <2>10, <2>11
<1>8. CASE Op.type = "createChannel"
  <2>1. Follow(Op) = Extend(known, NewId(Op.tempId), Row(u, NewId(Op.tempId)))
    BY <1>8 DEF Follow
  <2>2. c \in DOMAIN Follow(Op) /\ Follow(Op)[c] = known[c]
    BY <1>2, <1>5, <1>8, <2>1 DEF Extend
  <2>3. c \notin DOMAIN Moving(Op)
    BY <1>8 DEF Moving, SetsNumber
  <2>4. c \notin Touches(Op)
    BY <1>2, <1>8 DEF Touches, SetsNumber
  <2>. QED
    BY <1>3, <1>4, <1>5, <2>2, <2>3, <2>4
<1>9. CASE Op.type \notin {"updateChannel", "bulkAssignChannelNumbers", "createChannel"}
  <2>1. Follow(Op) = known
    BY <1>9 DEF Follow
  <2>2. c \notin DOMAIN Moving(Op)
    BY <1>9 DEF Moving, SetsNumber
  <2>3. c \notin Touches(Op)
    BY <1>9 DEF Touches, SetsNumber
  <2>. QED
    BY <1>3, <1>4, <1>5, <2>1, <2>2, <2>3
<1>. QED
  BY <1>6, <1>7, <1>8, <1>9

(* What the compensator holds after a write.                               *)
LEMMA Recorded ==
  ASSUME CommitInv, NEW r, r = RecordLanded(Op)
  PROVE  /\ DOMAIN r = DOMAIN comp /\ r.failed = comp.failed
         /\ DOMAIN r.landed = DOMAIN comp.landed \cup DOMAIN Moving(Op)
         /\ \A c \in DOMAIN Moving(Op) :
              r.landed[c].before = FirstBefore(c) /\ r.landed[c].after = Moving(Op)[c]
         /\ \A c \in DOMAIN comp.landed \ DOMAIN Moving(Op) : r.landed[c] = comp.landed[c]
         /\ DOMAIN Moving(Op) \subseteq Touches(Op)
<1>1. PICK count :
        r = [comp EXCEPT
               !.landed = [c \in DOMAIN @ \cup DOMAIN Moving(Op) |->
                             IF c \in DOMAIN Moving(Op)
                             THEN [before |-> FirstBefore(c), after |-> Moving(Op)[c],
                                   at |-> comp.count + WhereIn(Op, c)]
                             ELSE @[c]],
               !.count = count]
  BY DEF RecordLanded
<1>2. /\ DOMAIN r = DOMAIN comp /\ r.failed = comp.failed
      /\ r.landed = [c \in DOMAIN comp.landed \cup DOMAIN Moving(Op) |->
                       IF c \in DOMAIN Moving(Op)
                       THEN [before |-> FirstBefore(c), after |-> Moving(Op)[c],
                             at |-> comp.count + WhereIn(Op, c)]
                       ELSE comp.landed[c]]
  BY <1>1 DEF CommitInv, CommitShape
<1>3. DOMAIN Moving(Op) \subseteq Touches(Op)
  <2>1. CASE SetsNumber(Op)
    <3>1. Touches(Op) = {Resolve(Op.channelId)} /\ DOMAIN Moving(Op) = {Resolve(Op.channelId)}
      BY <2>1 DEF Touches, Moving, SetsNumber
    <3>. QED
      BY <3>1
  <2>2. CASE Op.type = "bulkAssignChannelNumbers"
    <3>1. Touches(Op) = {Resolve(Op.channelIds[k]) : k \in Positions(Op.channelIds)}
      BY <2>2 DEF Touches, SetsNumber
    <3>2. Moving(Op) = Renumbered(Op)
      BY <2>2 DEF Moving, SetsNumber
    <3>. QED
      BY <3>1, <3>2 DEF Renumbered
  <2>3. CASE ~SetsNumber(Op) /\ Op.type # "bulkAssignChannelNumbers"
    BY <2>3 DEF Moving
  <2>. QED
    BY <2>1, <2>2, <2>3
<1>. QED
  BY <1>2, <1>3

LEMMA WriteKeeps == CommitInv /\ Write => CommitInv'
<1>. SUFFICES ASSUME CommitInv, Write PROVE CommitInv'
  OBVIOUS
<1>0. /\ run.pc = "write" /\ request' = request /\ env' = env /\ out' = out /\ others' = others
  BY DEF Write
<1>. DEFINE world == IF Accepts(up, Op) THEN Applied(up, Op) ELSE up
<1>1. PICK a \in Answers(Accepts(up, Op), world) :
        /\ up' = a[2]
        /\ ghost' = Witness(a)
        /\ IF a[1] = "ok"
           THEN /\ led' = ApplyOp(RecordPersisted(led))
                /\ comp' = RecordLanded(Op)
                /\ known' = Follow(Op)
                /\ run' = Settled(Op)
           ELSE Fails /\ known' = known
  BY DEF Write
<1>. HIDE DEF world
<1>2. /\ a[1] \in {"ok", "refused", "lost"}
      /\ a[1] = "lost" => "lost" \in env.faults
      /\ a[1] = "refused" => up' = up
      /\ a[1] \in {"ok", "lost"} => Accepts(up, Op) /\ up' = world
  BY <1>1, AnswerCases
<1>3. a[1] \in {"ok", "lost"} => Accepts(up, Op) /\ up' = Applied(up, Op)
  BY <1>2 DEF world
<1>4. /\ DOMAIN ghost' = DOMAIN ghost /\ ghost'.before = ghost.before
      /\ a[1] = "refused" => /\ ghost'.overwrote = ghost.overwrote
                             /\ ghost'.touched = ghost.touched /\ ghost'.doubled = ghost.doubled
      /\ a[1] # "refused" => /\ ~Overwrites(Op) => ghost'.overwrote = ghost.overwrote
                             /\ ghost'.touched = ghost.touched \cup Touches(Op)
                             /\ ghost'.doubled = (ghost.doubled \/ Doubles(Op))
  BY <1>1, Witnessed
<1>5. ~Finished' /\ run.steps = {}
  BY <1>0 DEF CommitInv, CommitPhases, Finished
<1>6. CASE a[1] = "refused"
  <2>1. Fails /\ known' = known
    BY <1>1, <1>6
  <2>2. CommitShape' /\ Quiet /\ run'.pc = "next" /\ FailureNoted'
    BY <1>0, <1>2, <1>4, <1>6, <2>1, FailsNoted DEF CommitInv, CommitShape, Quiet
  <2>. QED
    BY <1>0, <2>2, UnderwayKeeps DEF OpenOperation, Underway
<1>7. CASE a[1] = "lost"
  <2>1. Fails /\ known' = known
    BY <1>1, <1>7
  <2>2. /\ FailureNoted' /\ comp'.landed = comp.landed
        /\ DOMAIN led' = DOMAIN led /\ DOMAIN comp' = DOMAIN comp /\ DOMAIN run' = DOMAIN run
        /\ run'.pc = "next" /\ run'.start = run.start /\ run'.resolved = run.resolved
        /\ run'.steps = run.steps
    BY <1>0, <2>1, FailsNoted
  <2>3. UntouchedStand' /\ (env.earlyOnly => NoBlindOverwrite)' /\ DOMAIN up' = DOMAIN up
    BY <1>0, <1>3, <1>4, <1>7, <2>2, AppliedStands
  <2>4. CommitShape' /\ CommitPhases' /\ OpenOperation'
    BY <1>0, <1>4, <1>5, <2>2, <2>3 DEF CommitInv, CommitShape, CommitPhases, OpenOperation
  <2>5. CompensatorOwn'
    BY <1>4, <1>5, <1>7, <2>2 DEF CommitInv, CompensatorOwn
  <2>6. ~Alone'
    BY <1>0, <1>2, <1>7 DEF Alone
  <2>. QED
    BY <2>2, <2>3, <2>4, <2>5, <2>6 DEF CommitInv, WhenAlone
<1>8. CASE a[1] = "ok"
  <2>1. Accepts(up, Op) /\ up' = Applied(up, Op) /\ comp' = RecordLanded(Op) /\ known' = Follow(Op)
    BY <1>1, <1>3, <1>8
  <2>2. DOMAIN led' = DOMAIN led /\ led'.failed = led.failed
    <3>1. led' = ApplyOp(RecordPersisted(led))
      BY <1>1, <1>8
    <3>2. DOMAIN RecordPersisted(led) = DOMAIN led /\ RecordPersisted(led).failed = led.failed
      BY DEF RecordPersisted, CommitInv, CommitShape
    <3>. QED
      BY <3>1, <3>2 DEF ApplyOp, CommitInv, CommitShape
  <2>3. /\ DOMAIN run' = DOMAIN run /\ run'.pc = "next" /\ run'.start = run.start
        /\ run'.resolved = run.resolved /\ run'.steps = run.steps
    <3>1. run' = Settled(Op)
      BY <1>1, <1>8
    <3>. QED
      BY <3>1 DEF Settled, CommitInv, CommitShape
  <2>4. /\ DOMAIN comp' = DOMAIN comp /\ comp'.failed = comp.failed
        /\ DOMAIN comp'.landed = DOMAIN comp.landed \cup DOMAIN Moving(Op)
        /\ \A c \in DOMAIN Moving(Op) :
             comp'.landed[c].before = FirstBefore(c) /\ comp'.landed[c].after = Moving(Op)[c]
        /\ \A c \in DOMAIN comp.landed \ DOMAIN Moving(Op) : comp'.landed[c] = comp.landed[c]
        /\ DOMAIN Moving(Op) \subseteq Touches(Op)
    BY <2>1, Recorded
  <2>5. UntouchedStand' /\ (env.earlyOnly => NoBlindOverwrite)' /\ DOMAIN up' = DOMAIN up
    BY <1>0, <1>4, <1>8, <2>1, <2>3, AppliedStands
  <2>6. CommitShape' /\ CommitPhases' /\ OpenOperation'
    BY <1>0, <1>4, <1>5, <2>2, <2>3, <2>4, <2>5 DEF CommitInv, CommitShape, CommitPhases, OpenOperation
  <2>7. FailureNoted'
    BY <1>0, <2>2, <2>4, NothingNoted
  <2>8. CompensatorOwn'
    BY <1>4, <1>5, <1>8, <2>3, <2>4 DEF CommitInv, CompensatorOwn
  <2>9. ASSUME Alone', ~ghost'.doubled PROVE Believed' /\ Held' /\ BackOrToCome'
    <3>1. Alone /\ ~ghost.doubled /\ ~Doubles(Op)
      BY <1>0, <1>4, <1>8, <2>3, <2>9 DEF Alone
    <3>2. Believed /\ Held
      BY <3>1 DEF CommitInv, WhenAlone
    <3>3. ASSUME NEW c \in Old'
          PROVE  /\ c \in Old
                 /\ c \in DOMAIN known' /\ "num" \in DOMAIN known'[c]
                 /\ known'[c].num = up'.num[c]
                 /\ c \in DOMAIN Moving(Op) => Moving(Op)[c] = up'.num[c]
                 /\ c \notin DOMAIN Moving(Op) => up'.num[c] = up.num[c]
      <4>1. c \in DOMAIN ghost.before \cap DOMAIN Applied(up, Op).num
        BY <1>4, <2>1, <3>3 DEF Old
      <4>. QED
        BY <2>1, <3>1, <4>1, MovesKnown
    <3>4. Believed'
      BY <3>3 DEF Believed
    <3>5. Held'
      <4>. SUFFICES ASSUME NEW c \in Old'
                    PROVE  /\ c \notin DOMAIN comp'.landed => up'.num[c] = ghost.before[c]
                           /\ c \in DOMAIN comp'.landed =>
                                /\ comp'.landed[c].before = ghost.before[c]
                                /\ comp'.landed[c].after = up'.num[c]
        BY <1>4 DEF Held
      <4>1. /\ c \in Old
            /\ c \in DOMAIN Moving(Op) => Moving(Op)[c] = up'.num[c]
            /\ c \notin DOMAIN Moving(Op) => up'.num[c] = up.num[c]
        BY <3>3
      <4>2. /\ c \notin DOMAIN comp.landed => up.num[c] = ghost.before[c]
            /\ c \in DOMAIN comp.landed =>
                 comp.landed[c].before = ghost.before[c] /\ comp.landed[c].after = up.num[c]
        BY <1>0, <3>2, <4>1 DEF Held
      <4>3. FirstBefore(c) = ghost.before[c]
        BY <3>2, <4>1, <4>2 DEF FirstBefore, Before, Believed
      <4>. QED
        BY <2>4, <4>1, <4>2, <4>3
    <3>6. BackOrToCome'
      BY <1>5, <2>3 DEF BackOrToCome
    <3>. QED
      BY <3>4, <3>5, <3>6
  <2>. QED
    BY <2>5, <2>6, <2>7, <2>8, <2>9 DEF CommitInv, WhenAlone
<1>. QED
  BY <1>2, <1>6, <1>7, <1>8

LEMMA MalformedKeeps == CommitInv /\ WriteMalformed => CommitInv'
<1>. SUFFICES ASSUME CommitInv, WriteMalformed PROVE CommitInv'
  OBVIOUS
<1>0. /\ run.pc = "write" /\ request' = request /\ env' = env /\ out' = out /\ others' = others
      /\ known' = known /\ comp' = comp /\ Accepts(up, Op) /\ up' = Applied(up, Op)
      /\ Op.type \in {"createChannel", "createGroup"}
      /\ led' = FailAfterWrite(RecordPersisted(led)) /\ run' = AfterFailure
  BY DEF WriteMalformed
<1>1. /\ DOMAIN ghost' = DOMAIN ghost /\ ghost'.before = ghost.before
      /\ ~Overwrites(Op) => ghost'.overwrote = ghost.overwrote
      /\ ghost'.touched = ghost.touched \cup Touches(Op)
      /\ ghost'.doubled = (ghost.doubled \/ Doubles(Op))
  <2>. DEFINE a == <<"ok", Applied(up, Op)>>
  <2>1. ghost' = Witness(a) /\ a[1] = "ok"
    BY DEF WriteMalformed
  <2>. HIDE DEF a
  <2>. QED
    BY <2>1, Witnessed
<1>2. DOMAIN led' = DOMAIN led /\ led'.failed = led.failed
  <2>1. DOMAIN RecordPersisted(led) = DOMAIN led /\ RecordPersisted(led).failed = led.failed
    BY DEF RecordPersisted, CommitInv, CommitShape
  <2>. QED
    BY <1>0, <2>1 DEF FailAfterWrite, CommitInv, CommitShape
<1>3. /\ DOMAIN run' = DOMAIN run /\ run'.pc = "next" /\ run'.start = run.start
      /\ run'.resolved = run.resolved /\ run'.steps = run.steps
  BY <1>0 DEF AfterFailure, CommitInv, CommitShape
<1>4. ~Finished' /\ run.steps = {}
  BY <1>0 DEF CommitInv, CommitPhases, Finished
<1>5. UntouchedStand' /\ (env.earlyOnly => NoBlindOverwrite)' /\ DOMAIN up' = DOMAIN up
  BY <1>0, <1>1, <1>3, AppliedStands
<1>6. CommitShape' /\ CommitPhases' /\ OpenOperation'
  BY <1>0, <1>1, <1>2, <1>3, <1>4, <1>5 DEF CommitInv, CommitShape, CommitPhases, OpenOperation
<1>7. FailureNoted'
  BY <1>0, <1>2, NothingNoted
<1>8. CompensatorOwn'
  BY <1>0, <1>1, <1>3, <1>4 DEF CommitInv, CompensatorOwn
<1>9. ASSUME Alone', ~ghost'.doubled PROVE Believed' /\ Held' /\ BackOrToCome'
  <2>1. Alone /\ ~ghost.doubled /\ ~Doubles(Op)
    BY <1>0, <1>1, <1>3, <1>9 DEF Alone
  <2>2. Believed /\ Held
    BY <2>1 DEF CommitInv, WhenAlone
  <2>3. ASSUME NEW c \in Old' PROVE c \in Old /\ up'.num[c] = up.num[c]
    <3>1. c \in DOMAIN ghost.before \cap DOMAIN Applied(up, Op).num
      BY <1>0, <1>1, <2>3 DEF Old
    <3>2. DOMAIN Moving(Op) = {}
      BY <1>0 DEF Moving, SetsNumber
    <3>. QED
      BY <1>0, <2>1, <3>1, <3>2, MovesKnown
  <2>4. Believed'
    BY <1>0, <2>2, <2>3 DEF Believed
  <2>5. Held'
    BY <1>0, <1>1, <1>3, <2>2, <2>3 DEF Held
  <2>6. BackOrToCome'
    BY <1>3, <1>4 DEF BackOrToCome
  <2>. QED
    BY <2>4, <2>5, <2>6
<1>. QED
  BY <1>5, <1>6, <1>7, <1>8, <1>9 DEF CommitInv, WhenAlone

LEMMA CancelKeeps == CommitInv /\ Cancel => CommitInv'
<1>. SUFFICES ASSUME CommitInv, Cancel PROVE CommitInv'
  OBVIOUS
<1>0. /\ run.pc \in Awaiting /\ request' = request /\ env' = env /\ others' = others
      /\ known' = known /\ comp' = comp /\ led' = led /\ run' = [run EXCEPT !.pc = "done"]
      /\ out' = [out EXCEPT !.outcome = "cancelled", !.journal = led.rows]
  BY DEF Cancel, CancelFlush
<1>1. /\ DOMAIN run' = DOMAIN run /\ run'.pc = "done" /\ run'.start = run.start
      /\ run'.resolved = run.resolved /\ run'.steps = run.steps
      /\ DOMAIN out' = DOMAIN out /\ ~Finished' /\ out'.recovery = out.recovery
  BY <1>0 DEF CommitInv, CommitShape, Finished
<1>2. \/ up' = up /\ ghost' = ghost
      \/ /\ "lost" \in env.faults /\ run.pc = "write" /\ Accepts(up, Op)
         /\ up' = Applied(up, Op) /\ ghost' = Witness(<<"lost", Applied(up, Op)>>)
  BY DEF Cancel
<1>3. FailureNoted'
  BY <1>0, NothingNoted
<1>4. ASSUME DOMAIN up' = DOMAIN up, DOMAIN ghost' = DOMAIN ghost, ghost'.before = ghost.before,
             ghost.touched \subseteq ghost'.touched
      PROVE  CommitShape' /\ CommitPhases' /\ OpenOperation' /\ CompensatorOwn'
  <2>1. CommitShape' /\ CommitPhases'
    BY <1>0, <1>1, <1>4 DEF CommitInv, CommitShape, CommitPhases
  <2>2. OpenOperation' /\ CompensatorOwn'
    BY <1>0, <1>1, <1>4 DEF CommitInv, OpenOperation, CompensatorOwn
  <2>. QED
    BY <2>1, <2>2
<1>5. CASE up' = up /\ ghost' = ghost
  <2>1. UntouchedStand' /\ (env.earlyOnly => NoBlindOverwrite)'
    BY <1>0, <1>1, <1>5 DEF CommitInv, UntouchedStand, NoBlindOverwrite
  <2>2. ASSUME Alone', ~ghost.doubled PROVE Believed' /\ Held' /\ BackOrToCome'
    <3>1. Believed /\ Held
      BY <1>0, <1>1, <2>2 DEF CommitInv, WhenAlone, Alone
    <3>2. Old' = Old
      BY <1>5 DEF Old
    <3>3. Believed' /\ Held'
      BY <1>0, <1>1, <1>5, <3>1, <3>2 DEF Believed, Held
    <3>4. BackOrToCome'
      BY <1>1 DEF BackOrToCome
    <3>. QED
      BY <3>3, <3>4
  <2>. QED
    BY <1>3, <1>4, <1>5, <2>1, <2>2 DEF CommitInv, WhenAlone
<1>6. CASE /\ "lost" \in env.faults /\ run.pc = "write" /\ Accepts(up, Op)
           /\ up' = Applied(up, Op) /\ ghost' = Witness(<<"lost", Applied(up, Op)>>)
  <2>1. /\ DOMAIN ghost' = DOMAIN ghost /\ ghost'.before = ghost.before
        /\ ~Overwrites(Op) => ghost'.overwrote = ghost.overwrote
        /\ ghost'.touched = ghost.touched \cup Touches(Op)
    <3>. DEFINE a == <<"lost", Applied(up, Op)>>
    <3>1. ghost' = Witness(a) /\ a[1] = "lost"
      BY <1>6
    <3>. HIDE DEF a
    <3>. QED
      BY <3>1, Witnessed
  <2>2. UntouchedStand' /\ (env.earlyOnly => NoBlindOverwrite)' /\ DOMAIN up' = DOMAIN up
    BY <1>0, <1>1, <1>6, <2>1, AppliedStands
  <2>3. ~Alone'
    BY <1>0, <1>6 DEF Alone
  <2>. QED
    BY <1>3, <1>4, <2>1, <2>2, <2>3 DEF CommitInv, WhenAlone
<1>. QED
  BY <1>2, <1>5, <1>6

---------------------------------------------------------------------------
LEMMA CommitIdle == CommitInv /\ UNCHANGED commitVars => CommitInv'
<1>. SUFFICES ASSUME CommitInv, UNCHANGED commitVars PROVE CommitInv'
  OBVIOUS
<1>0. /\ env' = env /\ up' = up /\ request' = request /\ run' = run /\ known' = known
      /\ led' = led /\ comp' = comp /\ out' = out /\ ghost' = ghost /\ others' = others
  BY DEF commitVars
<1>1. CommitShape' /\ CommitPhases' /\ CompensatorOwn' /\ FailureNoted'
  BY <1>0, NothingNoted DEF CommitInv, CommitShape, CommitPhases, CompensatorOwn, Finished
<1>2. OpenOperation' /\ UntouchedStand' /\ (env.earlyOnly => NoBlindOverwrite)'
  BY <1>0, OpKept DEF CommitInv, OpenOperation, UntouchedStand, NoBlindOverwrite
<1>3. WhenAlone'
  BY <1>0 DEF CommitInv, WhenAlone, Alone, Believed, Held, BackOrToCome, PutBack, Old, Finished
<1>. QED
  BY <1>1, <1>2, <1>3 DEF CommitInv

LEMMA CommitStep == CommitInv /\ [CommitNext]_commitVars => CommitInv'
<1>. SUFFICES ASSUME CommitInv, [CommitNext]_commitVars PROVE CommitInv'
  OBVIOUS
<1>1. ASSUME NEW resolved \in BOOLEAN, ReadLineup(resolved) PROVE CommitInv'
  BY <1>1, LineupKeeps
<1>2. CASE Submit \/ MakeGroup \/ Begin \/ Open
  BY <1>2, SubmitKeeps, GroupKeeps, BeginKeeps, OpenKeeps
<1>3. CASE ReadChannel \/ ScanGroup \/ MoveMember \/ MakeLogo \/ LocalWrite
  BY <1>3, ReadKeeps, ScanKeeps, MoveKeeps, LogoKeeps, LocalKeeps
<1>4. CASE Write \/ WriteGone \/ WriteMalformed
  BY <1>4, WriteKeeps, LocalKeeps, MalformedKeeps
<1>5. CASE Settle \/ Compensate \/ Compensated \/ FinishRun \/ Cancel \/ OtherClient
  BY <1>5, SettleKeeps, CompensateKeeps, EndKeeps, CancelKeeps, OtherKeeps
<1>6. CASE Done \/ UNCHANGED commitVars
  BY <1>6, CommitIdle DEF Done
<1>. QED
  BY <1>1, <1>2, <1>3, <1>4, <1>5, <1>6 DEF CommitNext

LEMMA CommitInvSafe == CommitInv => NumbersProtected
<1>. SUFFICES ASSUME CommitInv PROVE NumbersProtected
  OBVIOUS
<1>1. env.earlyOnly => NoBlindOverwrite
  BY DEF CommitInv
<1>2. ASSUME Alone, ~ghost.doubled, Finished, \E i \in led.failed : NumberingOp(Ops[i]),
             NEW c \in Renumbers
      PROVE  PutBack(c)
  <2>1. comp.failed = TRUE /\ run.steps = {} /\ c \in Old
    BY <1>2 DEF CommitInv, FailureNoted, CommitPhases, Renumbers, Old
  <2>. QED
    BY <1>2, <2>1 DEF CommitInv, WhenAlone, BackOrToCome
<1>. QED
  BY <1>1, <1>2 DEF NumbersProtected, NumberingWholeOrRestored

(* A bulk commit protects numbers (NumbersProtected), for any lineup, any  *)
(* request and any other client.  When a numbering operation of a run that *)
(* nobody disturbs fails, every channel the run renumbered is back on the  *)
(* number it had or is listed with the exact number it is on, however many *)
(* operations moved it and whichever calls of the way back are refused;    *)
(* and an edit that names the number it expects never replaces another one *)
(* that was there before the run read the lineup.                          *)
THEOREM NumbersCorrect == CommitSpec => []NumbersProtected
<1>1. CommitInit => CommitInv
  BY CommitStart
<1>2. CommitInv /\ [CommitNext]_commitVars => CommitInv'
  BY CommitStep
<1>3. CommitInv => NumbersProtected
  BY CommitInvSafe
<1>. QED
  BY <1>1, <1>2, <1>3, PTL DEF CommitSpec
================================================================================
