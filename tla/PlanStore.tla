------------------------------- MODULE PlanStore -------------------------------
(***************************************************************************)
(* MutationPlanStore: the process-local store of prepared plans.  A plan is *)
(* created by a prepare call, lives PlanTTL time units, and is claimed once *)
(* by a commit call that names its operation, its hash and its principal.   *)
(* Ids count up in the order of creation.                                   *)
(***************************************************************************)
EXTENDS Integers, FiniteSets

CONSTANTS
  Principals,   \* who may prepare and commit
  MaxEntries,   \* PLAN_MAX_ENTRIES
  PlanTTL,      \* PLAN_TTL_SECONDS
  MaxPlans,     \* bound: prepare calls are answered up to this id
  MaxTime       \* bound: the clock

ASSUME StoreAssumption ==
  /\ MaxEntries \in Nat \ {0} /\ PlanTTL \in Nat \ {0}
  /\ MaxPlans \in Nat /\ MaxTime \in Nat

VARIABLES
  store,    \* _plans: a set of plans
  nextId,   \* the id of the next plan
  now       \* time.time()

storeVars == <<store, nextId, now>>

(* Twice the bound: a claimed plan may be followed by a second one.        *)
PlanIds == 1 .. 2 * MaxPlans

StoreOK ==
  /\ \A p \in store : /\ p.id \in 1 .. nextId - 1
                      /\ p.principal \in Principals
                      /\ p.expires \in 1 .. MaxTime + PlanTTL
  /\ \A p, q \in store : p.id = q.id => p = q
  /\ nextId \in 1 .. 2 * MaxPlans + 1
  /\ now \in 0 .. MaxTime

StoreInit == store = {} /\ nextId = 1 /\ now = 0

Live(S) == {p \in S : p.expires > now}

\* mutant: the slice keeps one plan too many
PruneLate(S) == {p \in Live(S) : Cardinality({q \in Live(S) : q.id > p.id}) < MaxEntries}

(* Expired plans go, and at capacity the oldest, so that one more fits. *)
Prune(S) == {p \in Live(S) : Cardinality({q \in Live(S) : q.id > p.id}) < MaxEntries - 1}

Create(p) ==
  /\ store' = Prune(store) \cup {p}
  /\ nextId' = nextId + 1
  /\ UNCHANGED now

(* The plan a claim is entitled to, if there is one: the set is empty or a *)
(* singleton.  Whatever becomes of the claim, the store has been pruned.   *)
Claimable(id, op, who, hashOk) ==
  {p \in Prune(store) : p.id = id /\ p.op = op /\ p.principal = who /\ hashOk}

\* mutant: the plan is read and stays
KeepPlan(P) == /\ store' = Prune(store)
               /\ UNCHANGED <<nextId, now>>

TakePlan(P) == /\ store' = Prune(store) \ P
               /\ UNCHANGED <<nextId, now>>

MayPrepare == nextId <= MaxPlans

Expire ==
  /\ now < MaxTime
  /\ now' = now + 1
  /\ UNCHANGED <<store, nextId>>

(* A restart. *)
ForgetPlans == store' = {} /\ UNCHANGED <<nextId, now>>

---------------------------------------------------------------------------
(* The store never holds more than PLAN_MAX_ENTRIES plans, whatever the    *)
(* order of prepares, claims and expiries (resource bound of _prune).      *)
StoreBounded == Cardinality(store) <= MaxEntries
================================================================================
