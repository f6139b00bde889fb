-------------------------- MODULE PipelinePlanProofs --------------------------
(***************************************************************************)
(* Proofs about PipelinePlan and the store it extends, for every set of    *)
(* channels, programs, principals and commits, and every choice of the     *)
(* bounds.                                                                 *)
(***************************************************************************)
EXTENDS PipelinePlan, FiniteSetTheorems, TLAPS

---------------------------------------------------------------------------
(* The inductive invariant, in parts. *)

\* A plan, in the store or held, is one that prepare or a refresh phase built.
\* Plans of a refresh come from prepare only.
PlanOK(p) ==
  /\ p.id \in 1 .. nextId - 1 /\ p.principal \in Principals /\ p.op \in Phases
  /\ p.op = "refresh" => p.id <= MaxPlans
  /\ p.op = "execute" => /\ p.prog \in Programs
                         /\ p.decision.pre \in [Touched(p.prog) -> Values]

\* Refresh phases that are over, by the plan they used: each added at most one
\* plan to those of prepare.
Refreshed == {held[c].id : c \in {d \in Commits : /\ held[d] # NoPlan /\ pc[d] = "done"
                                                  /\ held[d].op = "refresh"}}

\* A claimed plan has left the store for good, and nobody else holds it.
PlansInv ==
  /\ \A p \in store : PlanOK(p)
  /\ held = [c \in Commits |-> held[c]]
  /\ \A c \in Commits : held[c] # NoPlan =>
       /\ PlanOK(held[c])
       /\ \A p \in store : p.id # held[c].id
       /\ \A d \in Commits : held[d].id = held[c].id => d = c

ClaimInv == PlansInv /\ nextId <= MaxPlans + 1 + Cardinality(Refreshed)

\* Where a commit is, what it holds and what it has recorded.
Locked    == {"checked", "rowed", "revalidating", "replaying", "compensating", "finalizing"}
Recorded  == {"revalidating", "replaying", "compensating", "finalizing"}
Unwritten == {"idle", "refreshing", "waiting", "checked", "rowed", "revalidating"}

ControlInv ==
  \A c \in Commits :
    /\ pc[c] = "idle" => held[c] = NoPlan
    /\ pc[c] = "refreshing" => held[c] # NoPlan /\ held[c].op = "refresh"
    /\ pc[c] \in Locked \cup {"waiting"} => held[c] # NoPlan /\ held[c].op = "execute"
    /\ pc[c] \in Locked => lock = c
    /\ pc[c] \in Recorded => c \in evidence

\* The writes that happened are those the position in the program says.
Progress(c) ==
  /\ ran[c] # {} => c \in evidence
  /\ pc[c] \in Unwritten => ran[c] = {}
  /\ pc[c] \in Unwritten \cup {"replaying", "finalizing"} => failedAt[c] = 0
  /\ pc[c] = "replaying" => k[c] > 0 /\ ran[c] = 1 .. k[c] - 1
  /\ pc[c] = "compensating" => failedAt[c] > k[c] /\ failedAt[c] <= Len(Prog(c))
  /\ failedAt[c] > 0 => /\ Reported(c) \subseteq ran[c]
                        /\ ran[c] \subseteq Reported(c) \cup {failedAt[c]}

ProgressInv == \A c \in Commits : Progress(c)

\* A channel made by a commit belongs to a create it has run.
MadeInv ==
  /\ made \subseteq Commits \X Nat
  /\ \A m \in made : m[2] \in ran[m[1]] /\ Prog(m[1])[m[2]].op = "create"

\* A channel a commit relies on is as it read it, unless the commit has written
\* it or an edit from outside was noted.
AsRead(c) ==
  pc[c] \in {"revalidating", "replaying"} =>
    \A ch \in DOMAIN Pre(c) :
      \/ pc[c] = "revalidating" /\ ch \in unread[c]
      \/ \E j \in ran[c] : Prog(c)[j].ch = ch
      \/ world[ch] = Pre(c)[ch]
      \/ ch \in dirty[c]

ReadInv == \A c \in Commits : AsRead(c)

\* What is still to be compensated, should the replay fail now.
Left(c) == 1 .. (IF pc[c] = "replaying" THEN k[c] - 1 ELSE k[c])

\* In an undisturbed replay of writes that can be compensated, a channel that no
\* such write touches is as planned, and a channel made is one of a create left.
Untouched(c, ch) == \A j \in Left(c) : Prog(c)[j].op = "update" => Prog(c)[j].ch # ch

Undoable(c) ==
  /\ pc[c] \in {"replaying", "compensating"} /\ Undisturbed(c)
  /\ \A i \in ran[c] : Compensable(Prog(c)[i])

LeftToUndo(c) ==
  /\ \A m \in made : m[1] = c => m[2] \in Left(c)
  /\ \A ch \in DOMAIN Pre(c) : Untouched(c, ch) => world[ch] = Pre(c)[ch]

UndoInv == \A c \in Commits : Undoable(c) => LeftToUndo(c)

PlanInv ==
  /\ TypeOK /\ ClaimInv /\ ControlInv /\ ProgressInv /\ MadeInv /\ ReadInv
  /\ NoStaleWrite /\ UndoInv

---------------------------------------------------------------------------
(* The operators. *)

\* The bounds are natural numbers.
LEMMA Bounds ==
  /\ MaxEntries \in Nat \ {0} /\ PlanTTL \in Nat \ {0} /\ MaxPlans \in Nat /\ MaxTime \in Nat
  /\ MaxEdits \in Nat /\ MaxFaults \in Nat /\ MaxLost \in Nat /\ MaxCrashes \in Nat
BY StoreAssumption, PlanAssumption

\* Pruning only takes plans away.
LEMMA PruneSub == ASSUME NEW S PROVE Prune(S) \subseteq S
BY DEF Prune, Live

\* The writes of a program, and the channels it reads before it is replayed.
LEMMA ProgramOK ==
  ASSUME NEW prog \in Programs
  PROVE  /\ Len(prog) \in Nat /\ Touched(prog) \subseteq Channels
         /\ \A i \in 1 .. Len(prog) :
              /\ prog[i].op \in WriteOps /\ prog[i].ch \in Channels
              /\ prog[i].op # "create" => prog[i].ch \in Touched(prog)
<1> DEFINE W == [op: WriteOps, ch: Channels]
<1>1. prog \in Seq(W)
  BY PlanAssumption
<1> HIDE DEF W
<1>2. Len(prog) \in Nat /\ DOMAIN prog = 1 .. Len(prog) /\ \A i \in 1 .. Len(prog) : prog[i] \in W
  BY <1>1
<1>3. \A i \in 1 .. Len(prog) : prog[i].op \in WriteOps /\ prog[i].ch \in Channels
  BY <1>2 DEF W
<1> QED BY <1>2, <1>3 DEF Touched

\* What prepare records of the channels a program reads.
LEMMA DecisionOK ==
  ASSUME NEW prog \in Programs, world \in [Channels -> Values]
  PROVE  Decision(prog, world).pre \in [Touched(prog) -> Values]
BY ProgramOK DEF Decision

---------------------------------------------------------------------------
(* The store. *)

\* A plan that is added has a new id, so ids stay unique.
LEMMA StoreCreate ==
  ASSUME StoreOK, NEW p, Create(p), p.id = nextId, p.principal \in Principals,
         p.expires = now + PlanTTL, nextId <= 2 * MaxPlans
  PROVE  StoreOK'
<1>1. nextId' = nextId + 1 /\ now' = now /\ store' \subseteq store \cup {p}
  BY PruneSub DEF Create
<1>2. nextId \in Nat /\ nextId' \in 1 .. 2 * MaxPlans + 1 /\ now' \in 0 .. MaxTime
  BY <1>1, Bounds DEF StoreOK
<1>3. p.id \in 1 .. nextId' - 1 /\ p.expires \in 1 .. MaxTime + PlanTTL
  BY <1>1, <1>2, Bounds DEF StoreOK
<1>4. ASSUME NEW q \in store'
      PROVE  /\ q.id \in 1 .. nextId' - 1 /\ q.principal \in Principals
             /\ q.expires \in 1 .. MaxTime + PlanTTL
  BY <1>1, <1>2, <1>3, <1>4 DEF StoreOK
<1>5. ASSUME NEW q \in store', NEW r \in store', q.id = r.id PROVE q = r
  <2>1. \A x \in store : x.id # p.id
    BY <1>2 DEF StoreOK
  <2> QED BY <1>1, <1>5, <2>1 DEF StoreOK
<1> QED BY <1>2, <1>4, <1>5 DEF StoreOK

\* A claim, a restart and the clock keep the store well formed.
LEMMA StoreOther ==
  ASSUME StoreOK, (\E P : TakePlan(P)) \/ ForgetPlans \/ Expire
  PROVE  StoreOK' /\ store' \subseteq store /\ nextId' = nextId
<1>1. CASE \E P : TakePlan(P)
  <2>1. store' \subseteq store /\ nextId' = nextId /\ now' = now
    BY <1>1, PruneSub DEF TakePlan
  <2> QED BY <2>1 DEF StoreOK
<1>2. CASE ForgetPlans
  BY <1>2 DEF ForgetPlans, StoreOK
<1>3. CASE Expire
  BY <1>3, Bounds DEF Expire, StoreOK
<1> QED BY <1>1, <1>2, <1>3

\* What a claim entitles to has left the store, and is what was asked for.
LEMMA ClaimTakes ==
  ASSUME StoreOK, NEW id, NEW op, NEW who, NEW h,
         TakePlan(Claimable(id, op, who, h)), Claimable(id, op, who, h) # {},
         NEW p, p = CHOOSE q \in Claimable(id, op, who, h) : TRUE
  PROVE  p \in store /\ p.op = op /\ \A q \in store' : q.id # p.id
<1>1. p \in Claimable(id, op, who, h)
  OBVIOUS
<1>2. p \in store /\ p.id = id /\ p.op = op
  BY <1>1, PruneSub DEF Claimable
<1>3. ASSUME NEW q \in store', q.id = p.id PROVE FALSE
  <2>1. q \in store /\ q \notin Claimable(id, op, who, h)
    BY PruneSub DEF TakePlan
  <2>2. q = p
    BY <1>2, <1>3, <2>1 DEF StoreOK
  <2> QED BY <1>1, <2>1, <2>2
<1> QED BY <1>2, <1>3

---------------------------------------------------------------------------
(* How many plans there can be. *)

\* A set of the ids that prepare gives.
LEMMA FewIds ==
  ASSUME NEW R, R \subseteq 1 .. MaxPlans
  PROVE  IsFiniteSet(R) /\ Cardinality(R) \in Nat /\ Cardinality(R) <= MaxPlans
<1>1. IsFiniteSet(1 .. MaxPlans) /\ Cardinality(1 .. MaxPlans) = MaxPlans
  BY Bounds, FS_Interval
<1>2. IsFiniteSet(R) /\ Cardinality(R) <= MaxPlans
  BY <1>1, FS_Subset
<1> QED BY <1>2, FS_CardinalityType

\* Refresh phases that are over are counted by the ids prepare gave.
LEMMA RefreshedIds ==
  ASSUME TypeOK, PlansInv
  PROVE  Refreshed \subseteq 1 .. MaxPlans
<1> SUFFICES ASSUME NEW c \in Commits, held[c] # NoPlan, held[c].op = "refresh"
             PROVE  held[c].id \in 1 .. MaxPlans
  BY DEF Refreshed
<1> QED BY Bounds DEF TypeOK, StoreOK, PlansInv, PlanOK

\* There is an id left for the plan of an execute phase.
LEMMA RoomForExecute ==
  ASSUME TypeOK, ClaimInv, ControlInv, NEW c \in Commits, pc[c] = "refreshing"
  PROVE  /\ nextId <= 2 * MaxPlans
         /\ held[c].id \notin Refreshed
         /\ Cardinality(Refreshed \cup {held[c].id}) = Cardinality(Refreshed) + 1
<1> DEFINE R == Refreshed  i == held[c].id
<1>1. i \in 1 .. MaxPlans /\ R \subseteq 1 .. MaxPlans
  BY Bounds, RefreshedIds DEF TypeOK, StoreOK, ClaimInv, PlansInv, PlanOK, ControlInv
<1>2. i \notin R
  BY DEF Refreshed, ClaimInv, PlansInv, ControlInv
<1>3. nextId <= MaxPlans + 1 + Cardinality(R) /\ nextId \in Nat
  BY DEF ClaimInv, TypeOK, StoreOK
<1> HIDE DEF R, i
<1>4. IsFiniteSet(R) /\ Cardinality(R) \in Nat /\ Cardinality(R \cup {i}) <= MaxPlans
  BY <1>1, FewIds
<1>5. Cardinality(R \cup {i}) = Cardinality(R) + 1
  BY <1>2, <1>4, FS_AddElement
<1>6. nextId <= 2 * MaxPlans
  BY <1>3, <1>4, <1>5, Bounds
<1> QED BY <1>2, <1>5, <1>6 DEF R, i

---------------------------------------------------------------------------
(* Types. *)

\* A fault, and an answer that is lost, stay within their bounds.
LEMMA FaultOK ==
  ASSUME TypeOK, UNCHANGED budget \/ Fault
  PROVE  /\ edits' \in 0 .. MaxEdits /\ faults' \in 0 .. MaxFaults
         /\ lost' \in 0 .. MaxLost /\ crashes' \in 0 .. MaxCrashes
BY Bounds DEF TypeOK, budget, Fault

LEMMA LostOK ==
  ASSUME TypeOK, NEW c \in Commits, Lost(c)
  PROVE  /\ edits' \in 0 .. MaxEdits /\ faults' \in 0 .. MaxFaults
         /\ lost' \in 0 .. MaxLost /\ crashes' \in 0 .. MaxCrashes
         /\ lostBy' \subseteq Commits
BY Bounds DEF TypeOK, Lost

\* A commit that holds the lock has a program and the values it was planned for.
LEMMA HeldOK ==
  ASSUME ClaimInv, ControlInv, NEW c \in Commits, pc[c] \in Locked \cup {"waiting"}
  PROVE  /\ Prog(c) \in Programs /\ Pre(c) \in [Touched(Prog(c)) -> Values]
         /\ DOMAIN Pre(c) = Touched(Prog(c)) /\ DOMAIN Pre(c) \subseteq Channels
<1>1. Prog(c) \in Programs /\ Pre(c) \in [Touched(Prog(c)) -> Values]
  BY DEF ClaimInv, PlansInv, ControlInv, PlanOK, Prog, Pre
<1> QED BY <1>1, ProgramOK

\* A write leaves a well-formed channel.
LEMMA WrittenOK ==
  ASSUME NEW w, w.op \in WriteOps \ {"create"}, NEW v \in Values, v # Gone
  PROVE  Written(w, v) \in Values
<1> DEFINE Fields == {"base", "edit", "plan"}
<1>1. v \in [body: Fields, num: Fields]
  BY DEF Values
<1>2. [v EXCEPT !.body = "plan"] \in [body: Fields, num: Fields]
  BY <1>1
<1>3. [v EXCEPT !.num = "plan"] \in [body: Fields, num: Fields]
  BY <1>1
<1> QED BY <1>2, <1>3 DEF Written, Values, WriteOps

\* What a write that happens leaves of the types.
LEMMA ExecutedOK ==
  ASSUME TypeOK, ClaimInv, ControlInv, NEW c \in Commits, pc[c] = "replaying",
         NEW i \in 1 .. Len(Prog(c)), Executed(c, i)
  PROVE  /\ world' \in [Channels -> Values]
         /\ \A m \in made' : m[1] \in Commits /\ m[2] \in Nat
         /\ clobbered' \in [Commits -> SUBSET Channels] /\ ran' \in [Commits -> SUBSET Nat]
<1> DEFINE w == Prog(c)[i]
<1>1. w.op \in WriteOps /\ w.ch \in Channels /\ i \in Nat
  BY HeldOK, ProgramOK DEF Locked
<1> HIDE DEF w
<1>2. ran' \in [Commits -> SUBSET Nat]
  BY <1>1 DEF Executed, TypeOK
<1>3. CASE w.op = "create"
  <2>1. made' = made \cup {<<c, i>>} /\ UNCHANGED <<world, clobbered>>
    BY <1>3 DEF Executed, w
  <2> QED BY <1>1, <1>2, <2>1 DEF TypeOK
<1>4. CASE w.op # "create"
  <2>1. /\ world[w.ch] # Gone /\ world' = [world EXCEPT ![w.ch] = Written(w, @)]
        /\ clobbered' = clobbered \/ clobbered' = [clobbered EXCEPT ![c] = @ \cup {w.ch}]
        /\ UNCHANGED made
    BY <1>4 DEF Executed, w
  <2>2. Written(w, world[w.ch]) \in Values
    BY <1>1, <1>4, <2>1, WrittenOK DEF TypeOK
  <2>3. world' \in [Channels -> Values]
    BY <2>1, <2>2 DEF TypeOK
  <2>4. clobbered' \in [Commits -> SUBSET Channels]
    <3>1. clobbered[c] \cup {w.ch} \in SUBSET Channels
      BY <1>1 DEF TypeOK
    <3> QED BY <2>1, <3>1 DEF TypeOK
  <2> QED BY <1>2, <2>1, <2>3, <2>4 DEF TypeOK
<1> QED BY <1>3, <1>4

\* What a compensation leaves of the types.
LEMMA UndoneOK ==
  ASSUME TypeOK, ClaimInv, ControlInv, NEW c \in Commits, pc[c] = "compensating",
         NEW i \in 1 .. Len(Prog(c)), Undone(c, i)
  PROVE  /\ world' \in [Channels -> Values]
         /\ \A m \in made' : m[1] \in Commits /\ m[2] \in Nat
<1> DEFINE w == Prog(c)[i]
<1>1. w.op \in WriteOps /\ w.ch \in Channels /\ (w.op # "create" => w.ch \in Touched(Prog(c)))
  BY HeldOK, ProgramOK DEF Locked
<1>2. Pre(c) \in [Touched(Prog(c)) -> Values]
  BY HeldOK DEF Locked
<1> HIDE DEF w
<1>3. CASE w.op = "create"
  <2>1. made' = made \ {<<c, i>>} /\ UNCHANGED world
    BY <1>3 DEF Undone, w
  <2> QED BY <2>1 DEF TypeOK
<1>4. CASE w.op # "create"
  <2>1. world' = [world EXCEPT ![w.ch] = Pre(c)[w.ch]] /\ UNCHANGED made
    BY <1>4 DEF Undone, w
  <2>2. Pre(c)[w.ch] \in Values
    BY <1>1, <1>2, <1>4
  <2> QED BY <1>1, <2>1, <2>2 DEF TypeOK
<1> QED BY <1>3, <1>4

\* Every action keeps the variables within their types.
LEMMA TypeStep ==
  TypeOK /\ ClaimInv /\ ControlInv /\ ProgressInv /\ [Next]_vars => TypeOK'
<1> SUFFICES ASSUME TypeOK, ClaimInv, ControlInv, ProgressInv, [Next]_vars PROVE TypeOK'
  OBVIOUS
<1> USE DEF storeVars, commitVars, budget, history
<1>1. ASSUME NEW who \in Principals, Prepare(who) PROVE TypeOK'
  <2>1. PICK p : /\ Create(p) /\ p.id = nextId /\ p.principal = who
                 /\ p.expires = now + PlanTTL
    <3>1. CASE Create(RefreshPlan(who))
      BY <3>1 DEF RefreshPlan
    <3>2. ASSUME NEW prog, Create(ExecutePlan(who, prog))
          PROVE  \E p : /\ Create(p) /\ p.id = nextId /\ p.principal = who
                        /\ p.expires = now + PlanTTL
      BY <3>2 DEF ExecutePlan
    <3> QED BY <1>1, <3>1, <3>2 DEF Prepare
  <2>2. nextId <= 2 * MaxPlans
    BY <1>1, Bounds DEF Prepare, MayPrepare, TypeOK, StoreOK
  <2>3. StoreOK'
    BY <2>1, <2>2, StoreCreate DEF TypeOK
  <2> QED BY <1>1, <2>3 DEF Prepare, TypeOK
<1>2. ASSUME NEW c \in Commits, NEW id \in PlanIds, NEW op \in Phases, NEW who \in Principals,
             NEW h \in BOOLEAN, Claim(c, id, op, who, h)
      PROVE  TypeOK'
  <2>1. StoreOK'
    BY <1>2, StoreOther DEF Claim, TypeOK
  <2>2. pc' \in [Commits -> PCs]
    BY <1>2 DEF Claim, TypeOK, PCs
  <2>3. ASSUME NEW d \in Commits PROVE held'[d] = NoPlan \/ held'[d].op \in Phases
    <3> DEFINE P == Claimable(id, op, who, h)
    <3>1. CASE P = {}
      BY <1>2, <3>1 DEF Claim, TypeOK
    <3>2. CASE P # {}
      <4>1. TakePlan(P) /\ held' = [held EXCEPT ![c] = CHOOSE p \in P : TRUE]
        BY <1>2, <3>2 DEF Claim
      <4>2. (CHOOSE p \in P : TRUE).op = op
        BY <3>2, <4>1, ClaimTakes DEF TypeOK
      <4> QED BY <4>1, <4>2 DEF TypeOK, ClaimInv, PlansInv
    <3> QED BY <3>1, <3>2
  <2> QED BY <1>2, <2>1, <2>2, <2>3 DEF Claim, TypeOK
<1>3. ASSUME NEW c \in Commits, RefreshPhase(c) PROVE TypeOK'
  <2>1. CASE UNCHANGED storeVars
    BY <1>3, <2>1, FaultOK DEF RefreshPhase, TypeOK, StoreOK, PCs
  <2>2. CASE \E prog \in Programs : Create(ExecutePlan(held[c].principal, prog))
    <3>1. held[c].principal \in Principals
      BY <1>3 DEF RefreshPhase, ControlInv, ClaimInv, PlansInv, PlanOK
    <3>2. PICK p : /\ Create(p) /\ p.id = nextId /\ p.principal \in Principals
                   /\ p.expires = now + PlanTTL
      BY <2>2, <3>1 DEF ExecutePlan
    <3>3. nextId <= 2 * MaxPlans
      BY <1>3, RoomForExecute DEF RefreshPhase
    <3>4. StoreOK'
      BY <3>2, <3>3, StoreCreate DEF TypeOK
    <3> QED BY <1>3, <3>4, FaultOK DEF RefreshPhase, TypeOK, PCs
  <2> QED BY <1>3, <2>1, <2>2 DEF RefreshPhase
<1>4. ASSUME NEW c \in Commits, Enter(c) PROVE TypeOK'
  BY <1>4 DEF Enter, TakeLock, Ends, TypeOK, StoreOK, PCs
<1>5. ASSUME NEW c \in Commits, OpenRow(c) PROVE TypeOK'
  BY <1>5 DEF OpenRow, Ends, TypeOK, StoreOK, PCs
<1>6. ASSUME NEW c \in Commits, CommitEvidence(c) PROVE TypeOK'
  <2>1. DOMAIN Pre(c) \subseteq Channels
    BY <1>6, HeldOK DEF CommitEvidence, Locked
  <2> QED BY <1>6, <2>1, FaultOK DEF CommitEvidence, Ends, TypeOK, StoreOK, PCs
<1>7. ASSUME NEW c \in Commits, RevalidateOne(c) PROVE TypeOK'
  BY <1>7, FaultOK DEF RevalidateOne, MarkFailed, Ends, TypeOK, StoreOK, PCs
<1>8. ASSUME NEW c \in Commits, ReplayOne(c) PROVE TypeOK'
  <2>1. k[c] \in 1 .. Len(Prog(c)) /\ pc[c] = "replaying"
    <3>1. Prog(c) \in Programs /\ k[c] \in Nat /\ k[c] > 0 /\ k[c] <= Len(Prog(c))
      BY <1>8, HeldOK DEF ReplayOne, Locked, ProgressInv, Progress, TypeOK
    <3> QED BY <1>8, <3>1, ProgramOK DEF ReplayOne
  <2>2. /\ world' \in [Channels -> Values]
        /\ \A m \in made' : m[1] \in Commits /\ m[2] \in Nat
        /\ clobbered' \in [Commits -> SUBSET Channels] /\ ran' \in [Commits -> SUBSET Nat]
    BY <1>8, <2>1, ExecutedOK DEF ReplayOne, TypeOK
  <2>3. /\ edits' \in 0 .. MaxEdits /\ faults' \in 0 .. MaxFaults
        /\ lost' \in 0 .. MaxLost /\ crashes' \in 0 .. MaxCrashes
        /\ lostBy' \subseteq Commits
    BY <1>8, FaultOK, LostOK DEF ReplayOne, TypeOK
  <2>4. k' \in [Commits -> Nat] /\ failedAt' \in [Commits -> Nat] /\ pc' \in [Commits -> PCs]
    <3>1. k[c] \in Nat /\ k[c] + 1 \in Nat /\ k[c] - 1 \in Nat
      BY <2>1
    <3>2. /\ k' = [k EXCEPT ![c] = k[c] + 1] \/ k' = [k EXCEPT ![c] = k[c] - 1]
          /\ failedAt' = failedAt \/ failedAt' = [failedAt EXCEPT ![c] = k[c]]
          /\ pc' = pc \/ pc' = [pc EXCEPT ![c] = "compensating"]
      BY <1>8 DEF ReplayOne, FailIndex
    <3> QED BY <3>1, <3>2 DEF TypeOK, PCs
  <2> QED BY <1>8, <2>2, <2>3, <2>4 DEF ReplayOne, TypeOK, StoreOK
<1>9. ASSUME NEW c \in Commits, ReplayDone(c) PROVE TypeOK'
  BY <1>9 DEF ReplayDone, TypeOK, StoreOK, PCs
<1>10. ASSUME NEW c \in Commits, Compensate(c) PROVE TypeOK'
  <2>1. k[c] \in 1 .. Len(Prog(c)) /\ pc[c] = "compensating"
    <3>1. /\ Prog(c) \in Programs /\ k[c] \in Nat /\ k[c] # 0 /\ failedAt[c] \in Nat
          /\ k[c] < failedAt[c] /\ failedAt[c] <= Len(Prog(c))
      BY <1>10, HeldOK DEF Compensate, CompensationEnds, Locked, ProgressInv, Progress, TypeOK
    <3> QED BY <1>10, <3>1, ProgramOK DEF Compensate
  <2>2. /\ world' \in [Channels -> Values]
        /\ \A m \in made' : m[1] \in Commits /\ m[2] \in Nat
    BY <1>10, <2>1, UndoneOK DEF Compensate, TypeOK
  <2>3. /\ edits' \in 0 .. MaxEdits /\ faults' \in 0 .. MaxFaults
        /\ lost' \in 0 .. MaxLost /\ crashes' \in 0 .. MaxCrashes
        /\ lostBy' \subseteq Commits
    BY <1>10, FaultOK, LostOK DEF Compensate, TypeOK
  <2>4. k' \in [Commits -> Nat] /\ compErrs' \subseteq Commits
    BY <1>10, <2>1 DEF Compensate, TypeOK
  <2> QED BY <1>10, <2>2, <2>3, <2>4 DEF Compensate, TypeOK, StoreOK
<1>11. ASSUME NEW c \in Commits, ReplayFailed(c) PROVE TypeOK'
  BY <1>11 DEF ReplayFailed, MarkFailed, Ends, TypeOK, StoreOK, PCs
<1>12. ASSUME NEW c \in Commits, Finalize(c) PROVE TypeOK'
  BY <1>12, FaultOK DEF Finalize, Ends, TypeOK, StoreOK, PCs
<1>13. ASSUME NEW ch \in Channels, OutsideEdit(ch) PROVE TypeOK'
  <2>1. [body |-> "edit", num |-> "edit"] \in Values
    BY DEF Values
  <2> QED BY <1>13, <2>1, Bounds DEF OutsideEdit, TypeOK, StoreOK
<1>14. CASE Crash
  <2>1. StoreOK'
    BY <1>14, StoreOther DEF Crash, TypeOK
  <2>2. crashes' \in 0 .. MaxCrashes
    BY <1>14, Bounds DEF Crash, TypeOK
  <2> QED BY <1>14, <2>1, <2>2 DEF Crash, TypeOK, PCs
<1>15. CASE Tick
  <2>1. StoreOK'
    BY <1>15, StoreOther DEF Tick, TypeOK
  <2> QED BY <1>15, <2>1 DEF Tick, TypeOK
<1>16. CASE UNCHANGED vars
  BY <1>16 DEF vars, TypeOK, StoreOK
<1> QED BY <1>1, <1>2, <1>3, <1>4, <1>5, <1>6, <1>7, <1>8, <1>9, <1>10, <1>11, <1>12, <1>13, <1>14, <1>15, <1>16 DEF Next

---------------------------------------------------------------------------
(* Plans and claims. *)

\* A commit that is over stays over, with the plan it held.
LEMMA DoneStays ==
  ASSUME TypeOK, PlansInv, [Next]_vars, NEW d \in Commits, pc[d] = "done"
  PROVE  pc'[d] = "done" /\ held'[d] = held[d]
<1> USE DEF TypeOK, PlansInv, commitVars
<1>1. ASSUME NEW who \in Principals, Prepare(who) PROVE pc'[d] = "done" /\ held'[d] = held[d]
  BY <1>1 DEF Prepare
<1>2. ASSUME NEW c \in Commits, NEW id \in PlanIds, NEW op \in Phases, NEW who \in Principals,
             NEW h \in BOOLEAN, Claim(c, id, op, who, h)
      PROVE  pc'[d] = "done" /\ held'[d] = held[d]
  <2>1. c # d
    BY <1>2 DEF Claim
  <2>2. held' = held \/ \E x : held' = [held EXCEPT ![c] = x]
    BY <1>2 DEF Claim
  <2>3. pc' = pc \/ \E x : pc' = [pc EXCEPT ![c] = x]
    BY <1>2 DEF Claim
  <2> QED BY <2>1, <2>2, <2>3
<1>3. ASSUME NEW c \in Commits, Step(c) PROVE pc'[d] = "done" /\ held'[d] = held[d]
  <2>1. held' = held
    BY <1>3 DEF Step, RefreshPhase, Enter, OpenRow, CommitEvidence, RevalidateOne, ReplayOne,
      ReplayDone, Compensate, ReplayFailed, Finalize
  <2>2. c # d
    BY <1>3 DEF Step, RefreshPhase, Enter, OpenRow, CommitEvidence, RevalidateOne, ReplayOne,
      ReplayDone, Compensate, ReplayFailed, Finalize
  <2>3. pc' = pc \/ \E x : pc' = [pc EXCEPT ![c] = x]
    BY <1>3 DEF Step, RefreshPhase, Enter, OpenRow, CommitEvidence, RevalidateOne, ReplayOne,
      ReplayDone, Compensate, ReplayFailed, Finalize, Ends
  <2> QED BY <2>1, <2>2, <2>3
<1>4. ASSUME NEW ch \in Channels, OutsideEdit(ch) PROVE pc'[d] = "done" /\ held'[d] = held[d]
  BY <1>4 DEF OutsideEdit
<1>5. CASE Crash
  BY <1>5 DEF Crash
<1>6. CASE Tick
  BY <1>6 DEF Tick
<1>7. CASE UNCHANGED vars
  BY <1>7 DEF vars
<1> QED BY <1>1, <1>2, <1>3, <1>4, <1>5, <1>6, <1>7 DEF Next, Step

\* A plan stays one that prepare or a refresh phase built.
LEMMA PlanKept ==
  ASSUME NEW p, PlanOK(p), nextId \in Nat, nextId' = nextId \/ nextId' = nextId + 1
  PROVE  PlanOK(p)'
BY DEF PlanOK

\* The plan of an execute phase, and that of a refresh.
LEMMA ExecutePlanOK ==
  ASSUME TypeOK, NEW who \in Principals, NEW prog \in Programs,
         Create(ExecutePlan(who, prog)), NEW p, p = ExecutePlan(who, prog)
  PROVE  p.id = nextId /\ PlanOK(p)'
<1>1. /\ p.id = nextId /\ p.principal = who /\ p.op = "execute" /\ p.prog = prog
      /\ p.decision = Decision(prog, world)
  BY DEF ExecutePlan
<1>2. p.decision.pre \in [Touched(prog) -> Values]
  BY <1>1, DecisionOK DEF TypeOK
<1>3. nextId \in Nat /\ nextId > 0 /\ nextId' = nextId + 1
  BY DEF TypeOK, StoreOK, Create
<1>4. p.id \in 1 .. nextId' - 1
  BY <1>1, <1>3
<1> QED BY <1>1, <1>2, <1>4 DEF PlanOK, Phases

LEMMA RefreshPlanOK ==
  ASSUME TypeOK, NEW who \in Principals, MayPrepare,
         Create(RefreshPlan(who)), NEW p, p = RefreshPlan(who)
  PROVE  p.id = nextId /\ PlanOK(p)'
<1>1. p.id = nextId /\ p.principal = who /\ p.op = "refresh"
  BY DEF RefreshPlan
<1>2. nextId \in Nat /\ nextId > 0 /\ nextId' = nextId + 1
  BY DEF TypeOK, StoreOK, Create
<1>3. p.id \in 1 .. nextId' - 1 /\ p.id <= MaxPlans
  BY <1>1, <1>2 DEF MayPrepare
<1> QED BY <1>1, <1>3 DEF PlanOK, Phases

\* Adding a plan with a new id.
LEMMA PlansCreate ==
  ASSUME TypeOK, PlansInv, NEW p, Create(p), p.id = nextId, PlanOK(p)', UNCHANGED held
  PROVE  PlansInv'
<1>1. store' \subseteq store \cup {p} /\ nextId \in Nat /\ nextId' = nextId + 1
  BY PruneSub DEF Create, TypeOK, StoreOK
<1>2. ASSUME NEW q \in store' PROVE PlanOK(q)'
  BY <1>1, PlanKept DEF PlansInv
<1>3. ASSUME NEW c \in Commits, held[c] # NoPlan
      PROVE  /\ PlanOK(held[c])' /\ \A q \in store' : q.id # held[c].id
  <2>1. PlanOK(held[c]) /\ held'[c] = held[c]
    BY <1>3 DEF PlansInv
  <2>2. PlanOK(held[c])'
    BY <1>1, <2>1 DEF PlanOK
  <2>3. p.id # held[c].id
    BY <1>1, <2>1 DEF PlanOK
  <2> QED BY <1>1, <1>3, <2>2, <2>3 DEF PlansInv
<1> QED BY <1>2, <1>3 DEF PlansInv

\* Taking plans away, when nobody claims one.
LEMMA PlansFewer ==
  ASSUME PlansInv, store' \subseteq store, UNCHANGED <<nextId, held>>
  PROVE  PlansInv'
BY DEF PlansInv, PlanOK

\* A plan is held by at most one commit, and by none while it is in the store.
LEMMA PlansStep ==
  TypeOK /\ ClaimInv /\ ControlInv /\ [Next]_vars => PlansInv'
<1> SUFFICES ASSUME TypeOK, ClaimInv, ControlInv, [Next]_vars PROVE PlansInv'
  OBVIOUS
<1>0. PlansInv
  BY DEF ClaimInv
<1> USE DEF storeVars, commitVars
<1>1. ASSUME NEW who \in Principals, Prepare(who) PROVE PlansInv'
  <2>1. CASE Create(RefreshPlan(who))
    BY <1>0, <1>1, <2>1, RefreshPlanOK, PlansCreate DEF Prepare
  <2>2. ASSUME NEW prog \in Programs, Create(ExecutePlan(who, prog)) PROVE PlansInv'
    BY <1>0, <1>1, <2>2, ExecutePlanOK, PlansCreate DEF Prepare
  <2> QED BY <1>1, <2>1, <2>2 DEF Prepare
<1>2. ASSUME NEW c \in Commits, NEW id \in PlanIds, NEW op \in Phases, NEW who \in Principals,
             NEW h \in BOOLEAN, Claim(c, id, op, who, h)
      PROVE  PlansInv'
  <2> DEFINE P == Claimable(id, op, who, h)
  <2>1. StoreOK /\ TakePlan(P) /\ held[c] = NoPlan
    BY <1>2 DEF Claim, TypeOK, ControlInv
  <2>2. store' \subseteq store /\ nextId' = nextId
    BY <2>1, StoreOther
  <2>3. CASE P = {}
    BY <1>0, <1>2, <2>2, <2>3, PlansFewer DEF Claim
  <2>4. CASE P # {}
    <3> DEFINE p == CHOOSE q \in P : TRUE
    <3>1. held' = [held EXCEPT ![c] = p]
      BY <1>2, <2>4 DEF Claim
    <3>2. p \in store /\ \A q \in store' : q.id # p.id
      BY <2>1, <2>4, ClaimTakes
    <3> HIDE DEF p, P
    <3>3. PlanOK(p)
      BY <1>0, <3>2 DEF PlansInv
    <3>4. held' = [d \in Commits |-> IF d = c THEN p ELSE held[d]]
      BY <1>0, <3>1 DEF PlansInv
    <3>5. ASSUME NEW d \in Commits, held'[d] # NoPlan
          PROVE  /\ PlanOK(held[d])' /\ \A q \in store' : q.id # held'[d].id
                 /\ \A e \in Commits : held'[e].id = held'[d].id => e = d
      <4>1. held'[d] = p \/ (d # c /\ held'[d] = held[d])
        BY <3>4
      <4>2. PlanOK(held[d])'
        BY <1>0, <2>2, <3>3, <3>5, <4>1 DEF PlansInv, PlanOK
      <4>3. \A q \in store' : q.id # held'[d].id
        BY <1>0, <2>2, <3>2, <3>5, <4>1 DEF PlansInv
      <4>4. ASSUME NEW e \in Commits, held'[e].id = held'[d].id PROVE e = d
        <5>1. \A x \in Commits : x # c => held[x].id # p.id
          BY <1>0, <3>2, <3>3 DEF PlansInv, PlanOK, NoPlan
        <5> QED BY <1>0, <3>4, <3>5, <4>4, <5>1 DEF PlansInv
      <4> QED BY <4>2, <4>3, <4>4
    <3>6. ASSUME NEW q \in store' PROVE PlanOK(q)'
      BY <1>0, <2>2 DEF PlansInv, PlanOK
    <3>7. (held = [d \in Commits |-> held[d]])'
      BY <3>4
    <3> QED BY <3>5, <3>6, <3>7 DEF PlansInv
  <2> QED BY <2>3, <2>4
<1>3. ASSUME NEW c \in Commits, RefreshPhase(c) PROVE PlansInv'
  <2>1. held[c].principal \in Principals
    BY <1>0, <1>3 DEF RefreshPhase, ControlInv, PlansInv, PlanOK
  <2>2. ASSUME NEW prog \in Programs, Create(ExecutePlan(held[c].principal, prog))
        PROVE  PlansInv'
    BY <1>0, <1>3, <2>1, <2>2, ExecutePlanOK, PlansCreate DEF RefreshPhase
  <2>3. CASE UNCHANGED storeVars
    BY <1>0, <1>3, <2>3, PlansFewer DEF RefreshPhase
  <2> QED BY <1>3, <2>2, <2>3 DEF RefreshPhase
<1>4. ASSUME NEW c \in Commits, Step(c), ~RefreshPhase(c) PROVE PlansInv'
  <2>1. UNCHANGED <<store, nextId, held>>
    BY <1>4 DEF Step, Enter, OpenRow, CommitEvidence, RevalidateOne, ReplayOne,
      ReplayDone, Compensate, ReplayFailed, Finalize
  <2> QED BY <1>0, <2>1, PlansFewer
<1>5. ASSUME NEW ch \in Channels, OutsideEdit(ch) PROVE PlansInv'
  BY <1>0, <1>5, PlansFewer DEF OutsideEdit
<1>6. CASE Crash
  BY <1>0, <1>6, PlansFewer DEF Crash, ForgetPlans
<1>7. CASE Tick
  BY <1>0, <1>7, PlansFewer DEF Tick, Expire
<1>8. CASE UNCHANGED vars
  BY <1>0, <1>8, PlansFewer DEF vars
<1> QED BY <1>1, <1>2, <1>3, <1>4, <1>5, <1>6, <1>7, <1>8 DEF Next, Step

\* Every id beyond those of prepare was given by a refresh phase that is over.
LEMMA ClaimStep ==
  TypeOK /\ ClaimInv /\ ControlInv /\ TypeOK' /\ [Next]_vars => ClaimInv'
<1> SUFFICES ASSUME TypeOK, ClaimInv, ControlInv, TypeOK', [Next]_vars PROVE ClaimInv'
  OBVIOUS
<1>1. PlansInv' /\ PlansInv
  BY PlansStep DEF ClaimInv
<1>2. Refreshed \subseteq 1 .. MaxPlans
  BY <1>1, RefreshedIds
<1>3. Refreshed' \subseteq 1 .. MaxPlans
  <2> SUFFICES ASSUME NEW c \in Commits, held'[c] # NoPlan, held'[c].op = "refresh"
               PROVE  held'[c].id \in 1 .. MaxPlans
    BY DEF Refreshed
  <2> QED BY <1>1, Bounds DEF TypeOK, StoreOK, PlansInv, PlanOK
<1>4. Refreshed \subseteq Refreshed'
  BY <1>1, DoneStays DEF Refreshed
<1>5. nextId \in Nat /\ nextId <= MaxPlans + 1 + Cardinality(Refreshed)
  BY DEF TypeOK, StoreOK, ClaimInv
<1> DEFINE R == Refreshed  Q == Refreshed'
<1> HIDE DEF R, Q
<1>6. /\ IsFiniteSet(Q) /\ Cardinality(R) \in Nat /\ Cardinality(Q) \in Nat
      /\ Cardinality(R) <= Cardinality(Q)
  <2>1. /\ IsFiniteSet(R) /\ Cardinality(R) \in Nat
        /\ IsFiniteSet(Q) /\ Cardinality(Q) \in Nat /\ R \subseteq Q
    BY <1>2, <1>3, <1>4, FewIds DEF R, Q
  <2> QED BY <2>1, FS_Subset
<1>7. nextId' <= MaxPlans + 1 + Cardinality(Q)
  <2>1. CASE nextId' = nextId
    BY <1>5, <1>6, <2>1, Bounds DEF R
  <2>2. ASSUME NEW who \in Principals, Prepare(who) PROVE nextId' <= MaxPlans + 1 + Cardinality(Q)
    <3>1. nextId' = nextId + 1 /\ nextId <= MaxPlans
      BY <2>2 DEF Prepare, MayPrepare, Create
    <3> QED BY <1>5, <1>6, <3>1, Bounds
  <2>3. ASSUME NEW c \in Commits, RefreshPhase(c) PROVE nextId' <= MaxPlans + 1 + Cardinality(Q)
    <3>1. nextId' = nextId \/ nextId' = nextId + 1
      BY <2>3 DEF RefreshPhase, Create, storeVars
    <3>2. Cardinality(R \cup {held[c].id}) = Cardinality(R) + 1
      BY <2>3, RoomForExecute DEF RefreshPhase, R
    <3>3. held[c].id \in Q
      BY <2>3 DEF RefreshPhase, Q, Refreshed, ControlInv, TypeOK
    <3>4. Cardinality(R \cup {held[c].id}) <= Cardinality(Q)
      BY <1>4, <1>6, <3>3, FS_Subset DEF R, Q
    <3> QED BY <1>5, <1>6, <3>1, <3>2, <3>4, Bounds DEF R
  <2>4. \/ nextId' = nextId
        \/ \E who \in Principals : Prepare(who)
        \/ \E c \in Commits : RefreshPhase(c)
    BY DEF Next, Claim, TakePlan, Enter, OpenRow, CommitEvidence, RevalidateOne, ReplayOne,
      ReplayDone, Compensate, ReplayFailed, Finalize, OutsideEdit, Crash, ForgetPlans, Tick,
      Expire, storeVars, vars
  <2> QED BY <2>1, <2>2, <2>3, <2>4
<1> QED BY <1>1, <1>7 DEF ClaimInv, Q

---------------------------------------------------------------------------
(* Control. *)

\* Only the holder of the lock is between its check and its end.
LEMMA ControlStep ==
  TypeOK /\ ClaimInv /\ ControlInv /\ [Next]_vars => ControlInv'
<1> SUFFICES ASSUME TypeOK, ClaimInv, ControlInv, [Next]_vars PROVE ControlInv'
  OBVIOUS
<1> USE PlanAssumption DEF TypeOK, ControlInv, Locked, Recorded, storeVars, commitVars
<1>1. ASSUME NEW who \in Principals, Prepare(who) PROVE ControlInv'
  BY <1>1 DEF Prepare
<1>2. ASSUME NEW c \in Commits, NEW id \in PlanIds, NEW op \in Phases, NEW who \in Principals,
             NEW h \in BOOLEAN, Claim(c, id, op, who, h)
      PROVE  ControlInv'
  <2> DEFINE P == Claimable(id, op, who, h)
  <2>1. CASE P = {}
    BY <1>2, <2>1 DEF Claim
  <2>2. CASE P # {}
    <3> DEFINE p == CHOOSE q \in P : TRUE
    <3>1. /\ held' = [held EXCEPT ![c] = p]
          /\ pc' = [pc EXCEPT ![c] = IF op = "refresh" THEN "refreshing" ELSE "waiting"]
          /\ UNCHANGED <<lock, evidence>> /\ TakePlan(P)
      BY <1>2, <2>2 DEF Claim
    <3>2. p \in store /\ p.op = op
      <4>1. StoreOK
        OBVIOUS
      <4> QED BY ONLY <4>1, <2>2, <3>1, ClaimTakes
    <3> HIDE DEF p, P
    <3>3. p # NoPlan /\ held = [d \in Commits |-> held[d]]
      BY <3>2 DEF ClaimInv, PlansInv, PlanOK, NoPlan
    <3> QED BY <3>1, <3>2, <3>3 DEF Phases
  <2> QED BY <2>1, <2>2
<1>3. ASSUME NEW c \in Commits, RefreshPhase(c) PROVE ControlInv'
  BY <1>3 DEF RefreshPhase
<1>4. ASSUME NEW c \in Commits, Enter(c) PROVE ControlInv'
  BY <1>4 DEF Enter, TakeLock, Ends
<1>5. ASSUME NEW c \in Commits, OpenRow(c) PROVE ControlInv'
  BY <1>5 DEF OpenRow, Ends
<1>6. ASSUME NEW c \in Commits, CommitEvidence(c) PROVE ControlInv'
  BY <1>6 DEF CommitEvidence, Ends
<1>7. ASSUME NEW c \in Commits, RevalidateOne(c) PROVE ControlInv'
  BY <1>7 DEF RevalidateOne, Ends
<1>8. ASSUME NEW c \in Commits, ReplayOne(c) PROVE ControlInv'
  BY <1>8 DEF ReplayOne
<1>9. ASSUME NEW c \in Commits, ReplayDone(c) PROVE ControlInv'
  BY <1>9 DEF ReplayDone
<1>10. ASSUME NEW c \in Commits, Compensate(c) PROVE ControlInv'
  BY <1>10 DEF Compensate
<1>11. ASSUME NEW c \in Commits, ReplayFailed(c) PROVE ControlInv'
  BY <1>11 DEF ReplayFailed, Ends
<1>12. ASSUME NEW c \in Commits, Finalize(c) PROVE ControlInv'
  BY <1>12 DEF Finalize, Ends
<1>13. ASSUME NEW ch \in Channels, OutsideEdit(ch) PROVE ControlInv'
  BY <1>13 DEF OutsideEdit
<1>14. CASE Crash
  BY <1>14 DEF Crash
<1>15. CASE Tick
  BY <1>15 DEF Tick
<1>16. CASE UNCHANGED vars
  BY <1>16 DEF vars
<1> QED BY <1>1, <1>2, <1>3, <1>4, <1>5, <1>6, <1>7, <1>8, <1>9, <1>10, <1>11, <1>12, <1>13, <1>14, <1>15, <1>16 DEF Next

\* A commit that no step is about stays where it was.
LEMMA ProgressKept ==
  ASSUME NEW c \in Commits, Progress(c), evidence \subseteq evidence',
         UNCHANGED <<ran[c], pc[c], failedAt[c], k[c], held[c]>>
  PROVE  Progress(c)'
BY DEF Progress, Reported, Prog

\* The writes that happened are those of the position, and what a failed
\* replay reports is what it did.
LEMMA ProgressStep ==
  TypeOK /\ ClaimInv /\ ControlInv /\ ProgressInv /\ [Next]_vars => ProgressInv'
<1> SUFFICES ASSUME TypeOK, ClaimInv, ControlInv, ProgressInv, [Next]_vars PROVE ProgressInv'
  OBVIOUS
<1> USE DEF TypeOK, ProgressInv, Progress, Reported, Unwritten, storeVars, commitVars, history, Prog
<1>1. ASSUME NEW who \in Principals, Prepare(who) PROVE ProgressInv'
  BY <1>1 DEF Prepare
<1>2. ASSUME NEW c \in Commits, NEW id \in PlanIds, NEW op \in Phases, NEW who \in Principals,
             NEW h \in BOOLEAN, Claim(c, id, op, who, h)
      PROVE  ProgressInv'
  <2>1. /\ pc[c] = "idle" /\ UNCHANGED <<k, failedAt, evidence, ran>>
        /\ \E x \in {"idle", "refreshing", "waiting"} : pc' = [pc EXCEPT ![c] = x]
        /\ \A d \in Commits : d # c => held'[d] = held[d]
    BY <1>2 DEF Claim, ClaimInv, PlansInv
  <2> QED BY <2>1
<1>3. ASSUME NEW c \in Commits, RefreshPhase(c) PROVE ProgressInv'
  BY <1>3 DEF RefreshPhase
<1>4. ASSUME NEW c \in Commits, Enter(c) PROVE ProgressInv'
  BY <1>4 DEF Enter, Ends
<1>5. ASSUME NEW c \in Commits, OpenRow(c) PROVE ProgressInv'
  BY <1>5 DEF OpenRow, Ends
<1>6. ASSUME NEW c \in Commits, CommitEvidence(c) PROVE ProgressInv'
  BY <1>6 DEF CommitEvidence, Ends
<1>7. ASSUME NEW c \in Commits, RevalidateOne(c) PROVE ProgressInv'
  <2>1. /\ pc[c] = "revalidating" /\ UNCHANGED <<held, failedAt, evidence, ran>>
        /\ \/ pc' = pc /\ k' = k
           \/ pc' = [pc EXCEPT ![c] = "done"] /\ k' = k
           \/ pc' = [pc EXCEPT ![c] = "replaying"] /\ k' = [k EXCEPT ![c] = 1]
    BY <1>7 DEF RevalidateOne, Ends
  <2>2. Progress(c)'
    <3>1. /\ ran'[c] = {} /\ failedAt'[c] = 0 /\ 1 .. 1 - 1 = {}
          /\ \/ pc'[c] \in {"revalidating", "done"}
             \/ pc'[c] = "replaying" /\ k'[c] = 1
      BY <2>1
    <3> QED BY <3>1
  <2>3. ASSUME NEW d \in Commits, d # c PROVE Progress(d)'
    <3>1. UNCHANGED <<ran[d], pc[d], failedAt[d], k[d], held[d]>>
      BY <2>1, <2>3
    <3> QED BY <2>1, <3>1, ProgressKept
  <2> QED BY <2>2, <2>3
<1>8. ASSUME NEW c \in Commits, ReplayOne(c) PROVE ProgressInv'
  <2>1. /\ pc[c] = "replaying" /\ k[c] \in Nat /\ k[c] > 0 /\ ran[c] = 1 .. k[c] - 1
        /\ k[c] <= Len(Prog(c)) /\ failedAt[c] = 0 /\ c \in evidence
        /\ UNCHANGED <<held, evidence>>
    BY <1>8 DEF ReplayOne, ControlInv, Recorded
  <2>2. CASE /\ k' = [k EXCEPT ![c] = k[c] + 1] /\ ran' = [ran EXCEPT ![c] = @ \cup {k[c]}]
             /\ UNCHANGED <<pc, failedAt>>
    <3>1. k'[c] = k[c] + 1 /\ ran'[c] = 1 .. k[c] /\ pc'[c] = "replaying" /\ failedAt'[c] = 0
      BY <2>1, <2>2
    <3>2. Progress(c)'
      BY <2>1, <3>1
    <3>3. ASSUME NEW d \in Commits, d # c PROVE Progress(d)'
      <4>1. UNCHANGED <<ran[d], pc[d], failedAt[d], k[d], held[d]>>
        BY <2>1, <2>2, <3>3
      <4> QED BY <2>1, <4>1, ProgressKept
    <3> QED BY <3>2, <3>3
  <2>3. CASE /\ k' = [k EXCEPT ![c] = k[c] - 1] /\ failedAt' = [failedAt EXCEPT ![c] = k[c]]
             /\ pc' = [pc EXCEPT ![c] = "compensating"]
             /\ ran' = ran \/ ran' = [ran EXCEPT ![c] = @ \cup {k[c]}]
    <3>1. /\ failedAt'[c] = k[c] /\ k'[c] = k[c] - 1 /\ pc'[c] = "compensating"
          /\ ran'[c] = ran[c] \/ ran'[c] = ran[c] \cup {k[c]}
      BY <2>3
    <3>2. Progress(c)'
      BY <2>1, <3>1
    <3>3. ASSUME NEW d \in Commits, d # c PROVE Progress(d)'
      <4>1. UNCHANGED <<ran[d], pc[d], failedAt[d], k[d], held[d]>>
        BY <2>1, <2>3, <3>3
      <4> QED BY <2>1, <4>1, ProgressKept
    <3> QED BY <3>2, <3>3
  <2>4. ran' = ran \/ ran' = [ran EXCEPT ![c] = @ \cup {k[c]}]
    BY <1>8 DEF ReplayOne, Executed
  <2> QED BY <1>8, <2>2, <2>3, <2>4 DEF ReplayOne, Executed, FailIndex
<1>9. ASSUME NEW c \in Commits, ReplayDone(c) PROVE ProgressInv'
  BY <1>9 DEF ReplayDone
<1>10. ASSUME NEW c \in Commits, Compensate(c) PROVE ProgressInv'
  BY <1>10 DEF Compensate
<1>11. ASSUME NEW c \in Commits, ReplayFailed(c) PROVE ProgressInv'
  BY <1>11 DEF ReplayFailed, Ends
<1>12. ASSUME NEW c \in Commits, Finalize(c) PROVE ProgressInv'
  BY <1>12 DEF Finalize, Ends
<1>13. ASSUME NEW ch \in Channels, OutsideEdit(ch) PROVE ProgressInv'
  BY <1>13 DEF OutsideEdit
<1>14. CASE Crash
  BY <1>14 DEF Crash
<1>15. CASE Tick
  BY <1>15 DEF Tick
<1>16. CASE UNCHANGED vars
  BY <1>16 DEF vars
<1> QED BY <1>1, <1>2, <1>3, <1>4, <1>5, <1>6, <1>7, <1>8, <1>9, <1>10, <1>11, <1>12, <1>13, <1>14, <1>15, <1>16 DEF Next

---------------------------------------------------------------------------
(* What a step of one commit leaves alone of the others. *)

\* Two commits are never both under the lock.
LEMMA OneWriter ==
  ASSUME ControlInv, NEW c \in Commits, NEW d \in Commits, pc[c] \in Locked, pc[d] \in Locked
  PROVE  c = d
BY DEF ControlInv

\* A step of a commit changes nothing that another commit keeps for itself.
LEMMA OthersKept ==
  ASSUME TypeOK, NEW c \in Commits, Step(c), NEW d \in Commits, d # c
  PROVE  /\ UNCHANGED <<held, dirty>>
         /\ UNCHANGED <<pc[d], unread[d], ran[d], k[d], clobbered[d]>>
         /\ d \in compErrs' <=> d \in compErrs
         /\ d \in lostBy' <=> d \in lostBy
<1> USE DEF TypeOK, commitVars, history, Ends
<1>1. CASE RefreshPhase(c)
  BY <1>1 DEF RefreshPhase
<1>2. CASE Enter(c)
  BY <1>2 DEF Enter
<1>3. CASE OpenRow(c)
  BY <1>3 DEF OpenRow
<1>4. CASE CommitEvidence(c)
  BY <1>4 DEF CommitEvidence
<1>5. CASE RevalidateOne(c)
  BY <1>5 DEF RevalidateOne
<1>6. CASE ReplayOne(c)
  BY <1>6 DEF ReplayOne, Executed, Lost
<1>7. CASE ReplayDone(c)
  BY <1>7 DEF ReplayDone
<1>8. CASE Compensate(c)
  BY <1>8 DEF Compensate, Lost
<1>9. CASE ReplayFailed(c)
  BY <1>9 DEF ReplayFailed
<1>10. CASE Finalize(c)
  BY <1>10 DEF Finalize
<1> QED BY <1>1, <1>2, <1>3, <1>4, <1>5, <1>6, <1>7, <1>8, <1>9, <1>10 DEF Step

\* A claim concerns a commit that has done nothing, and touches no channel.
LEMMA ClaimKeeps ==
  ASSUME TypeOK, ClaimInv, NEW c \in Commits, NEW id, NEW op, NEW who, NEW h,
         Claim(c, id, op, who, h)
  PROVE  /\ pc[c] = "idle" /\ pc'[c] \in {"idle", "refreshing", "waiting"}
         /\ UNCHANGED <<world, made, unread, ran, k, clobbered, dirty, compErrs, lostBy>>
         /\ \A d \in Commits : d # c => pc'[d] = pc[d] /\ held'[d] = held[d]
BY DEF Claim, TypeOK, ClaimInv, PlansInv, history

\* Only a commit under the lock writes.
LEMMA WritesUnderLock ==
  ASSUME NEW c \in Commits, Step(c), pc[c] \notin {"replaying", "compensating"}
  PROVE  UNCHANGED <<world, made, clobbered, ran>>
BY DEF Step, RefreshPhase, Enter, OpenRow, CommitEvidence, RevalidateOne, ReplayOne,
     ReplayDone, Compensate, ReplayFailed, Finalize, history

---------------------------------------------------------------------------
(* What was made, and what was read. *)

\* A channel made by a commit belongs to a create it has run.
LEMMA MadeStep ==
  TypeOK /\ ClaimInv /\ ControlInv /\ ProgressInv /\ MadeInv /\ [Next]_vars => MadeInv'
<1> SUFFICES ASSUME TypeOK, ClaimInv, ControlInv, ProgressInv, MadeInv, [Next]_vars
             PROVE  MadeInv'
  OBVIOUS
<1> USE DEF history, commitVars
<1>1. ASSUME UNCHANGED <<made, ran, held>> PROVE MadeInv'
  BY <1>1 DEF MadeInv, Prog
<1>2. ASSUME NEW c \in Commits, NEW id \in PlanIds, NEW op \in Phases, NEW who \in Principals,
             NEW h \in BOOLEAN, Claim(c, id, op, who, h)
      PROVE  MadeInv'
  <2>1. ran[c] = {} /\ UNCHANGED <<made, ran>> /\ \A d \in Commits : d # c => held'[d] = held[d]
    BY <1>2, ClaimKeeps DEF ProgressInv, Progress, Unwritten
  <2> QED BY <2>1 DEF MadeInv, Prog
<1>3. ASSUME NEW c \in Commits, NEW i \in 1 .. Len(Prog(c)), Executed(c, i), UNCHANGED held
      PROVE  MadeInv'
  <2>1. \A d \in Commits : ran[d] \subseteq ran'[d]
    BY <1>3 DEF Executed, TypeOK
  <2>2. i \in Nat /\ i \in ran'[c]
    BY <1>3 DEF Executed, TypeOK
  <2>3. \/ made' = made
        \/ Prog(c)[i].op = "create" /\ made' = made \cup {<<c, i>>}
    BY <1>3 DEF Executed
  <2> QED BY <1>3, <2>1, <2>2, <2>3 DEF MadeInv, Prog
<1>4. ASSUME NEW c \in Commits, ReplayOne(c) PROVE MadeInv'
  <2>1. k[c] \in 1 .. Len(Prog(c))
    <3>1. Prog(c) \in Programs /\ k[c] \in Nat /\ k[c] > 0 /\ k[c] <= Len(Prog(c))
      BY <1>4, HeldOK DEF ReplayOne, Locked, ProgressInv, Progress, TypeOK
    <3> QED BY <3>1, ProgramOK
  <2> QED BY <1>1, <1>3, <1>4, <2>1 DEF ReplayOne
<1>5. ASSUME NEW c \in Commits, Compensate(c) PROVE MadeInv'
  <2>1. made' \subseteq made /\ UNCHANGED <<ran, held>>
    BY <1>5 DEF Compensate, Undone
  <2> QED BY <2>1 DEF MadeInv, Prog
<1>6. ASSUME NEW c \in Commits, Step(c), ~ReplayOne(c), ~Compensate(c) PROVE MadeInv'
  <2>1. UNCHANGED <<made, ran, held>>
    BY <1>6 DEF Step, RefreshPhase, Enter, OpenRow, CommitEvidence, RevalidateOne,
      ReplayDone, ReplayFailed, Finalize
  <2> QED BY <1>1, <2>1
<1>7. ASSUME (\E who \in Principals : Prepare(who)) \/ (\E ch \in Channels : OutsideEdit(ch))
             \/ Crash \/ Tick \/ UNCHANGED vars
      PROVE  MadeInv'
  BY <1>1, <1>7 DEF Prepare, OutsideEdit, Crash, Tick, vars
<1> QED BY <1>2, <1>4, <1>5, <1>6, <1>7 DEF Next, Step

\* A commit whose reads and channels are left alone.
LEMMA AsReadKept ==
  ASSUME NEW c \in Commits, AsRead(c),
         UNCHANGED <<world, pc[c], unread[c], ran[c], held[c], dirty[c]>>
  PROVE  AsRead(c)'
BY DEF AsRead, Pre, Prog

\* A channel is as it was read until it is written or edited from outside:
\* no other planned run changes it in between.
LEMMA ReadStep ==
  TypeOK /\ ClaimInv /\ ControlInv /\ ProgressInv /\ ReadInv /\ [Next]_vars => ReadInv'
<1> SUFFICES ASSUME TypeOK, ClaimInv, ControlInv, ProgressInv, ReadInv, [Next]_vars
             PROVE  ReadInv'
  OBVIOUS
<1> USE DEF history, commitVars, ReadInv
<1>1. ASSUME NEW c \in Commits, NEW id \in PlanIds, NEW op \in Phases, NEW who \in Principals,
             NEW h \in BOOLEAN, Claim(c, id, op, who, h), NEW d \in Commits
      PROVE  AsRead(d)'
  <2>1. CASE d = c
    BY <1>1, <2>1, ClaimKeeps DEF AsRead
  <2>2. CASE d # c
    <3>1. UNCHANGED <<world, pc[d], unread[d], ran[d], held[d], dirty[d]>>
      BY <1>1, <2>2, ClaimKeeps
    <3> QED BY <3>1, AsReadKept
  <2> QED BY <2>1, <2>2
<1>2. ASSUME NEW c \in Commits, Step(c), NEW d \in Commits, d # c PROVE AsRead(d)'
  <2>1. UNCHANGED <<pc[d], unread[d], ran[d], held[d], dirty[d]>>
    BY <1>2, OthersKept
  <2>2. CASE pc[c] \in {"replaying", "compensating"}
    <3>1. pc[d] \notin Locked
      BY <1>2, <2>2, OneWriter DEF Locked
    <3> QED BY <2>1, <3>1 DEF AsRead, Locked
  <2>3. CASE pc[c] \notin {"replaying", "compensating"}
    <3>1. UNCHANGED world
      BY <1>2, <2>3, WritesUnderLock
    <3> QED BY <2>1, <3>1, AsReadKept
  <2> QED BY <2>2, <2>3
<1>3. ASSUME NEW c \in Commits, CommitEvidence(c) PROVE AsRead(c)'
  <2>1. \/ unread'[c] = DOMAIN Pre(c) /\ pc'[c] = "revalidating" /\ UNCHANGED held
        \/ pc'[c] = "done"
    BY <1>3 DEF CommitEvidence, Ends, TypeOK
  <2> QED BY <2>1 DEF AsRead, Pre
<1>4. ASSUME NEW c \in Commits, RevalidateOne(c) PROVE AsRead(c)'
  <2>1. pc[c] = "revalidating" /\ UNCHANGED <<world, held, ran, dirty>>
    BY <1>4 DEF RevalidateOne
  <2>2. ASSUME NEW ch \in unread[c], world[ch] = Pre(c)[ch], pc' = pc,
               unread' = [unread EXCEPT ![c] = @ \ {ch}]
        PROVE  AsRead(c)'
    <3>1. unread'[c] = unread[c] \ {ch} /\ pc'[c] = pc[c]
      BY <2>2 DEF TypeOK
    <3> QED BY <2>1, <2>2, <3>1 DEF AsRead, Pre, Prog
  <2>3. CASE pc'[c] = "done"
    BY <2>3 DEF AsRead
  <2>4. CASE unread[c] = {}
    <3>1. \A ch \in DOMAIN Pre(c) : \/ \E j \in ran[c] : Prog(c)[j].ch = ch
                                    \/ world[ch] = Pre(c)[ch]
                                    \/ ch \in dirty[c]
      BY <2>1, <2>4 DEF AsRead
    <3> QED BY <2>1, <3>1 DEF AsRead, Pre, Prog
  <2> QED BY <1>4, <2>2, <2>3, <2>4 DEF RevalidateOne, Ends, TypeOK
<1>5. ASSUME NEW c \in Commits, ReplayOne(c) PROVE AsRead(c)'
  <2>1. pc[c] = "replaying" /\ UNCHANGED <<held, dirty, unread>>
    BY <1>5 DEF ReplayOne
  <2>2. ASSUME Executed(c, k[c]), UNCHANGED pc PROVE AsRead(c)'
    <3> DEFINE i == k[c]  w == Prog(c)[i]
    <3>1. ran'[c] = ran[c] \cup {i}
      BY <2>2 DEF Executed, TypeOK
    <3>2. ASSUME NEW ch \in DOMAIN Pre(c), w.ch # ch PROVE world'[ch] = world[ch]
      <4>1. ch \in Channels
        BY <2>1, <3>2, HeldOK DEF Locked
      <4> QED BY <2>2, <3>2, <4>1 DEF Executed, TypeOK
    <3> HIDE DEF i, w
    <3>3. ASSUME NEW ch \in DOMAIN Pre(c)
          PROVE  \/ \E j \in ran'[c] : Prog(c)[j].ch = ch
                 \/ world'[ch] = Pre(c)[ch]
                 \/ ch \in dirty[c]
      <4>1. CASE w.ch = ch
        BY <3>1, <4>1 DEF w
      <4>2. CASE w.ch # ch
        BY <2>1, <3>1, <3>2, <3>3, <4>2 DEF AsRead
      <4> QED BY <4>1, <4>2
    <3> QED BY <2>1, <3>3 DEF AsRead, Pre, Prog
  <2>3. CASE pc' = [pc EXCEPT ![c] = "compensating"]
    BY <2>3 DEF AsRead, TypeOK
  <2> QED BY <1>5, <2>2, <2>3 DEF ReplayOne
<1>6. ASSUME NEW c \in Commits, Step(c),
             ~CommitEvidence(c), ~RevalidateOne(c), ~ReplayOne(c)
      PROVE  AsRead(c)'
  <2>1. pc'[c] \notin {"revalidating", "replaying"}
    BY <1>6 DEF Step, RefreshPhase, Enter, OpenRow, ReplayDone, Compensate, ReplayFailed,
      Finalize, Ends, TypeOK
  <2> QED BY <2>1 DEF AsRead
<1>7. ASSUME NEW ch \in Channels, OutsideEdit(ch), NEW d \in Commits PROVE AsRead(d)'
  <2>1. /\ UNCHANGED <<pc, unread, ran, held>>
        /\ world' = [world EXCEPT ![ch] = [body |-> "edit", num |-> "edit"]]
        /\ dirty'[d] = IF Relies(d, ch) THEN dirty[d] \cup {ch} ELSE dirty[d]
    BY <1>7 DEF OutsideEdit
  <2>2. \A x \in Channels : x # ch => world'[x] = world[x]
    BY <2>1 DEF TypeOK
  <2>3. ASSUME pc[d] \in {"revalidating", "replaying"}, NEW x \in DOMAIN Pre(d)
        PROVE  \/ pc[d] = "revalidating" /\ x \in unread[d]
               \/ \E j \in ran[d] : Prog(d)[j].ch = x
               \/ world'[x] = Pre(d)[x]
               \/ x \in dirty'[d]
    <3>1. x \in Channels
      BY <2>3, HeldOK DEF Locked
    <3>2. CASE x = ch
      BY <2>1, <2>3, <3>2 DEF Relies
    <3>3. CASE x # ch
      BY <2>1, <2>2, <2>3, <3>1, <3>3 DEF AsRead
    <3> QED BY <3>2, <3>3
  <2> QED BY <2>1, <2>3 DEF AsRead, Pre, Prog
<1>8. ASSUME NEW who \in Principals, Prepare(who), NEW d \in Commits PROVE AsRead(d)'
  BY <1>8, AsReadKept DEF Prepare
<1>9. ASSUME Crash, NEW d \in Commits PROVE AsRead(d)'
  BY <1>9 DEF Crash, AsRead, TypeOK
<1>10. ASSUME Tick \/ UNCHANGED vars, NEW d \in Commits PROVE AsRead(d)'
  BY <1>10, AsReadKept DEF Tick, vars
<1> QED BY <1>1, <1>2, <1>3, <1>4, <1>5, <1>6, <1>7, <1>8, <1>9, <1>10 DEF Next, Step

---------------------------------------------------------------------------
(* Stale writes. *)

\* A first write that finds a channel other than planned finds an edit from
\* outside.
LEMMA StaleStep ==
  TypeOK /\ ClaimInv /\ ControlInv /\ ProgressInv /\ ReadInv /\ NoStaleWrite /\ [Next]_vars
    => NoStaleWrite'
<1> SUFFICES ASSUME TypeOK, ClaimInv, ControlInv, ProgressInv, ReadInv, NoStaleWrite,
                    [Next]_vars
             PROVE  NoStaleWrite'
  OBVIOUS
<1> USE DEF history, commitVars
<1>1. ASSUME UNCHANGED clobbered, \A c \in Commits : dirty[c] \subseteq dirty'[c]
      PROVE  NoStaleWrite'
  BY <1>1 DEF NoStaleWrite
<1>2. ASSUME NEW c \in Commits, ReplayOne(c) PROVE NoStaleWrite'
  <2> DEFINE w == Prog(c)[k[c]]
  <2>1. pc[c] = "replaying" /\ UNCHANGED dirty
    BY <1>2 DEF ReplayOne
  <2>2. k[c] \in 1 .. Len(Prog(c)) /\ Prog(c) \in Programs /\ DOMAIN Pre(c) = Touched(Prog(c))
    <3>1. /\ Prog(c) \in Programs /\ k[c] \in Nat /\ k[c] > 0 /\ k[c] <= Len(Prog(c))
          /\ DOMAIN Pre(c) = Touched(Prog(c))
      BY <1>2, HeldOK DEF ReplayOne, Locked, ProgressInv, Progress, TypeOK
    <3> QED BY <3>1, ProgramOK
  <2>3. CASE clobbered' = clobbered
    BY <1>1, <2>1, <2>3
  <2>4. CASE /\ \A j \in ran[c] : Prog(c)[j].ch # w.ch
             /\ world[w.ch] # Pre(c)[w.ch] /\ w.op # "create"
             /\ clobbered' = [clobbered EXCEPT ![c] = @ \cup {w.ch}]
    <3>1. w.ch \in DOMAIN Pre(c)
      BY <2>2, <2>4, ProgramOK
    <3> HIDE DEF w
    <3>2. w.ch \in dirty[c]
      BY <2>1, <2>4, <3>1 DEF ReadInv, AsRead
    <3> QED BY <2>1, <2>4, <3>2 DEF NoStaleWrite, TypeOK
  <2> QED BY <1>2, <2>3, <2>4 DEF ReplayOne, Executed
<1>3. ASSUME NEW c \in Commits, Step(c), ~ReplayOne(c) PROVE NoStaleWrite'
  <2>1. UNCHANGED <<clobbered, dirty>>
    BY <1>3 DEF Step, RefreshPhase, Enter, OpenRow, CommitEvidence, RevalidateOne,
      ReplayDone, Compensate, ReplayFailed, Finalize
  <2> QED BY <1>1, <2>1
<1>4. ASSUME NEW ch \in Channels, OutsideEdit(ch) PROVE NoStaleWrite'
  BY <1>1, <1>4 DEF OutsideEdit
<1>5. ASSUME \/ \E who \in Principals : Prepare(who)
             \/ \E c \in Commits, id \in PlanIds, op \in Phases, who \in Principals,
                   h \in BOOLEAN : Claim(c, id, op, who, h)
             \/ Crash \/ Tick \/ UNCHANGED vars
      PROVE  NoStaleWrite'
  <2>1. UNCHANGED <<clobbered, dirty>>
    BY <1>5 DEF Prepare, Claim, Crash, Tick, vars
  <2> QED BY <1>1, <2>1
<1> QED BY <1>2, <1>3, <1>4, <1>5 DEF Next, Step

---------------------------------------------------------------------------
(* Compensation. *)

\* A commit whose position and channels are left alone.
LEMMA UndoKept ==
  ASSUME NEW c \in Commits, Undoable(c) => LeftToUndo(c),
         UNCHANGED <<world, made, pc[c], ran[c], held[c], dirty[c], k[c]>>,
         c \in compErrs' <=> c \in compErrs, c \in lostBy' <=> c \in lostBy
  PROVE  Undoable(c)' => LeftToUndo(c)'
BY DEF Undoable, LeftToUndo, Undisturbed, Untouched, Left, Pre, Prog

\* What is left to undo stays right as a replay goes on, as it fails, and as
\* it is compensated backwards.
LEMMA UndoStep ==
  TypeOK /\ ClaimInv /\ ControlInv /\ ProgressInv /\ MadeInv /\ ReadInv /\ UndoInv
    /\ [Next]_vars => UndoInv'
<1> SUFFICES ASSUME TypeOK, ClaimInv, ControlInv, ProgressInv, MadeInv, ReadInv, UndoInv,
                    [Next]_vars
             PROVE  UndoInv'
  OBVIOUS
<1> USE DEF history, commitVars, UndoInv
<1>1. ASSUME NEW c \in Commits, NEW id \in PlanIds, NEW op \in Phases, NEW who \in Principals,
             NEW h \in BOOLEAN, Claim(c, id, op, who, h), NEW d \in Commits
      PROVE  Undoable(d)' => LeftToUndo(d)'
  <2>1. CASE d = c
    BY <1>1, <2>1, ClaimKeeps DEF Undoable
  <2>2. CASE d # c
    <3>1. /\ UNCHANGED <<world, made, pc[d], ran[d], held[d], dirty[d], k[d]>>
          /\ UNCHANGED <<compErrs, lostBy>>
      BY <1>1, <2>2, ClaimKeeps
    <3> QED BY <3>1, UndoKept
  <2> QED BY <2>1, <2>2
<1>2. ASSUME NEW c \in Commits, Step(c), NEW d \in Commits, d # c
      PROVE  Undoable(d)' => LeftToUndo(d)'
  <2>1. /\ UNCHANGED <<pc[d], ran[d], held[d], dirty[d], k[d]>>
        /\ d \in compErrs' <=> d \in compErrs
        /\ d \in lostBy' <=> d \in lostBy
    BY <1>2, OthersKept
  <2>2. CASE pc[c] \in {"replaying", "compensating"}
    <3>1. pc[d] \notin Locked
      BY <1>2, <2>2, OneWriter DEF Locked
    <3> QED BY <2>1, <3>1 DEF Undoable, Locked
  <2>3. CASE pc[c] \notin {"replaying", "compensating"}
    <3>1. UNCHANGED <<world, made>>
      BY <1>2, <2>3, WritesUnderLock
    <3> QED BY <2>1, <3>1, UndoKept
  <2> QED BY <2>2, <2>3
<1>3. ASSUME NEW c \in Commits, RevalidateOne(c) PROVE Undoable(c)' => LeftToUndo(c)'
  <2>1. /\ pc[c] = "revalidating" /\ ran[c] = {}
        /\ UNCHANGED <<world, made, held, ran, dirty>>
    BY <1>3 DEF RevalidateOne, ProgressInv, Progress, Unwritten
  <2>2. CASE pc'[c] \notin {"replaying", "compensating"}
    BY <2>2 DEF Undoable
  <2>3. CASE unread[c] = {}
    <3>1. \A m \in made : m[1] # c
      BY <2>1 DEF MadeInv
    <3>2. ASSUME Undisturbed(c)', NEW ch \in DOMAIN Pre(c) PROVE world[ch] = Pre(c)[ch]
      BY <2>1, <2>3, <3>2 DEF ReadInv, AsRead, Undisturbed
    <3> QED BY <2>1, <3>1, <3>2 DEF Undoable, LeftToUndo, Pre
  <2> QED BY <1>3, <2>1, <2>2, <2>3 DEF RevalidateOne, Ends, TypeOK
<1>4. ASSUME NEW c \in Commits, ReplayOne(c) PROVE Undoable(c)' => LeftToUndo(c)'
  <2> DEFINE i == k[c]  w == Prog(c)[i]
  <2>1. /\ pc[c] = "replaying" /\ i \in Nat /\ i > 0 /\ UNCHANGED <<held, dirty, compErrs>>
        /\ DOMAIN Pre(c) \subseteq Channels
    BY <1>4, HeldOK DEF ReplayOne, Locked, ProgressInv, Progress, TypeOK
  <2>2. Left(c) = 1 .. i - 1
    BY <2>1 DEF Left
  <2>3. ASSUME Executed(c, i), k' = [k EXCEPT ![c] = @ + 1], UNCHANGED <<pc, lostBy>>,
               Undoable(c)'
        PROVE  LeftToUndo(c)'
    <3>1. /\ ran'[c] = ran[c] \cup {i} /\ k'[c] = i + 1 /\ Left(c)' = 1 .. i
          /\ Left(c)' = Left(c) \cup {i}
      <4>1. ran'[c] = ran[c] \cup {i} /\ k'[c] = i + 1 /\ pc'[c] = "replaying"
        BY <2>1, <2>3 DEF Executed, TypeOK
      <4>2. Left(c)' = 1 .. (i + 1) - 1
        BY <4>1 DEF Left
      <4> QED BY <2>1, <2>2, <4>1, <4>2
    <3>2. Undoable(c) /\ Compensable(w)
      BY <2>1, <2>3, <3>1 DEF Undoable, Undisturbed, Prog
    <3>3. LeftToUndo(c)
      BY <3>2
    <3>4. made' = made \/ made' = made \cup {<<c, i>>}
      BY <2>3 DEF Executed
    <3>5. \A m \in made' : m[1] = c => m[2] \in Left(c)'
      BY <3>1, <3>3, <3>4 DEF LeftToUndo
    <3>6. ASSUME NEW ch \in DOMAIN Pre(c), Untouched(c, ch)' PROVE world'[ch] = Pre(c)[ch]
      <4>1. Untouched(c, ch) /\ (w.op = "update" => w.ch # ch)
        BY <2>1, <3>1, <3>6 DEF Untouched, Prog
      <4>2. world[ch] = Pre(c)[ch]
        BY <3>3, <4>1 DEF LeftToUndo
      <4>3. world'[ch] = world[ch]
        BY <2>1, <2>3, <3>2, <4>1 DEF Executed, Compensable, TypeOK
      <4> QED BY <4>2, <4>3
    <3> QED BY <2>1, <3>5, <3>6 DEF LeftToUndo, Pre
  <2>4. ASSUME UNCHANGED <<world, made, ran, lostBy>>, k' = [k EXCEPT ![c] = @ - 1],
               pc' = [pc EXCEPT ![c] = "compensating"], Undoable(c)'
        PROVE  LeftToUndo(c)'
    <3>1. Left(c)' = Left(c)
      BY <2>1, <2>2, <2>4 DEF Left, TypeOK
    <3>2. Undoable(c)
      BY <2>1, <2>4 DEF Undoable, Undisturbed, Prog
    <3> QED BY <2>1, <2>4, <3>1, <3>2 DEF LeftToUndo, Untouched, Pre, Prog
  <2>5. ASSUME Lost(c) PROVE ~Undoable(c)'
    BY <2>5 DEF Lost, Undoable, Undisturbed
  <2> HIDE DEF i, w
  <2> QED BY <1>4, <2>3, <2>4, <2>5 DEF ReplayOne, i
<1>5. ASSUME NEW c \in Commits, Compensate(c), Undoable(c)' PROVE LeftToUndo(c)'
  <2> DEFINE i == k[c]  w == Prog(c)[i]
  <2>1. /\ pc[c] = "compensating" /\ i \in Nat /\ i > 0 /\ i < failedAt[c] /\ failedAt[c] \in Nat
        /\ k' = [k EXCEPT ![c] = @ - 1] /\ UNCHANGED <<pc, held, dirty, ran>>
        /\ DOMAIN Pre(c) \subseteq Channels
    BY <1>5, HeldOK DEF Compensate, CompensationEnds, Locked, ProgressInv, Progress, TypeOK
  <2>2. Left(c) = 1 .. i /\ Left(c)' = 1 .. i - 1
    BY <2>1 DEF Left, TypeOK
  <2>3. i \in ran[c]
    BY <2>1 DEF ProgressInv, Progress, Reported
  <2>4. Compensable(w)
    BY <1>5, <2>1, <2>3 DEF Undoable, Prog
  <2>5. c \notin compErrs' /\ c \notin lostBy'
    BY <1>5 DEF Undoable, Undisturbed
  <2>6. Undone(c, i) /\ UNCHANGED <<compErrs, lostBy>>
    BY <1>5, <2>4, <2>5 DEF Compensate, Lost
  <2>7. LeftToUndo(c)
    BY <1>5, <2>1, <2>6 DEF Undoable, Undisturbed, Prog
  <2>8. ASSUME NEW m \in made', m[1] = c PROVE m[2] \in Left(c)'
    <3>1. m \in made /\ m = <<m[1], m[2]>> /\ m[2] \in Left(c)
      BY <2>6, <2>7, <2>8 DEF Undone, LeftToUndo, MadeInv
    <3>2. m[2] # i
      <4>1. CASE w.op = "create"
        BY <2>6, <2>8, <3>1, <4>1 DEF Undone
      <4>2. CASE w.op # "create"
        BY <2>8, <3>1, <4>2 DEF MadeInv
      <4> QED BY <4>1, <4>2
    <3> QED BY <2>1, <2>2, <3>1, <3>2
  <2>9. ASSUME NEW ch \in DOMAIN Pre(c), Untouched(c, ch)' PROVE world'[ch] = Pre(c)[ch]
    <3>1. CASE w.op = "update" /\ w.ch = ch
      BY <2>1, <2>6, <3>1 DEF Undone, TypeOK
    <3>2. CASE ~(w.op = "update" /\ w.ch = ch)
      <4>1. Left(c) = Left(c)' \cup {i}
        BY <2>1, <2>2
      <4>2. Untouched(c, ch)
        BY <2>1, <2>9, <3>2, <4>1 DEF Untouched, Prog
      <4>3. world[ch] = Pre(c)[ch]
        BY <2>7, <4>2 DEF LeftToUndo
      <4>4. world'[ch] = world[ch]
        BY <2>1, <2>4, <2>6, <3>2 DEF Undone, Compensable, TypeOK
      <4> QED BY <4>3, <4>4
    <3> QED BY <3>1, <3>2
  <2> QED BY <2>1, <2>8, <2>9 DEF LeftToUndo, Pre
<1>6. ASSUME NEW c \in Commits, Step(c), ~RevalidateOne(c), ~ReplayOne(c), ~Compensate(c)
      PROVE  ~Undoable(c)'
  <2>1. pc'[c] \notin {"replaying", "compensating"}
    BY <1>6 DEF Step, RefreshPhase, Enter, OpenRow, CommitEvidence, ReplayDone, ReplayFailed,
      Finalize, Ends, TypeOK
  <2> QED BY <2>1 DEF Undoable
<1>7. ASSUME NEW ch \in Channels, OutsideEdit(ch), NEW d \in Commits PROVE ~Undoable(d)'
  <2>1. pc' = pc /\ dirty'[d] = IF Relies(d, ch) THEN dirty[d] \cup {ch} ELSE dirty[d]
    BY <1>7 DEF OutsideEdit
  <2>2. CASE pc[d] \in {"replaying", "compensating"}
    BY <2>1, <2>2 DEF Relies, Undoable, Undisturbed
  <2>3. CASE pc[d] \notin {"replaying", "compensating"}
    BY <2>1, <2>3 DEF Undoable
  <2> QED BY <2>2, <2>3
<1>8. ASSUME NEW who \in Principals, Prepare(who), NEW d \in Commits
      PROVE  Undoable(d)' => LeftToUndo(d)'
  BY <1>8, UndoKept DEF Prepare
<1>9. ASSUME Crash, NEW d \in Commits PROVE ~Undoable(d)'
  BY <1>9 DEF Crash, Undoable, TypeOK
<1>10. ASSUME Tick \/ UNCHANGED vars, NEW d \in Commits PROVE Undoable(d)' => LeftToUndo(d)'
  BY <1>10, UndoKept DEF Tick, vars
<1> QED BY <1>1, <1>2, <1>3, <1>4, <1>5, <1>6, <1>7, <1>8, <1>9, <1>10 DEF Next, Step

---------------------------------------------------------------------------
(* The theorems. *)

\* The initial state satisfies the invariant.
LEMMA InitInv == Init => PlanInv
<1> SUFFICES ASSUME Init PROVE PlanInv
  OBVIOUS
<1>1. TypeOK
  <2>1. StoreOK
    BY Bounds DEF Init, StoreInit, StoreOK
  <2>2. [body |-> "base", num |-> "base"] \in Values
    BY DEF Values
  <2> QED BY <2>1, <2>2, Bounds DEF Init, TypeOK, PCs
<1>2. PlansInv
  BY DEF Init, StoreInit, PlansInv
<1>3. ClaimInv
  <2>1. Refreshed = {}
    BY DEF Init, Refreshed
  <2>2. Cardinality(Refreshed) = 0
    BY <2>1, FS_EmptySet
  <2> QED BY <1>2, <2>2, Bounds DEF Init, StoreInit, ClaimInv
<1>4. ControlInv /\ ProgressInv
  BY DEF Init, ControlInv, Locked, Recorded, ProgressInv, Progress, Unwritten
<1>5. MadeInv /\ ReadInv /\ NoStaleWrite /\ UndoInv
  BY DEF Init, MadeInv, ReadInv, AsRead, NoStaleWrite, UndoInv, Undoable
<1> QED BY <1>1, <1>3, <1>4, <1>5 DEF PlanInv

\* Planned runs keep the invariant: plans are claimed once, the lock lets one
\* commit write at a time, and the position of a replay says what was written.
THEOREM PlannedRunCorrect == Spec => []PlanInv
<1>1. Init => PlanInv
  BY InitInv
<1>2. PlanInv /\ [Next]_vars => PlanInv'
  <2> SUFFICES ASSUME PlanInv, [Next]_vars PROVE PlanInv'
    OBVIOUS
  <2>1. TypeOK'
    BY TypeStep DEF PlanInv
  <2> QED BY <2>1, ClaimStep, ControlStep, ProgressStep, MadeStep, ReadStep, StaleStep,
             UndoStep DEF PlanInv
<1> QED BY <1>1, <1>2, PTL DEF Spec

\* A prepared run is replayed at most once, and only when its evidence is
\* stored: claim takes the plan out of the store, and the program is recorded
\* before replay_write_plan starts.
THEOREM ReplayedOnceCorrect == Spec => []ReplayedOnceWithEvidence
<1>1. PlanInv => ReplayedOnceWithEvidence
  BY DEF PlanInv, ReplayedOnceWithEvidence, AppliedOnce, EvidenceFirst, ClaimInv, PlansInv,
    ProgressInv, Progress
<1> QED BY <1>1, PlannedRunCorrect, PTL

\* No replay overwrites what another planned run did, or an edit made before
\* its second validation.
THEOREM NoStaleWriteCorrect == Spec => []NoStaleWrite
<1>1. PlanInv => NoStaleWrite
  BY DEF PlanInv
<1> QED BY <1>1, PlannedRunCorrect, PTL

\* A failed replay accounts for itself: the report of completed writes is
\* right, and compensation that ran undisturbed has put everything back.
THEOREM FailureAccountedCorrect == Spec => []FailureIsAccounted
<1>1. ASSUME PlanInv PROVE FailureIsAccounted
  <2>1. ReportCoversReplay
    BY <1>1 DEF PlanInv, ReportCoversReplay, ProgressInv, Progress
  <2>2. ASSUME NEW c \in Commits, Failed(c), Undisturbed(c),
               \A i \in ran[c] : Compensable(Prog(c)[i])
        PROVE  Restored(c)
    <3>1. LeftToUndo(c)
      BY <1>1, <2>2 DEF PlanInv, UndoInv, Undoable, Failed
    <3>2. Left(c) = {}
      BY <2>2 DEF Left, Failed, CompensationEnds
    <3> QED BY <3>1, <3>2 DEF LeftToUndo, Untouched, Restored
  <2> QED BY <2>1, <2>2 DEF FailureIsAccounted, FailureLeavesNothing
<1> QED BY <1>1, PlannedRunCorrect, PTL

=============================================================================
