------------------------------ MODULE PipelinePlan ------------------------------
(***************************************************************************)
(* Planned pipeline runs: prepare records the writes a run would make and   *)
(* the channels it read (PlanningDispatcharrClient); commit claims the plan *)
(* and, under a lock, recomputes the decision, validates the read set,      *)
(* stores recovery evidence, validates again and replays the writes,        *)
(* compensating what was done when one fails.                               *)
(*                                                                          *)
(* The channels live in Dispatcharr, where others edit them at any time.    *)
(* What a run may write is a sequence of writes from Programs.  A channel   *)
(* has a body (name, streams, group, ...: what decisions are made from) and *)
(* a number.                                                                *)
(***************************************************************************)
EXTENDS PlanStore, Sequences

CONSTANTS
  Channels,     \* existing channels
  Programs,     \* sequences of writes a rule set may ask for
  Commits,      \* commit requests
  MaxEdits,     \* bound: changes of the channels from outside
  MaxFaults,    \* bound: calls and database writes that fail
  MaxLost,      \* bound: calls that are executed and whose answer is lost
  MaxCrashes,   \* bound: crashes
  RefreshFirst  \* {FALSE}, {TRUE} or both: whether rules ask for a provider refresh before they run

WriteOps == {"update", "number", "create", "delete"}
Nobody   == "nobody"

ASSUME PlanAssumption ==
  /\ Programs \subseteq Seq([op: WriteOps, ch: Channels])
  /\ {MaxEdits, MaxFaults, MaxLost, MaxCrashes} \subseteq Nat
  /\ RefreshFirst \subseteq BOOLEAN
  /\ Nobody \notin Commits

VARIABLES
  world,     \* the channels in Dispatcharr
  made,      \* channels created by commits: pairs <<commit, index of the write>>
  pc, held,  \* per commit: where it is, and the plan it claimed
  unread,    \* channels the second validation has still to read
  k,         \* the write to be replayed, or compensated, next
  failedAt,  \* the write that failed
  lock,      \* _MCP_PLANNED_RUN_LOCK
  row,       \* status of the commit's execution row
  evidence,  \* commits whose snapshot and program are in the database
  compErrs,  \* commits whose compensation had an error
  edits, faults, lost, crashes,
  \* history
  dirty,     \* channels edited from outside since the commit last read them
  ran,       \* writes each commit has made happen, the compensated ones too
  clobbered, \* channels whose first write found them other than planned
  lostBy     \* commits one of whose answers was lost

commitVars == <<pc, held, unread, k, failedAt, lock, row, evidence, compErrs>>
budget     == <<edits, faults, lost, crashes>>
history    == <<dirty, ran, clobbered, lostBy>>
vars == <<store, nextId, now, world, made, pc, held, unread, k, failedAt, lock, row,
          evidence, compErrs, edits, faults, lost, crashes, dirty, ran, clobbered,
          lostBy>>

Gone   == [body |-> "gone", num |-> "gone"]
Values == [body: {"base", "edit", "plan"}, num: {"base", "edit", "plan"}] \cup {Gone}
Phases == {"refresh", "execute"}
PCs    == {"idle", "refreshing", "waiting", "checked", "rowed", "revalidating",
           "replaying", "compensating", "finalizing", "done"}
NoPlan == [id |-> 0]

TypeOK ==
  /\ StoreOK
  /\ world \in [Channels -> Values]
  /\ \A m \in made : m[1] \in Commits /\ m[2] \in Nat
  /\ pc \in [Commits -> PCs]
  /\ \A c \in Commits : held[c] = NoPlan \/ held[c].op \in Phases
  /\ unread \in [Commits -> SUBSET Channels]
  /\ k \in [Commits -> Nat] /\ failedAt \in [Commits -> Nat]
  /\ lock \in Commits \cup {Nobody}
  /\ row \in [Commits -> {"absent", "running", "failed", "completed", "abandoned"}]
  /\ evidence \subseteq Commits /\ compErrs \subseteq Commits /\ lostBy \subseteq Commits
  /\ dirty \in [Commits -> SUBSET Channels] /\ clobbered \in [Commits -> SUBSET Channels]
  /\ ran \in [Commits -> SUBSET Nat]
  /\ edits \in 0 .. MaxEdits /\ faults \in 0 .. MaxFaults
  /\ lost \in 0 .. MaxLost /\ crashes \in 0 .. MaxCrashes

Init ==
  /\ StoreInit
  /\ world = [ch \in Channels |-> [body |-> "base", num |-> "base"]]
  /\ made = {} /\ lock = Nobody
  /\ pc = [c \in Commits |-> "idle"]
  /\ held = [c \in Commits |-> NoPlan]
  /\ unread = [c \in Commits |-> {}]
  /\ k = [c \in Commits |-> 0] /\ failedAt = [c \in Commits |-> 0]
  /\ row = [c \in Commits |-> "absent"]
  /\ evidence = {} /\ compErrs = {} /\ lostBy = {}
  /\ edits = 0 /\ faults = 0 /\ lost = 0 /\ crashes = 0
  /\ dirty = [c \in Commits |-> {}] /\ clobbered = [c \in Commits |-> {}]
  /\ ran = [c \in Commits |-> {}]

Fault == faults < MaxFaults /\ faults' = faults + 1 /\ UNCHANGED <<edits, lost, crashes>>

---------------------------------------------------------------------------
(* Prepare. *)

(* _channel_before: the channels a write looks at before it is recorded.   *)
Touched(prog) == {prog[i].ch : i \in {j \in DOMAIN prog : prog[j].op # "create"}}

(* The canonical decision: the bodies of all channels, and the read set.   *)
Decision(prog, w) == [bodies |-> [ch \in Channels |-> w[ch].body],
                      pre    |-> [ch \in Touched(prog) |-> w[ch]]]

ExecutePlan(who, prog) ==
  [id |-> nextId, op |-> "execute", principal |-> who, expires |-> now + PlanTTL,
   prog |-> prog, decision |-> Decision(prog, world)]

RefreshPlan(who) ==
  [id |-> nextId, op |-> "refresh", principal |-> who, expires |-> now + PlanTTL]

(* Planning fails on a channel that is gone. *)
Plannable(prog) == \A ch \in Touched(prog) : world[ch] # Gone

Prepare(who) ==
  /\ MayPrepare
  /\ \/ TRUE \in RefreshFirst /\ Create(RefreshPlan(who))
     \/ FALSE \in RefreshFirst /\ \E prog \in Programs : Plannable(prog) /\ Create(ExecutePlan(who, prog))
  /\ UNCHANGED <<world, made, commitVars, budget, history>>

---------------------------------------------------------------------------
(* Commit. *)

(* The claim; what happens after it, a 409 included, cannot give the plan  *)
(* back.  A refused claim only prunes.                                     *)
Claim(c, id, op, who, hashOk) ==
  /\ pc[c] = "idle"
  /\ LET P == Claimable(id, op, who, hashOk)
     IN  /\ TakePlan(P)
         /\ IF P = {}
            THEN UNCHANGED <<held, pc>>
            ELSE /\ held' = [held EXCEPT ![c] = CHOOSE p \in P : TRUE]
                 /\ pc' = [pc EXCEPT ![c] = IF op = "refresh" THEN "refreshing" ELSE "waiting"]
  /\ UNCHANGED <<world, made, unread, k, failedAt, lock, row, evidence, compErrs, budget,
                 history>>

(* The refresh answers a TaskResult, which is no dict: the test of its     *)
(* success is never made.                                                  *)
RefreshGivesUp(ok) == FALSE

(* The refresh phase ends with the plan of the execute phase.              *)
RefreshPhase(c) ==
  /\ pc[c] = "refreshing"
  /\ \E ok \in BOOLEAN :
       /\ IF ok THEN UNCHANGED budget ELSE Fault
       /\ IF RefreshGivesUp(ok) \/ ~\E prog \in Programs : Plannable(prog)
          THEN UNCHANGED storeVars
          ELSE \E prog \in Programs :
                 Plannable(prog) /\ Create(ExecutePlan(held[c].principal, prog))
  /\ pc' = [pc EXCEPT ![c] = "done"]
  /\ UNCHANGED <<world, made, held, unread, k, failedAt, lock, row, evidence, compErrs,
                 history>>

Prog(c) == held[c].prog
Pre(c)  == held[c].decision.pre

TakeLock(c) == lock = Nobody /\ lock' = c

\* mutant: the lock is not given back
KeepsLock(c) == pc' = [pc EXCEPT ![c] = "done"] /\ UNCHANGED lock

Ends(c) == pc' = [pc EXCEPT ![c] = "done"] /\ lock' = Nobody

\* mutant: a status outside the vocabulary of the history
MarkError(c) == row' = [row EXCEPT ![c] = IF @ = "running" THEN "error" ELSE @]

MarkFailed(c) == row' = [row EXCEPT ![c] = IF @ = "running" THEN "failed" ELSE @]

(* Under the lock the decision is computed again and compared, before      *)
(* anything is written.                                                    *)
Enter(c) ==
  /\ pc[c] = "waiting"
  /\ IF Plannable(Prog(c)) /\ Decision(Prog(c), world) = held[c].decision
     THEN TakeLock(c) /\ pc' = [pc EXCEPT ![c] = "checked"]
     ELSE lock = Nobody /\ Ends(c)
  /\ UNCHANGED <<storeVars, world, made, held, unread, k, failedAt, row, evidence,
                 compErrs, budget, history>>

ReadSetHolds(c) == \A ch \in DOMAIN Pre(c) : world[ch] = Pre(c)[ch]

(* First validation; then the execution row.                               *)
OpenRow(c) ==
  /\ pc[c] = "checked"
  /\ IF ReadSetHolds(c)
     THEN /\ row' = [row EXCEPT ![c] = "running"]
          /\ pc' = [pc EXCEPT ![c] = "rowed"]
          /\ UNCHANGED lock
     ELSE Ends(c) /\ UNCHANGED row
  /\ UNCHANGED <<storeVars, world, made, held, unread, k, failedAt, evidence, compErrs,
                 budget, history>>

\* mutant: the evidence is left to the end
EvidenceLater(c) ==
  /\ pc[c] = "rowed"
  /\ unread' = [unread EXCEPT ![c] = DOMAIN Pre(c)]
  /\ pc' = [pc EXCEPT ![c] = "revalidating"]
  /\ UNCHANGED <<storeVars, world, made, held, k, failedAt, lock, row, evidence, compErrs,
                 budget, history>>

\* mutant: the second validation is skipped
NoRevalidation(c) ==
  /\ pc[c] = "rowed"
  /\ evidence' = evidence \cup {c}
  /\ k' = [k EXCEPT ![c] = 1]
  /\ pc' = [pc EXCEPT ![c] = "replaying"]
  /\ UNCHANGED <<storeVars, world, made, held, unread, failedAt, lock, row, compErrs,
                 budget, history>>

(* The evidence is committed, or the commit raises and nobody closes the   *)
(* row.                                                                    *)
CommitEvidence(c) ==
  /\ pc[c] = "rowed"
  /\ \/ /\ evidence' = evidence \cup {c}
        /\ unread' = [unread EXCEPT ![c] = DOMAIN Pre(c)]
        /\ pc' = [pc EXCEPT ![c] = "revalidating"]
        /\ UNCHANGED <<lock, budget>>
     \/ Ends(c) /\ Fault /\ UNCHANGED <<evidence, unread>>
  /\ UNCHANGED <<storeVars, world, made, held, k, failedAt, row, compErrs, history>>

(* One read of the second validation.  Drift closes the row; a read that   *)
(* raises is not a ValueError and does not.                                *)
RevalidateOne(c) ==
  /\ pc[c] = "revalidating"
  /\ \/ \E ch \in unread[c] :
          /\ world[ch] = Pre(c)[ch]
          /\ unread' = [unread EXCEPT ![c] = @ \ {ch}]
          /\ UNCHANGED <<pc, lock, row, budget, k>>
     \/ \E ch \in unread[c] :
          /\ world[ch] # Pre(c)[ch] /\ world[ch] # Gone
          /\ MarkFailed(c) /\ Ends(c)
          /\ UNCHANGED <<unread, budget, k>>
     \/ \E ch \in unread[c] :
          /\ IF world[ch] = Gone THEN UNCHANGED budget ELSE Fault
          /\ Ends(c)
          /\ UNCHANGED <<unread, row, k>>
     \/ /\ unread[c] = {}
        /\ pc' = [pc EXCEPT ![c] = "replaying"]
        /\ k' = [k EXCEPT ![c] = 1]
        /\ UNCHANGED <<unread, lock, row, budget>>
  /\ UNCHANGED <<storeVars, world, made, held, failedAt, evidence, compErrs, history>>

---------------------------------------------------------------------------
(* replay_write_plan *)

(* What a write does to the channel it is for. *)
Written(w, v) ==
  CASE w.op = "update" -> [v EXCEPT !.body = "plan"]
    [] w.op = "number" -> [v EXCEPT !.num = "plan"]
    [] w.op = "delete" -> Gone

Executed(c, i) ==
  LET w == Prog(c)[i]
  IN  /\ IF w.op = "create"
         THEN made' = made \cup {<<c, i>>} /\ UNCHANGED <<world, clobbered>>
         ELSE /\ world[w.ch] # Gone
              /\ world' = [world EXCEPT ![w.ch] = Written(w, @)]
              /\ clobbered' = IF /\ \A j \in ran[c] : Prog(c)[j].ch # w.ch
                                 /\ world[w.ch] # Pre(c)[w.ch]
                              THEN [clobbered EXCEPT ![c] = @ \cup {w.ch}] ELSE clobbered
              /\ UNCHANGED made
      /\ ran' = [ran EXCEPT ![c] = @ \cup {i}]

Lost(c) == /\ lost < MaxLost /\ lost' = lost + 1
           /\ lostBy' = lostBy \cup {c}
           /\ UNCHANGED <<edits, faults, crashes>>

NotFound(c, i) == Prog(c)[i].op # "create" /\ world[Prog(c)[i].ch] = Gone

\* mutant: counted from one, as the writes are not
FailIndexNext(c) == k[c] + 1

FailIndex(c) == k[c]

ReplayOne(c) ==
  /\ pc[c] = "replaying" /\ k[c] <= Len(Prog(c))
  /\ \/ /\ Executed(c, k[c])
        /\ k' = [k EXCEPT ![c] = @ + 1]
        /\ UNCHANGED <<pc, failedAt, budget, lostBy>>
     \/ /\ \/ Executed(c, k[c]) /\ Lost(c)
           \/ Fault /\ UNCHANGED <<world, made, clobbered, ran, lostBy>>
           \/ NotFound(c, k[c]) /\ UNCHANGED <<world, made, clobbered, ran, lostBy, budget>>
        /\ failedAt' = [failedAt EXCEPT ![c] = FailIndex(c)]
        /\ k' = [k EXCEPT ![c] = @ - 1]
        /\ pc' = [pc EXCEPT ![c] = "compensating"]
  /\ UNCHANGED <<storeVars, held, unread, lock, row, evidence, compErrs, dirty>>

ReplayDone(c) ==
  /\ pc[c] = "replaying" /\ k[c] > Len(Prog(c))
  /\ pc' = [pc EXCEPT ![c] = "finalizing"]
  /\ UNCHANGED <<storeVars, world, made, held, unread, k, failedAt, lock, row, evidence,
                 compErrs, budget, history>>

(* Channels created are deleted again and updates put back what was read;  *)
(* the other writes are left.                                              *)
Compensable(w) == w.op \in {"create", "update"}

(* An update puts the whole precondition back. *)
Undone(c, i) ==
  IF Prog(c)[i].op = "create"
  THEN made' = made \ {<<c, i>>} /\ UNCHANGED world
  ELSE /\ world[Prog(c)[i].ch] # Gone
       /\ world' = [world EXCEPT ![Prog(c)[i].ch] = Pre(c)[Prog(c)[i].ch]]
       /\ UNCHANGED made

\* mutant: the oldest write is left out
StopsAtFirst(c) == k[c] <= 1

CompensationEnds(c) == k[c] = 0

Compensate(c) ==
  /\ pc[c] = "compensating" /\ ~CompensationEnds(c)
  /\ k' = [k EXCEPT ![c] = @ - 1]
  /\ IF Compensable(Prog(c)[k[c]])
     THEN \/ Undone(c, k[c]) /\ UNCHANGED <<budget, compErrs, lostBy>>
          \/ Undone(c, k[c]) /\ Lost(c) /\ compErrs' = compErrs \cup {c}
          \/ Fault /\ compErrs' = compErrs \cup {c} /\ UNCHANGED <<world, made, lostBy>>
          \/ /\ NotFound(c, k[c]) /\ compErrs' = compErrs \cup {c}
             /\ UNCHANGED <<world, made, lostBy, budget>>
     ELSE UNCHANGED <<world, made, budget, compErrs, lostBy>>
  /\ UNCHANGED <<storeVars, pc, held, unread, failedAt, lock, row, evidence, dirty, ran,
                 clobbered>>

ReplayFailed(c) ==
  /\ pc[c] = "compensating" /\ CompensationEnds(c)
  /\ MarkFailed(c) /\ Ends(c)
  /\ UNCHANGED <<storeVars, world, made, held, unread, k, failedAt, evidence, compErrs,
                 budget, history>>

(* Journal, review candidates, conflicts and the row; an exception in any  *)
(* of them leaves the row as it is.                                        *)
Finalize(c) ==
  /\ pc[c] = "finalizing"
  /\ Ends(c)
  /\ \/ row' = [row EXCEPT ![c] = "completed"] /\ UNCHANGED budget
     \/ Fault /\ UNCHANGED row
  /\ UNCHANGED <<storeVars, world, made, held, unread, k, failedAt, evidence, compErrs,
                 history>>

---------------------------------------------------------------------------
(* The surroundings. *)

(* Reads the commit will not repeat before it writes. *)
Relies(c, ch) == \/ pc[c] \in {"replaying", "compensating"}
                 \/ pc[c] = "revalidating" /\ ch \notin unread[c]

OutsideEdit(ch) ==
  /\ edits < MaxEdits /\ edits' = edits + 1
  /\ world[ch] # Gone
  /\ world' = [world EXCEPT ![ch] = [body |-> "edit", num |-> "edit"]]
  /\ dirty' = [c \in Commits |-> IF Relies(c, ch) THEN dirty[c] \cup {ch} ELSE dirty[c]]
  /\ UNCHANGED <<storeVars, made, commitVars, faults, lost, crashes, ran, clobbered, lostBy>>

(* The process ends and starts again: plans, lock and coroutines are gone, *)
(* rows still running are abandoned (RefreshTrigger!AbandonOrphans).       *)
Crash ==
  /\ crashes < MaxCrashes /\ crashes' = crashes + 1
  /\ ForgetPlans
  /\ lock' = Nobody
  /\ pc' = [c \in Commits |-> IF pc[c] = "idle" THEN "idle" ELSE "done"]
  /\ row' = [c \in Commits |-> IF row[c] = "running" THEN "abandoned" ELSE row[c]]
  /\ UNCHANGED <<world, made, held, unread, k, failedAt, evidence, compErrs, edits, faults,
                 lost, history>>

Tick == Expire /\ UNCHANGED <<world, made, commitVars, budget, history>>

Step(c) == \/ RefreshPhase(c) \/ Enter(c) \/ OpenRow(c) \/ CommitEvidence(c)
           \/ RevalidateOne(c) \/ ReplayOne(c) \/ ReplayDone(c) \/ Compensate(c)
           \/ ReplayFailed(c) \/ Finalize(c)

Next ==
  \/ \E who \in Principals : Prepare(who)
  \/ \E c \in Commits, id \in PlanIds, op \in Phases, who \in Principals, h \in BOOLEAN :
       Claim(c, id, op, who, h)
  \/ \E c \in Commits :
       \/ RefreshPhase(c) \/ Enter(c) \/ OpenRow(c) \/ CommitEvidence(c)
       \/ RevalidateOne(c) \/ ReplayOne(c) \/ ReplayDone(c) \/ Compensate(c)
       \/ ReplayFailed(c) \/ Finalize(c)
  \/ \E ch \in Channels : OutsideEdit(ch)
  \/ Crash \/ Tick

(* Every await of a commit ends: calls answer or time out.                 *)
Fairness == \A c \in Commits : WF_vars(Step(c))

Spec     == Init /\ [][Next]_vars
FairSpec == Spec /\ Fairness

---------------------------------------------------------------------------
(* Properties *)

(* No two commits ever hold the same plan: a plan is replayed at most      *)
(* once, whatever retries, crashes and expiries come between.              *)
AppliedOnce == \A c, d \in Commits : held[c] # NoPlan /\ held[c].id = held[d].id => c = d

(* When the first write of a replay finds a channel other than it was      *)
(* planned for, somebody changed it after the last validation read it;     *)
(* other planned runs never do (lock, decision and read-set checks).       *)
NoStaleWrite == \A c \in Commits : clobbered[c] \subseteq dirty[c]

(* Evidence, snapshot and program, is stored before the first write, so    *)
(* that a commit that died in its replay has left it.                      *)
EvidenceFirst == \A c \in Commits : ran[c] # {} => c \in evidence

(* A replay that failed without a lost answer, an error of compensation or *)
(* an edit from outside has left nothing behind, when it made only writes  *)
(* that compensation covers.                                               *)
Undisturbed(c) == c \notin compErrs \cup lostBy /\ dirty[c] = {}
Failed(c)      == pc[c] = "compensating" /\ CompensationEnds(c)
Restored(c)    == /\ \A m \in made : m[1] # c
                  /\ \A ch \in DOMAIN Pre(c) : world[ch] = Pre(c)[ch]
FailureLeavesNothing ==
  \A c \in Commits :
    Failed(c) /\ Undisturbed(c) /\ (\A i \in ran[c] : Compensable(Prog(c)[i])) => Restored(c)

(* What a failed replay reports as completed did happen, and at most the   *)
(* write it names as failed happened besides.                              *)
Reported(c) == 1 .. failedAt[c] - 1
ReportCoversReplay ==
  \A c \in Commits : failedAt[c] > 0 => /\ Reported(c) \subseteq ran[c]
                                        /\ ran[c] \subseteq Reported(c) \cup {failedAt[c]}

(* The lock is always given back and a commit under way ends.              *)
CommitEnds == \A c \in Commits : (pc[c] \notin {"idle", "done"}) ~> (pc[c] = "done")

(* A prepared run is replayed at most once, and never before its evidence  *)
(* is stored, in well-formed states.                                       *)
ReplayedOnceWithEvidence == TypeOK /\ AppliedOnce /\ EvidenceFirst

(* A failed replay accounts for itself: what it says was written was, and  *)
(* what it could take back it took back.                                   *)
FailureIsAccounted == FailureLeavesNothing /\ ReportCoversReplay
=================================================================================
