--------------------------- MODULE NormalizationApply ---------------------------
(***************************************************************************)
(* POST /apply-to-channels: renaming and merging existing channels after    *)
(* the normalization rules.  A caller either sends its actions directly, or *)
(* has them prepared as a plan first (a dry run with actions), in which     *)
(* case the commit validates the plan and then works with the channel       *)
(* contents frozen in it.                                                   *)
(*                                                                          *)
(* A channel has a name and a set of streams; the rules are a function on   *)
(* names.  The channels live in Dispatcharr, which others edit meanwhile.   *)
(***************************************************************************)
EXTENDS Integers, FiniteSets

CONSTANTS
  Channels, Names, Streams,
  Normalize,     \* what the rules make of a name
  NamesAtStart,  \* the channels' names
  StreamsAtStart,\* the channels' streams
  Commits,       \* execute requests
  MaxEdits,      \* bound: changes from outside
  MaxFailures      \* bound: calls that fail, or are executed and answer an error

ASSUME NormalizeAssumption ==
  /\ Normalize \in [Names -> Names]
  /\ NamesAtStart \in [Channels -> Names]
  /\ StreamsAtStart \in [Channels -> SUBSET Streams]
  /\ {MaxEdits, MaxFailures} \subseteq Nat
  /\ "nobody" \notin Commits /\ {"skip", "rename"} \cap Channels = {}

VARIABLES
  name, streams, alive,   \* the channels in Dispatcharr
  plan,      \* per commit: what was prepared, or NoPlan when it acts directly
  acts,      \* per commit: the actions of the request
  pc,        \* per commit: "idle", "next", "update", "delete", "done"
  todo,      \* diff rows still to be looked at
  diff,      \* the diff the commit works from
  cur,       \* the row in progress
  merged,    \* the streams the merge in progress will write
  lock,      \* _APPLY_TO_CHANNELS_EXECUTE_LOCK
  edits, failures

chanVars == <<name, streams, alive>>
runVars  == <<plan, acts, pc, todo, diff, cur, merged, lock>>
budget   == <<edits, failures>>
applyVars == <<name, streams, alive, plan, acts, pc, todo, diff, cur, merged, lock, edits, failures>>

Nobody == "nobody"
NoPlan == [planned |-> FALSE]
Spent  == [planned |-> TRUE]
NoDiff == <<>>
Actions == {"skip", "rename"} \cup Channels     \* a channel: merge into it

ApplyTypeOK ==
  /\ name \in [Channels -> Names] /\ streams \in [Channels -> SUBSET Streams]
  /\ alive \subseteq Channels
  /\ pc \in [Commits -> {"idle", "next", "update", "delete", "done"}]
  /\ todo \in [Commits -> SUBSET Channels] /\ cur \in [Commits -> Channels \cup {Nobody}]
  /\ \A c \in Commits : DOMAIN acts[c] \subseteq Channels /\ DOMAIN diff[c] \subseteq Channels
  /\ merged \in [Commits -> SUBSET Streams]
  /\ lock \in Commits \cup {Nobody}
  /\ edits \in 0 .. MaxEdits /\ failures \in 0 .. MaxFailures

ApplyInit ==
  /\ name = NamesAtStart /\ streams = StreamsAtStart /\ alive = Channels
  /\ plan = [c \in Commits |-> NoPlan] /\ acts = [c \in Commits |-> NoDiff]
  /\ pc = [c \in Commits |-> "idle"]
  /\ todo = [c \in Commits |-> {}] /\ diff = [c \in Commits |-> NoDiff]
  /\ cur = [c \in Commits |-> Nobody] /\ merged = [c \in Commits |-> {}]
  /\ lock = Nobody /\ edits = 0 /\ failures = 0

---------------------------------------------------------------------------
(* _build_apply_diff: the channels whose name would change, and the ones   *)
(* that own the proposed name already.                                     *)
Owners(ch) == {o \in alive \ {ch} : name[o] = Normalize[name[ch]]}

BuildApplyDiff ==
  [ch \in {x \in alive : Normalize[name[x]] # name[x]} |->
     [to |-> Normalize[name[ch]], owners |-> Owners(ch)]]

Rows == DOMAIN BuildApplyDiff

(* A merge needs a target; without one named the row's collision is it.    *)
Acceptable(a) == \A ch \in DOMAIN a : a[ch] \in Actions \ {ch}

(* What a planned commit freezes: sources, and targets of merges.          *)
Frozen(a) ==
  LET ids == {ch \in DOMAIN a : a[ch] # "skip"} \cup {a[ch] : ch \in {x \in DOMAIN a : a[x] \in Channels}}
  IN  [ch \in ids |-> [n |-> name[ch], s |-> streams[ch]]]

(* A dry run with actions. *)
PrepareApply(c) ==
  /\ pc[c] = "idle" /\ plan[c] = NoPlan
  /\ \E a \in [Rows -> Actions] :
       /\ Acceptable(a)
       /\ DOMAIN Frozen(a) \subseteq alive
       /\ acts' = [acts EXCEPT ![c] = a]
       /\ plan' = [plan EXCEPT ![c] = [planned |-> TRUE, diff |-> BuildApplyDiff, pre |-> Frozen(a)]]
  /\ UNCHANGED <<chanVars, pc, todo, diff, cur, merged, lock, budget>>

\* mutant: the contents are not compared
NamesOnly(c) == BuildApplyDiff = plan[c].diff

(* The diff has to be the prepared one, and so have the frozen channels.   *)
PlanHolds(c) ==
  /\ BuildApplyDiff = plan[c].diff
  /\ \A ch \in DOMAIN plan[c].pre :
       ch \in alive /\ plan[c].pre[ch] = [n |-> name[ch], s |-> streams[ch]]

\* mutant: the lock is looked at and not taken
LockFree(c) == lock = Nobody /\ UNCHANGED lock

AcquireLock(c) == lock = Nobody /\ lock' = c

(* Without the lock the request is refused, with nothing done.             *)
Execute(c) ==
  /\ pc[c] = "idle"
  /\ AcquireLock(c)
  /\ IF plan[c] = NoPlan
     THEN \E a \in [Rows -> Actions] : Acceptable(a) /\ acts' = [acts EXCEPT ![c] = a]
     ELSE PlanHolds(c) /\ UNCHANGED acts
  /\ diff' = [diff EXCEPT ![c] = BuildApplyDiff]
  /\ todo' = [todo EXCEPT ![c] = Rows]
  /\ pc' = [pc EXCEPT ![c] = "next"]
  /\ UNCHANGED <<chanVars, plan, cur, merged, budget>>

(* A plan that does not hold any more is used up. *)
RefuseDrifted(c) ==
  /\ pc[c] = "idle" /\ lock = Nobody
  /\ plan[c] # NoPlan /\ ~PlanHolds(c)
  /\ pc' = [pc EXCEPT ![c] = "done"]
  /\ plan' = [plan EXCEPT ![c] = NoPlan] /\ acts' = [acts EXCEPT ![c] = NoDiff]
  /\ UNCHANGED <<chanVars, todo, diff, cur, merged, lock, budget>>

(* A call that answers an error, whether it was executed or not. *)
CallFails == failures < MaxFailures /\ failures' = failures + 1 /\ UNCHANGED edits

(* The row is through, well or with an entry in errors. *)
RowDone(c, ch) == /\ todo' = [todo EXCEPT ![c] = @ \ {ch}]
                  /\ cur' = [cur EXCEPT ![c] = Nobody]

Skip(c, ch) ==
  /\ pc[c] = "next" /\ ch \in todo[c]
  /\ \/ acts[c][ch] = "skip"
     \/ acts[c][ch] = "rename" /\ diff[c][ch].owners # {}
  /\ RowDone(c, ch)
  /\ UNCHANGED <<chanVars, plan, acts, pc, diff, merged, lock, budget>>

Rename(c, ch) ==
  /\ pc[c] = "next" /\ ch \in todo[c]
  /\ acts[c][ch] = "rename" /\ diff[c][ch].owners = {}
  /\ \/ /\ ch \in alive
        /\ name' = [name EXCEPT ![ch] = diff[c][ch].to]
        /\ UNCHANGED budget \/ CallFails
     \/ CallFails /\ UNCHANGED name
     \/ ch \notin alive /\ UNCHANGED <<name, budget>>
  /\ RowDone(c, ch)
  /\ UNCHANGED <<streams, alive, plan, acts, pc, diff, merged, lock>>

(* The contents of a channel a merge works with: frozen or just read.      *)
Contents(c, ch) == IF plan[c] = NoPlan THEN streams[ch] ELSE plan[c].pre[ch].s

Merge(c, ch) ==
  /\ pc[c] = "next" /\ ch \in todo[c]
  /\ acts[c][ch] \in Channels
  /\ LET t == acts[c][ch]
     IN  IF plan[c] = NoPlan /\ {ch, t} \ alive # {}
         THEN RowDone(c, ch) /\ UNCHANGED <<pc, merged>>
         ELSE /\ merged' = [merged EXCEPT ![c] = Contents(c, t) \cup Contents(c, ch)]
              /\ pc' = [pc EXCEPT ![c] = IF Contents(c, ch) \subseteq Contents(c, t)
                                         THEN "delete" ELSE "update"]
              /\ cur' = [cur EXCEPT ![c] = ch]
              /\ UNCHANGED todo
  /\ UNCHANGED <<chanVars, plan, acts, diff, lock, budget>>

(* The read of a merge fails. *)
MergeUnread(c, ch) ==
  /\ pc[c] = "next" /\ ch \in todo[c]
  /\ acts[c][ch] \in Channels /\ plan[c] = NoPlan
  /\ CallFails /\ RowDone(c, ch)
  /\ UNCHANGED <<chanVars, plan, acts, pc, diff, merged, lock>>

\* mutant: a failed update is not an error
UpdateRegardless(c) ==
  /\ pc[c] = "update"
  /\ LET t == acts[c][cur[c]]
     IN  \/ t \in alive /\ streams' = [streams EXCEPT ![t] = merged[c]] /\ UNCHANGED budget
         \/ CallFails /\ UNCHANGED streams
  /\ pc' = [pc EXCEPT ![c] = "delete"]
  /\ UNCHANGED <<name, alive, plan, acts, todo, diff, cur, merged, lock>>

UpdateTarget(c) ==
  /\ pc[c] = "update"
  /\ LET t == acts[c][cur[c]]
     IN  \/ /\ t \in alive
            /\ streams' = [streams EXCEPT ![t] = merged[c]]
            /\ pc' = [pc EXCEPT ![c] = "delete"]
            /\ UNCHANGED <<budget, todo, cur>>
         \/ /\ \/ t \in alive /\ streams' = [streams EXCEPT ![t] = merged[c]] /\ CallFails
               \/ CallFails /\ UNCHANGED streams
               \/ t \notin alive /\ UNCHANGED <<streams, budget>>
            /\ RowDone(c, cur[c])
            /\ pc' = [pc EXCEPT ![c] = "next"]
  /\ UNCHANGED <<name, alive, plan, acts, diff, merged, lock>>

DeleteSource(c) ==
  /\ pc[c] = "delete"
  /\ \/ alive' = alive \ {cur[c]} /\ (UNCHANGED budget \/ CallFails)
     \/ CallFails /\ UNCHANGED alive
  /\ RowDone(c, cur[c])
  /\ pc' = [pc EXCEPT ![c] = "next"]
  /\ UNCHANGED <<name, streams, plan, acts, diff, merged, lock>>

(* The request is answered; of what it worked with only whether it was     *)
(* planned, and the actions of a plan, stay on record.                     *)
Finish(c) ==
  /\ pc[c] = "next" /\ todo[c] = {}
  /\ pc' = [pc EXCEPT ![c] = "done"]
  /\ lock' = Nobody
  /\ diff' = [diff EXCEPT ![c] = NoDiff] /\ merged' = [merged EXCEPT ![c] = {}]
  /\ IF plan[c] = NoPlan
     THEN acts' = [acts EXCEPT ![c] = NoDiff] /\ UNCHANGED plan
     ELSE plan' = [plan EXCEPT ![c] = Spent] /\ UNCHANGED acts
  /\ UNCHANGED <<chanVars, todo, cur, budget>>

(* Somebody else changes the streams or the name of a channel. *)
OutsideEdit(ch) ==
  /\ edits < MaxEdits /\ edits' = edits + 1
  /\ ch \in alive
  /\ \/ \E s \in Streams : streams' = [streams EXCEPT ![ch] = {s}] /\ UNCHANGED name
     \/ \E n \in Names : name' = [name EXCEPT ![ch] = n] /\ UNCHANGED streams
  /\ UNCHANGED <<alive, runVars, failures>>

ApplyNext ==
  \/ \E c \in Commits : \/ PrepareApply(c) \/ Execute(c) \/ RefuseDrifted(c)
                        \/ UpdateTarget(c) \/ DeleteSource(c) \/ Finish(c)
  \/ \E c \in Commits, ch \in Channels :
       Skip(c, ch) \/ Rename(c, ch) \/ Merge(c, ch) \/ MergeUnread(c, ch)
  \/ \E ch \in Channels : OutsideEdit(ch)

ApplySpec == ApplyInit /\ [][ApplyNext]_applyVars

---------------------------------------------------------------------------
(* Properties *)

AllStreams == UNION {StreamsAtStart[ch] : ch \in Channels}
Kept       == UNION {streams[ch] : ch \in alive}

(* The plans in which no channel takes part in two merges. *)
Apart(a) ==
  \A x, y \in {ch \in DOMAIN a : a[ch] \in Channels} :
    x # y => {x, a[x]} \cap {y, a[y]} = {}

(* No merge loses a stream: what was on the channels at first is still on  *)
(* some channel, whatever calls fail half-way, unless others edit.  Said   *)
(* of requests that act directly and of plans whose merges have no channel *)
(* in common: the second of two merges into one target works from the      *)
(* target's frozen contents.                                               *)
SeparateMergesKeepStreams ==
  /\ edits = 0
  /\ \A c \in Commits : plan[c] = NoPlan \/ Apart(acts[c])
  => Kept = AllStreams

(* One bulk apply at a time changes channels.                              *)
OneApplyAtATime ==
  \A c, d \in Commits : {pc[c], pc[d]} \subseteq {"next", "update", "delete"} => c = d

(* Applies are well formed, exclude each other and lose no stream.         *)
AppliesKeepStreams == ApplyTypeOK /\ OneApplyAtATime /\ SeparateMergesKeepStreams

(* A planned commit starts on exactly the contents it froze: others'       *)
(* changes between prepare and commit are never written over.              *)
StartsOnFrozen ==
  [][\A c \in Commits : pc[c] = "idle" /\ pc'[c] = "next" /\ plan[c] # NoPlan =>
       \A ch \in DOMAIN plan[c].pre : plan[c].pre[ch].s = streams[ch]]_applyVars
================================================================================
