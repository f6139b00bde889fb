------------------------------ MODULE BulkCommit ------------------------------
(***************************************************************************)
(* One run of POST /api/channels/bulk-commit (_run_bulk_commit of          *)
(* backend/routers/channels.py, with the ledger of                         *)
(* bulk_commit_accounting.py, the compensator of channel_number_apply.py   *)
(* and the group emptying of channel_group_reparent.py): read the lineup,  *)
(* validate, create groups, apply the operations one upstream call at a    *)
(* time, put half-applied numbering back, write the journal, answer.       *)
(*                                                                         *)
(* Dispatcharr (up) refuses calls, or applies one and loses the answer;    *)
(* another client works in it at the same time; the task may be cancelled  *)
(* at any await.  Names, normalization, EPG fields and the wording of      *)
(* errors are left out; a logo is the write that creates it.               *)
(***************************************************************************)
EXTENDS NumberPlan

CONSTANTS
    World,        \* Dispatcharr at the start: [num, group, streams, groups]
    DefaultGroup, \* where emptied groups' channels go
    Placeholder,  \* a group id the caller never resolved
    Scenarios     \* what a run may meet, see below

(***************************************************************************)
(* A scenario: the requests [ops, coe, consolidate, newGroup] a caller may *)
(* send, and the environment of the run (env): the faults that may happen, *)
(* whether the task may be cancelled, the values another client may write  *)
(* (stat, per field), how many changes it makes, and whether only before   *)
(* the run has read the lineup.                                            *)
(***************************************************************************)
AllFaults == {"lineup", "read", "refused", "lost", "malformed", "journal"}

ASSUME BulkAssumption ==
    /\ DOMAIN World = {"num", "group", "streams", "groups"}
    /\ \A s \in Scenarios :
        /\ s.env.maxOther \in Nat /\ s.env.faults \subseteq AllFaults
        /\ \A r \in s.requests : DependenciesHold(r.ops)

VARIABLES
    env,     \* the environment this run meets
    up,      \* Dispatcharr
    request, \* the request, consolidated if it asked for that
    run,     \* where the run is and what it holds
    known,   \* existing_channels: the lineup as the run believes it is
    led,     \* the operation ledger and the errors list
    comp,    \* the numbering compensator
    out,     \* what outlives the run: journal, recovery, outcome
    ghost,   \* what really happened: landed, acked, moot, overwrote, touched, doubled
    others   \* changes other clients made

commitVars == <<env, up, request, run, known, led, comp, out, ghost, others>>

NewId(t) == 100 - t
AutoNumber == 99
Blank == [num |-> Unset, group |-> "none", streams |-> {}]
Empty == [c \in {} |-> Blank]

Row(u, c) == [num |-> u.num[c], group |-> u.group[c], streams |-> u.streams[c]]
Lineup(u) == [c \in DOMAIN u.num |-> Row(u, c)]
NumbersOf(k) == [c \in DOMAIN k |-> k[c].num]
Before(c) == IF c \in DOMAIN known THEN known[c] ELSE Blank

Ops == request.ops
Op == Ops[run.cur]

(* resolve_id: a temp id is the id its create answered with. *)
Resolve(c) == IF c \in DOMAIN run.temp THEN run.temp[c] ELSE c

(* A range over no channels is valid, and numbers nobody. *)
NumberingOp(op) ==
    SetsNumber(op) \/ (op.type = "bulkAssignChannelNumbers" /\ op.channelIds # <<>>)

PlacesChannel(op) == NumberingOp(op) \/ (op.type = "createChannel" /\ op.num # Unset)

-------------------------------------------------------------------------------
(* Dispatcharr: what a call does, and when it is accepted. *)

Exists(u, c) == c \in DOMAIN u.num

(* Ids are given out once. *)
Accepts(u, op) ==
    CASE op.type = "updateChannel" ->
             /\ Exists(u, Resolve(op.channelId))
             /\ "group" \in DOMAIN op.data => op.data.group \in u.groups
      [] op.type = "bulkAssignChannelNumbers" -> \A c \in Range(op.channelIds) : Exists(u, Resolve(c))
      [] op.type = "deleteChannelGroup" ->
             op.groupId \in u.groups /\ \A c \in DOMAIN u.group : u.group[c] # op.groupId
      [] op.type = "renameChannelGroup" -> op.groupId \in u.groups
      [] op.type = "createGroup" -> op.groupId \notin u.groups
      [] op.type = "createChannel" -> NewId(op.tempId) \notin DOMAIN World.num \cup DOMAIN u.num
      [] OTHER -> Exists(u, Resolve(op.channelId))

Extend(f, c, v) == [d \in DOMAIN f \cup {c} |-> IF d = c THEN v ELSE f[d]]
Without(f, c) == [d \in DOMAIN f \ {c} |-> f[d]]

(* Where a range puts c: at its last place in the list. *)
RangeNumber(op, c) ==
    op.start + Latest({k \in Positions(op.channelIds) : Resolve(op.channelIds[k]) = c}) - 1

InRange(op, c) == \E k \in Positions(op.channelIds) : Resolve(op.channelIds[k]) = c

CreatedNumber(op) == IF op.num = Unset THEN AutoNumber ELSE op.num

Applied(u, op) ==
    CASE op.type = "updateChannel" ->
             LET c == Resolve(op.channelId)
             IN  [u EXCEPT !.num[c] = IF SetsNumber(op) THEN op.data.num ELSE @,
                           !.group[c] = IF "group" \in DOMAIN op.data THEN op.data.group ELSE @]
      [] op.type = "bulkAssignChannelNumbers" ->
             [u EXCEPT !.num = [c \in DOMAIN u.num |->
                                   IF InRange(op, c) THEN RangeNumber(op, c) ELSE u.num[c]]]
      [] op.type = "createChannel" ->
             [u EXCEPT !.num = Extend(@, NewId(op.tempId), CreatedNumber(op)),
                       !.group = Extend(@, NewId(op.tempId), DefaultGroup),
                       !.streams = Extend(@, NewId(op.tempId), {})]
      [] op.type = "deleteChannel" ->
             LET c == Resolve(op.channelId)
             IN  [u EXCEPT !.num = Without(@, c), !.group = Without(@, c), !.streams = Without(@, c)]
      [] op.type \in StreamTypes -> [u EXCEPT !.streams[Resolve(op.channelId)] = run.streams]
      [] op.type = "deleteChannelGroup" -> [u EXCEPT !.groups = @ \ {op.groupId}]
      [] op.type = "createGroup" -> [u EXCEPT !.groups = @ \cup {op.groupId}]
      [] OTHER -> u

(* A call is answered, refused, or applied with its answer lost. *)
Answers(accepted, world) ==
    IF accepted
    THEN {<<"ok", world>>}
         \cup (IF "refused" \in env.faults THEN {<<"refused", up>>} ELSE {})
         \cup (IF "lost" \in env.faults THEN {<<"lost", world>>} ELSE {})
    ELSE {<<"refused", up>>}

(* What the answer makes true of the write named id. *)
Happened(id, a, g) ==
    [g EXCEPT !.landed = IF a[1] \in {"ok", "lost"} THEN @ \cup {id} ELSE @,
              !.acked = IF a[1] = "ok" THEN @ \cup {id} ELSE @,
              !.moot = IF a[1] = "ok" /\ a[2] = up THEN @ \cup {id} ELSE @]

-------------------------------------------------------------------------------
NoRun == [pc |-> "submit", cur |-> 0, todo |-> <<>>, temp |-> [c \in {} |-> 0], mapped |-> {},
          streams |-> {}, moves |-> {}, steps |-> {}, start |-> [c \in {} |-> 0],
          resolved |-> FALSE]

NoLedger == [applied |-> {}, failed |-> {}, incomplete |-> {}, partial |-> {}, side |-> FALSE,
             aborted |-> FALSE, setup |-> 0, rows |-> {}, silent |-> {}, errors |-> {}]

CommitInit ==
    /\ up = World
    /\ \E s \in Scenarios : env = s.env /\ request \in s.requests
    /\ run = NoRun
    /\ known = Empty
    /\ led = NoLedger
    /\ comp = [landed |-> [c \in {} |-> 0], count |-> 0, failed |-> FALSE]
    /\ out = [outcome |-> "none", journal |-> {}, recovery |-> {}]
    /\ ghost = [landed |-> {}, acked |-> {}, moot |-> {}, overwrote |-> {}, touched |-> {},
                doubled |-> FALSE, before |-> [c \in {} |-> 0]]
    /\ others = 0

(* The request is taken: consolidated if it asked for that, and then its    *)
(* temp ids are checked again; a list that fails the check ends the job.    *)
Submit ==
    /\ run.pc = "submit"
    /\ LET ops == IF request.consolidate THEN Consolidate(Ops) ELSE Ops
       IN  /\ request' = [request EXCEPT !.ops = ops]
           /\ IF DependenciesHold(ops)
              THEN run' = [run EXCEPT !.pc = "lineup"] /\ UNCHANGED out
              ELSE run' = [run EXCEPT !.pc = "done"] /\ out' = [out EXCEPT !.outcome = "error"]
    /\ UNCHANGED <<env, up, known, led, comp, ghost, others>>

-------------------------------------------------------------------------------
(* Phase 0: pre-validation against the lineup. *)

Referenced ==
    {c \in UNION {CASE Ops[i].type = "bulkAssignChannelNumbers" -> Range(Ops[i].channelIds)
                    [] Ops[i].type \in ChannelTypes -> {Ops[i].channelId}
                    [] OTHER -> {} : i \in Positions(Ops)} : c >= 0}

NeedsLineup == Referenced # {} \/ \E i \in Positions(Ops) : PlacesChannel(Ops[i])

(* The stream lists every prefix of the request would leave; a reorder that *)
(* is not a permutation of its list blocks the request.                     *)
StreamPlanHolds(lineup) ==
    LET start == [c \in DOMAIN lineup \cup ToCreate(Ops) |->
                     IF c \in DOMAIN lineup THEN lineup[c].streams ELSE {}]
        planned[i \in 0 .. Len(Ops)] ==
            IF i = 0 THEN start
            ELSE LET op == Ops[i]
                     was == planned[i - 1]
                 IN  IF op.type \notin StreamTypes THEN was
                     ELSE IF op.channelId \notin DOMAIN was THEN was
                     ELSE [was EXCEPT ![op.channelId] =
                              CASE op.type = "addStreamToChannel" -> @ \cup op.streams
                                [] op.type = "removeStreamFromChannel" -> @ \ op.streams
                                [] OTHER -> @]
    IN  \A i \in Positions(Ops) :
            (/\ Ops[i].type = "reorderChannelStreams"
             /\ Ops[i].channelId \in DOMAIN planned[i - 1])
            => planned[i - 1][Ops[i].channelId] = Ops[i].streams

(* A deleteChannel of a missing channel is no issue: it is already gone. *)
MustExist ==
    {c \in Referenced :
        \/ AssignsOf(Ops, c) # {}
        \/ \E i \in Positions(Ops) :
               Ops[i].type \in ChannelTypes \ {"deleteChannel"} /\ Ops[i].channelId = c}

ValidationPassed(lineup, resolved) ==
    /\ resolved => MustExist \subseteq DOMAIN lineup
    /\ (\E i \in Positions(Ops) : PlacesChannel(Ops[i])) => resolved
    /\ DuplicateIssues(NumbersOf(lineup), Ops) = {}
    /\ StreamPlanHolds(lineup)

(* The lineup is read, the request judged, and execution begins or not. *)
ReadLineup(resolved) ==
    /\ run.pc = "lineup"
    /\ ~resolved => ("lineup" \in env.faults \/ ~NeedsLineup)
    /\ resolved => NeedsLineup
    /\ LET lineup == IF resolved THEN Lineup(up) ELSE Empty
           goes == /\ StreamPlanHolds(lineup)
                   /\ ValidationPassed(lineup, resolved) \/ request.coe
       IN  /\ known' = lineup
           /\ run' = [run EXCEPT
                         !.pc = IF ~goes THEN "done"
                                ELSE IF request.newGroup THEN "groups" ELSE "next",
                         !.resolved = resolved,
                         !.start = NumbersOf(lineup),
                         !.todo = ExecutionOrder(NumbersOf(lineup), Ops)]
           /\ out' = [out EXCEPT !.outcome = IF goes THEN @ ELSE "refused"]
    /\ ghost' = [ghost EXCEPT !.before = up.num]
    /\ UNCHANGED <<env, up, request, led, comp, others>>

(* Phase 1: a group to create.  One that exists is looked up by name; any   *)
(* other failure ends the run before its first operation.                   *)
MakeGroup ==
    /\ run.pc = "groups"
    /\ \E a \in Answers("new" \notin up.groups, [up EXCEPT !.groups = @ \cup {"new"}]),
          exists \in BOOLEAN :
        /\ exists => a[1] = "refused" /\ "new" \in up.groups
        /\ up' = a[2]
        /\ ghost' = Happened(<<0, 0>>, a, ghost)
        /\ IF a[1] = "ok" \/ exists
           THEN /\ led' = IF exists THEN led ELSE [led EXCEPT !.rows = @ \cup {<<0, 0>>}]
                /\ run' = [run EXCEPT !.pc = "next", !.mapped = @ \cup {"new"}]
           ELSE /\ led' = [led EXCEPT !.setup = @ + 1, !.aborted = TRUE,
                                      !.errors = @ \cup {[op |-> -1, applied |-> FALSE, side |-> FALSE]}]
                /\ run' = [run EXCEPT !.pc = "flush"]
    /\ UNCHANGED <<env, request, known, comp, out, others>>

-------------------------------------------------------------------------------
(* Phase 2: the operations. *)

(* The open operation closes as applied. *)
ApplyOp(l) == [l EXCEPT !.applied = @ \cup {run.cur}, !.side = FALSE]

(* The open operation closes as failed, with what of it landed. *)
FailOp(l) ==
    [l EXCEPT !.failed = @ \cup {run.cur},
              !.partial = IF l.side THEN @ \cup {run.cur} ELSE @,
              !.side = FALSE,
              !.aborted = @ \/ ~request.coe,
              !.errors = @ \cup {[op |-> run.cur, applied |-> FALSE, side |-> l.side]}]

(* Mutant: it is reported as a failure. *)
FailAfterWriteAsFailed(l) == FailOp(l)

(* A failure after the operation's own write landed: applied, incomplete. *)
FailAfterWrite(l) ==
    [l EXCEPT !.applied = @ \cup {run.cur},
              !.incomplete = @ \cup {run.cur},
              !.side = FALSE,
              !.aborted = @ \/ ~request.coe,
              !.errors = @ \cup {[op |-> run.cur, applied |-> TRUE, side |-> FALSE]}]

AfterFailure == [run EXCEPT !.pc = "next", !.todo = IF request.coe THEN @ ELSE <<>>]

NoteFailedNumber(c) == IF NumberingOp(Op) THEN [c EXCEPT !.failed = TRUE] ELSE c

Fails == led' = FailOp(led) /\ comp' = NoteFailedNumber(comp) /\ run' = AfterFailure

(* Why an operation fails before its first call. *)
Unresolved(op) ==
    \/ op.type \in ChannelTypes /\ Resolve(op.channelId) < 0
    \/ op.type = "bulkAssignChannelNumbers" /\ \E c \in Range(op.channelIds) : Resolve(c) < 0
    \/ op.type = "updateChannel" /\ "group" \in DOMAIN op.data /\ op.data.group = Placeholder

(* Mutant: a lineup that could not be read lets the claim pass. *)
ClaimFailsIfRead(op) ==
    /\ SetsNumber(op)
    /\ op.expected # NoClaim
    /\ run.resolved
    /\ LET c == Resolve(op.channelId)
       IN  (IF c \in DOMAIN run.start THEN run.start[c] ELSE Unset) # op.expected

(* check_expected_number: against the lineup as the run first read it. *)
ClaimFails(op) ==
    /\ SetsNumber(op)
    /\ op.expected # NoClaim
    /\ \/ ~run.resolved
       \/ LET c == Resolve(op.channelId)
          IN  (IF c \in DOMAIN run.start THEN run.start[c] ELSE Unset) # op.expected

LocalTypes == {"restoreChannelGroup", "clearStreamStats"}

(* Mutant: an operation that only touches ECM's tables has no step of its own. *)
FirstAwaitNamed(op) == IF op.type \in StreamTypes THEN "read" ELSE op.type

FirstAwait(op) ==
    CASE op.type \in StreamTypes -> "read"
      [] op.type = "deleteChannelGroup" -> "scan"
      [] op.type = "createChannel" /\ op.logo -> "logo"
      [] op.type \in LocalTypes -> "local"
      [] OTHER -> "write"

(* The next operation is opened. *)
Begin ==
    /\ run.pc = "next"
    /\ run.todo # <<>>
    /\ run' = [run EXCEPT !.cur = Head(run.todo), !.todo = Tail(run.todo), !.pc = "open"]
    /\ UNCHANGED <<env, up, request, known, led, comp, out, ghost, others>>

Open ==
    /\ run.pc = "open"
    /\ IF Unresolved(Op) \/ (Op.type = "updateChannel" /\ ClaimFails(Op))
       THEN Fails
       ELSE IF Op.type = "createGroup" /\ Op.groupId \in run.mapped
            THEN /\ led' = ApplyOp(led)
                 /\ run' = [run EXCEPT !.pc = "next"]
                 /\ UNCHANGED comp
            ELSE run' = [run EXCEPT !.pc = FirstAwait(Op)] /\ UNCHANGED <<led, comp>>
    /\ UNCHANGED <<env, up, request, known, out, ghost, others>>

(* A stream edit reads the channel; the list it will write is settled here. *)
ReadChannel ==
    /\ run.pc = "read"
    /\ LET c == Resolve(Op.channelId)
           streams == up.streams[c]
           edited == CASE Op.type = "addStreamToChannel" -> streams \cup Op.streams
                       [] Op.type = "removeStreamFromChannel" -> streams \ Op.streams
                       [] OTHER -> Op.streams
       IN  \E ok \in {Exists(up, c)} \cup (IF "read" \in env.faults THEN {FALSE} ELSE {}) :
            IF ~ok \/ (Op.type = "reorderChannelStreams" /\ streams # Op.streams)
            THEN Fails
            ELSE /\ UNCHANGED comp
                 /\ IF edited = streams /\ Op.type # "reorderChannelStreams"
                    THEN led' = ApplyOp(led) /\ run' = [run EXCEPT !.pc = "next"]
                    ELSE UNCHANGED led /\ run' = [run EXCEPT !.pc = "write", !.streams = edited]
    /\ UNCHANGED <<env, up, request, known, out, ghost, others>>

(* A group delete lists the group's channels, and where they can go. *)
ScanGroup ==
    /\ run.pc = "scan"
    /\ \E ok \in {TRUE} \cup (IF "read" \in env.faults THEN {FALSE} ELSE {}) :
        LET members == {c \in DOMAIN up.group : up.group[c] = Op.groupId}
            homeless == members # {} /\ (DefaultGroup \notin up.groups \/ Op.groupId = DefaultGroup)
        IN  IF ~ok \/ homeless
            THEN Fails
            ELSE /\ run' = [run EXCEPT !.pc = IF members = {} THEN "write" ELSE "move",
                                       !.moves = members]
                 /\ UNCHANGED <<led, comp>>
    /\ UNCHANGED <<env, up, request, known, out, ghost, others>>

(* record_write inside an open operation: a row, and a side effect. *)
RecordMove(l, id) == [l EXCEPT !.rows = @ \cup {id}, !.side = TRUE]

(* One member is read again, and moved if it is still there. *)
MoveMember ==
    /\ run.pc = "move"
    /\ \E c \in run.moves :
        LET last == run.moves = {c}
            goOn == [run EXCEPT !.moves = @ \ {c}, !.pc = IF last THEN "write" ELSE "move"]
        IN  IF Exists(up, c) /\ up.group[c] # Op.groupId
            THEN run' = goOn /\ UNCHANGED <<up, led, comp, ghost>>
            ELSE \E a \in Answers(Exists(up, c) /\ DefaultGroup \in up.groups,
                                  IF Exists(up, c) THEN [up EXCEPT !.group[c] = DefaultGroup] ELSE up) :
                    /\ up' = a[2]
                    /\ ghost' = Happened(<<run.cur, c>>, a, ghost)
                    /\ IF a[1] = "ok"
                       THEN led' = RecordMove(led, <<run.cur, c>>) /\ run' = goOn /\ UNCHANGED comp
                       ELSE Fails
    /\ UNCHANGED <<env, request, known, out, others>>

(* A create's logo is created first; failing that, the channel has none. *)
MakeLogo ==
    /\ run.pc = "logo"
    /\ \E a \in Answers(TRUE, up) :
        /\ ghost' = [Happened(<<run.cur, -1>>, a, ghost) EXCEPT !.moot = @ \ {<<run.cur, -1>>}]
        /\ led' = IF a[1] = "ok" THEN RecordMove(led, <<run.cur, -1>>) ELSE led
    /\ run' = [run EXCEPT !.pc = "write"]
    /\ UNCHANGED <<env, up, request, known, comp, out, others>>

(* restoreChannelGroup and clearStreamStats write ECM's own tables; there   *)
(* may be nothing to remove.                                                *)
LocalWrite ==
    /\ run.pc = "local"
    /\ \E did \in BOOLEAN :
        /\ led' = [ApplyOp(led) EXCEPT
                      !.rows = IF did THEN @ \cup {<<run.cur, 0>>} ELSE @,
                      !.silent = IF did THEN @ ELSE @ \cup {<<run.cur, 0>>}]
        /\ ghost' = [ghost EXCEPT !.landed = @ \cup {<<run.cur, 0>>},
                                  !.acked = @ \cup {<<run.cur, 0>>},
                                  !.moot = IF did THEN @ ELSE @ \cup {<<run.cur, 0>>}]
    /\ run' = [run EXCEPT !.pc = "next"]
    /\ UNCHANGED <<env, up, request, known, comp, out, others>>

-------------------------------------------------------------------------------
(* The operation's own write. *)

(* The places of a range whose number their channel is not on yet. *)
Differing(op, c) ==
    {k \in Positions(op.channelIds) :
        Resolve(op.channelIds[k]) = c /\ op.start + k - 1 # Before(c).num}

(* renumbered: the channels a range moves, each to its last such place.     *)
Renumbered(op) ==
    [c \in {d \in {Resolve(op.channelIds[k]) : k \in Positions(op.channelIds)} : Differing(op, d) # {}} |->
        op.start + Latest(Differing(op, c)) - 1]

(* Mutant: a describer that knows only the number. *)
ChangesNumber(op) == "num" \in DOMAIN op.data /\ op.data.num # Before(Resolve(op.channelId)).num

(* describe_channel_update: does any field of the PATCH differ? *)
Changes(op) == \E k \in DOMAIN op.data : op.data[k] # Before(Resolve(op.channelId))[k]

LeavesRow(op) ==
    CASE op.type = "updateChannel" -> Changes(op)
      [] op.type = "bulkAssignChannelNumbers" -> DOMAIN Renumbered(op) # {}
      [] OTHER -> TRUE

(* The numbers a write of op moves, and which came first. *)
Moving(op) ==
    CASE SetsNumber(op) -> [c \in {Resolve(op.channelId)} |-> op.data.num]
      [] op.type = "bulkAssignChannelNumbers" -> Renumbered(op)
      [] OTHER -> [c \in {} |-> 0]

WhereIn(op, c) == IF SetsNumber(op) THEN 1 ELSE Least(Differing(op, c))

(* Mutant: the number before its last write. *)
FirstBeforeLatest(c) == Before(c).num

(* _first_before: the number of c before the run touched it. *)
FirstBefore(c) == IF c \in DOMAIN comp.landed THEN comp.landed[c].before ELSE Before(c).num

(* record_landed, once per channel whose number the write moved: of several *)
(* writes of a channel the first before, the last after, and when it landed.*)
RecordLanded(op) ==
    [comp EXCEPT
        !.landed = [c \in DOMAIN @ \cup DOMAIN Moving(op) |->
                       IF c \in DOMAIN Moving(op)
                       THEN [before |-> FirstBefore(c), after |-> Moving(op)[c],
                             at |-> comp.count + WhereIn(op, c)]
                       ELSE @[c]],
        !.count = IF op.type = "bulkAssignChannelNumbers" THEN @ + Len(op.channelIds) ELSE @ + 1]

(* The running copy of the lineup follows the run's own writes. *)
Follow(op) ==
    CASE op.type = "updateChannel" /\ Resolve(op.channelId) \in DOMAIN known ->
             [known EXCEPT ![Resolve(op.channelId)] =
                 [k \in DOMAIN @ |-> IF k \in DOMAIN op.data THEN op.data[k] ELSE @[k]]]
      [] op.type = "bulkAssignChannelNumbers" ->
             [c \in DOMAIN known |->
                 IF c \in DOMAIN Renumbered(op) THEN [known[c] EXCEPT !.num = Renumbered(op)[c]] ELSE known[c]]
      [] op.type = "createChannel" -> Extend(known, NewId(op.tempId), Row(Applied(up, op), NewId(op.tempId)))
      [] OTHER -> known

Settled(op) ==
    CASE op.type = "createChannel" ->
             [run EXCEPT !.pc = "next", !.temp = Extend(@, op.tempId, NewId(op.tempId))]
      [] op.type = "createGroup" -> [run EXCEPT !.pc = "next", !.mapped = @ \cup {op.groupId}]
      [] OTHER -> [run EXCEPT !.pc = "next"]

RecordPersisted(l) ==
    IF LeavesRow(Op)
    THEN [l EXCEPT !.rows = @ \cup {<<run.cur, 0>>}]
    ELSE [l EXCEPT !.silent = @ \cup {<<run.cur, 0>>}]

(* The numbers a write replaces that neither the caller expected nor this   *)
(* run wrote.                                                               *)
Overwrites(op) ==
    /\ SetsNumber(op)
    /\ op.expected # NoClaim
    /\ LET c == Resolve(op.channelId)
       IN  c \notin ghost.touched /\ up.num[c] # op.expected

Touches(op) ==
    CASE SetsNumber(op) -> {Resolve(op.channelId)}
      [] op.type = "bulkAssignChannelNumbers" -> {Resolve(op.channelIds[k]) : k \in Positions(op.channelIds)}
      [] op.type = "createChannel" -> {NewId(op.tempId)}
      [] OTHER -> {}

(* A range that names a channel twice. *)
Doubles(op) ==
    /\ op.type = "bulkAssignChannelNumbers"
    /\ \E j, k \in Positions(op.channelIds) :
           j # k /\ Resolve(op.channelIds[j]) = Resolve(op.channelIds[k])

Witness(a) ==
    LET g == Happened(<<run.cur, 0>>, a, ghost)
    IN  IF a[1] = "refused" THEN g
        ELSE [g EXCEPT !.overwrote = IF Overwrites(Op) THEN @ \cup {run.cur} ELSE @,
                       !.touched = @ \cup Touches(Op),
                       !.doubled = @ \/ Doubles(Op),
                       !.moot = IF Op.type \in {"setProfileMembership", "renameChannelGroup"}
                                   \cup StreamTypes
                                THEN @ \ {<<run.cur, 0>>} ELSE @]

(* Dispatcharr answers 404 to the delete of a channel that is gone. *)
AlreadyGone == Op.type = "deleteChannel" /\ ~Exists(up, Resolve(Op.channelId))

(* The upstream call of the open operation returns or raises. *)
Write ==
    /\ run.pc = "write"
    /\ ~AlreadyGone
    /\ \E a \in Answers(Accepts(up, Op), IF Accepts(up, Op) THEN Applied(up, Op) ELSE up) :
        /\ up' = a[2]
        /\ ghost' = Witness(a)
        /\ IF a[1] = "ok"
           THEN /\ led' = ApplyOp(RecordPersisted(led))
                /\ comp' = RecordLanded(Op)
                /\ known' = Follow(Op)
                /\ run' = Settled(Op)
           ELSE Fails /\ UNCHANGED known
    /\ UNCHANGED <<env, request, out, others>>

WriteGone ==
    /\ run.pc = "write"
    /\ AlreadyGone
    /\ led' = ApplyOp([led EXCEPT !.silent = @ \cup {<<run.cur, 0>>}])
    /\ run' = [run EXCEPT !.pc = "next"]
    /\ UNCHANGED <<env, up, request, known, comp, out, ghost, others>>

(* A create answered without a usable id: the entity exists, the operation  *)
(* is applied and incomplete, and nothing maps its temp id or its name.     *)
WriteMalformed ==
    /\ "malformed" \in env.faults
    /\ run.pc = "write"
    /\ Op.type \in {"createChannel", "createGroup"}
    /\ Accepts(up, Op)
    /\ up' = Applied(up, Op)
    /\ ghost' = Witness(<<"ok", Applied(up, Op)>>)
    /\ led' = FailAfterWrite(RecordPersisted(led))
    /\ run' = AfterFailure
    /\ UNCHANGED <<env, request, known, comp, out, others>>

-------------------------------------------------------------------------------
(* Phase 2b: numbering that stopped part way is put back, newest first. *)

(* half_applied: did part of the numbering land while part did not? *)
HalfApplied == DOMAIN comp.landed # {} /\ comp.failed

(* One step per channel, to the number it had before the run. *)
CompensationSteps ==
    LET step(c) == [channelId |-> c, before |-> comp.landed[c].after, after |-> comp.landed[c].before]
    IN  {s \in {step(c) : c \in DOMAIN comp.landed} : Moves(s)}

Settle ==
    /\ run.pc = "next"
    /\ run.todo = <<>>
    /\ run' = [run EXCEPT !.pc = IF HalfApplied THEN "compensate" ELSE "flush",
                          !.steps = IF HalfApplied THEN CompensationSteps ELSE {}]
    /\ UNCHANGED <<env, up, request, known, led, comp, out, ghost, others>>

(* The newest step first; one that could not be made is listed with where   *)
(* the channel is and where it belongs.                                     *)
Compensate ==
    /\ run.pc = "compensate"
    /\ \E step \in run.steps :
        LET c == step.channelId
        IN  /\ \A s \in run.steps : comp.landed[s.channelId].at <= comp.landed[c].at
            /\ \E a \in Answers(Exists(up, c), IF Exists(up, c) THEN [up EXCEPT !.num[c] = step.after] ELSE up) :
                /\ up' = a[2]
                /\ ghost' = Happened(<<0, c>>, a, ghost)
                /\ IF a[1] = "ok"
                   THEN /\ led' = [led EXCEPT !.rows = @ \cup {<<0, c>>}]
                        /\ known' = IF c \in DOMAIN known THEN [known EXCEPT ![c].num = step.after] ELSE known
                        /\ UNCHANGED out
                   ELSE /\ out' = [out EXCEPT !.recovery = @ \cup {step}]
                        /\ UNCHANGED <<led, known>>
            /\ run' = [run EXCEPT !.steps = @ \ {step}]
    /\ UNCHANGED <<env, request, comp, others>>

(* Mutant: the error is listed and not counted. *)
RecoveryErrorUncounted(l) ==
    [l EXCEPT !.errors = @ \cup {[op |-> -2, applied |-> FALSE, side |-> FALSE]}]

RecoveryError(l) ==
    [l EXCEPT !.setup = @ + 1, !.errors = @ \cup {[op |-> -2, applied |-> FALSE, side |-> FALSE]}]

Compensated ==
    /\ run.pc = "compensate"
    /\ run.steps = {}
    /\ run' = [run EXCEPT !.pc = "flush"]
    /\ led' = IF out.recovery # {} THEN RecoveryError(led) ELSE led
    /\ UNCHANGED <<env, up, request, known, comp, out, ghost, others>>

-------------------------------------------------------------------------------
(* finish: the journal, then the envelope.  Rows that could not be written  *)
(* are counted and reported, never lost silently.                           *)
FinishRun ==
    /\ run.pc = "flush"
    /\ \E written \in {led.rows} \cup (IF "journal" \in env.faults THEN {{}} ELSE {}) :
        /\ out' = [out EXCEPT !.journal = written, !.outcome = "finished"]
        /\ led' = IF written = led.rows THEN led
                  ELSE [led EXCEPT !.setup = @ + 1,
                                   !.errors = @ \cup {[op |-> -3, applied |-> FALSE, side |-> FALSE]}]
    /\ run' = [run EXCEPT !.pc = "done"]
    /\ UNCHANGED <<env, up, request, known, comp, ghost, others>>

Awaiting == {"groups", "read", "scan", "move", "logo", "write", "compensate"}

(* Mutant: the flush sits on the way out by return only. *)
CancelUnflushed == out' = [out EXCEPT !.outcome = "cancelled"]

(* The finally clause: the queued rows are flushed, no envelope is made. *)
CancelFlush == out' = [out EXCEPT !.outcome = "cancelled", !.journal = led.rows]

(* The task is cancelled at an await (application shutdown); the call in     *)
(* flight may already have been applied.                                    *)
Cancel ==
    /\ env.cancellable
    /\ run.pc \in Awaiting
    /\ CancelFlush
    /\ \E late \in {FALSE, "lost" \in env.faults /\ run.pc = "write" /\ ~AlreadyGone /\ Accepts(up, Op)} :
        IF late
        THEN up' = Applied(up, Op) /\ ghost' = Witness(<<"lost", Applied(up, Op)>>)
        ELSE UNCHANGED <<up, ghost>>
    /\ run' = [run EXCEPT !.pc = "done"]
    /\ UNCHANGED <<env, request, known, led, comp, others>>

(* Another client renumbers, regroups or edits the streams of a channel. *)
OtherClient ==
    /\ others < env.maxOther
    /\ run.pc # "done"
    /\ env.earlyOnly => run.pc \in {"submit", "lineup"}
    /\ others' = others + 1
    /\ \E c \in DOMAIN up.num :
        \/ \E n \in env.stat.num \ {up.num[c]} : up' = [up EXCEPT !.num[c] = n]
        \/ \E g \in (env.stat.group \cap up.groups) \ {up.group[c]} : up' = [up EXCEPT !.group[c] = g]
        \/ \E s \in env.stat.stream \ up.streams[c] : up' = [up EXCEPT !.streams[c] = @ \cup {s}]
    /\ UNCHANGED <<env, request, run, known, led, comp, out, ghost>>

Done == run.pc = "done" /\ UNCHANGED commitVars

CommitNext ==
    \/ Submit \/ (\E resolved \in BOOLEAN : ReadLineup(resolved)) \/ MakeGroup
    \/ Begin \/ Open \/ ReadChannel \/ ScanGroup \/ MoveMember \/ MakeLogo \/ LocalWrite
    \/ Write \/ WriteGone \/ WriteMalformed
    \/ Settle \/ Compensate \/ Compensated \/ FinishRun \/ Cancel
    \/ OtherClient \/ Done

CommitSpec == CommitInit /\ [][CommitNext]_commitVars

-------------------------------------------------------------------------------
Ended == run.pc = "done"
Finished == out.outcome = "finished"
JournalFailed == \E e \in led.errors : e.op = -3

(* Every part of a run's state has the values the code gives it. *)
CommitTypeOK ==
    /\ run.pc \in {"submit", "lineup", "groups", "next", "open", "local", "flush", "done"} \cup Awaiting
    /\ run.cur \in 0 .. Len(Ops)
    /\ Range(run.todo) \subseteq Positions(Ops)
    /\ led.applied \cup led.failed \subseteq Positions(Ops)
    /\ DOMAIN run.temp \subseteq ToCreate(Ops)
    /\ DOMAIN up.num = DOMAIN up.group /\ DOMAIN up.num = DOMAIN up.streams
    /\ \A c \in DOMAIN up.group : up.group[c] \in up.groups
    /\ out.outcome \in {"none", "error", "refused", "finished", "cancelled"}

(* Rule 7 of the accounting: once the run is over, by return or by          *)
(* cancellation, the journal holds one row for each write Dispatcharr       *)
(* confirmed, side effects and compensations included, and no other row.    *)
JournalMatchesWrites ==
    out.outcome \in {"finished", "cancelled"} /\ ~JournalFailed
        => out.journal = ghost.acked \ led.silent

(* A write is left out of the journal only if it changed nothing ("the      *)
(* sentinel is reachable only when every field in the payload was already   *)
(* holding its value", bulk_commit_accounting.py).                          *)
SilentMeansNoChange == led.silent \cap ghost.acked \subseteq ghost.moot

(* Rules 1, 2, 4, 6 and 8: what finalize_bulk_commit_result would refuse to *)
(* answer never arises: outcomes, counts and error entries agree.           *)
EnvelopeConsistent ==
    Finished =>
        LET unapplied == {e \in led.errors : ~e.applied}
            marked == {e \in led.errors : e.side}
        IN  /\ led.applied \cap led.failed = {}
            /\ led.aborted \/ led.applied \cup led.failed = Positions(Ops)
            /\ Cardinality(unapplied) = Cardinality(led.failed) + led.setup
            /\ {e.op : e \in led.errors \ unapplied} = led.incomplete
            /\ {e.op : e \in marked} = led.partial
            /\ led.partial \subseteq led.failed

(* Rules 3 and 8: an operation reported as failed did not do what it was    *)
(* asked to do, and says so when writes of its own landed on the way.       *)
FailedMeansNotDone ==
    \A i \in led.failed :
        /\ <<i, 0>> \notin ghost.landed
        /\ (\E w \in ghost.landed : w[1] = i) => i \in led.partial

PutBack(c) ==
    \/ up.num[c] = ghost.before[c]
    \/ \E s \in out.recovery :
           s.channelId = c /\ s.before = up.num[c] /\ s.after = ghost.before[c]

Renumbers == ghost.touched \cap DOMAIN ghost.before \cap DOMAIN up.num

(* When a numbering operation of the run failed, every channel the run      *)
(* renumbered is back on the number it had, or is listed with the exact     *)
(* number it is on and the one it belongs on.                               *)
NumberingWholeOrRestored ==
    Finished /\ (\E i \in led.failed : NumberingOp(Ops[i])) => \A c \in Renumbers : PutBack(c)

(* A caller's expectation keeps its edit from replacing a number somebody   *)
(* else set before the run read the lineup, also when the lineup cannot be  *)
(* read (check_expected_number).                                            *)
NoBlindOverwrite == ghost.overwrote = {}

(* Nobody else is at work, every answer arrives, and the lineup was read. *)
Alone == env.maxOther = 0 /\ "lost" \notin env.faults /\ run.resolved

(* The answer, the journal and Dispatcharr agree on what a run did: counts  *)
(* and rows in any environment, an operation reported as failed unless an   *)
(* answer was lost, and the rows left out as long as what the run believes  *)
(* of a channel is so (others stay away, no group is emptied, and no range  *)
(* named a channel twice).                                                  *)
RunIsAccounted ==
    /\ CommitTypeOK /\ EnvelopeConsistent /\ JournalMatchesWrites
    /\ "lost" \notin env.faults => FailedMeansNotDone
    /\ (/\ env.earlyOnly /\ "lost" \notin env.faults /\ ~ghost.doubled
        /\ \A i \in Positions(Ops) : Ops[i].type # "deleteChannelGroup")
       => SilentMeansNoChange

(* A run leaves numbers as asked, as they were, or listed, and overwrites   *)
(* no number the caller did not expect: the first when it is alone and no   *)
(* range named a channel twice, the second when others keep to the time     *)
(* before the run read the lineup.                                          *)
NumbersProtected ==
    /\ Alone /\ ~ghost.doubled => NumberingWholeOrRestored
    /\ env.earlyOnly => NoBlindOverwrite
===============================================================================
