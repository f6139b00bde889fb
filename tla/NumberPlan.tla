------------------------------ MODULE NumberPlan ------------------------------
(***************************************************************************)
(* The pure half of a bulk commit (backend/routers/channels.py,            *)
(* channel_number_plan.py, channel_number_apply.py): what a list of staged *)
(* operations leaves on every channel's number, which collisions it may    *)
(* make, how a request is consolidated, and in which order its numbering   *)
(* edits are sent.                                                         *)
(*                                                                         *)
(* A channel id is an integer, negative for a channel the request itself   *)
(* creates.  A number is a natural; the slot key of the code (canonical    *)
(* ticks, so 7 and 7.0 are one number) is equality here.  All numbers an   *)
(* operation carries are in contract, so only the duplicate rule of the    *)
(* preflight is modelled.                                                  *)
(***************************************************************************)
EXTENDS Integers, Sequences, FiniteSets, SequencesExt

(* No number at all: Python's None, which never collides. *)
Unset == -1

(* No acknowledgedDuplicate on the operation. *)
NoAck == [number |-> Unset, occupants |-> {}]

(* No expectedNumber on the operation. *)
NoClaim == -2

(* A channel is edited by a bag of fields, of which "num" (channel_number) *)
(* and "group" (channel_group_id) matter; absent means "not changed".      *)
UpdateExpecting(c, data, ack, expected) ==
    [type |-> "updateChannel", channelId |-> c, data |-> data, ack |-> ack, expected |-> expected]

Update(c, data, ack) == UpdateExpecting(c, data, ack, NoClaim)

(* ids are assigned start, start + 1, ...; an omitted start is 1. *)
Assign(ids, start) ==
    [type |-> "bulkAssignChannelNumbers", channelIds |-> ids, start |-> start]

(* logo: the operation names a logo the catalogue may lack. *)
CreateChannel(t, num, ack, logo) ==
    [type |-> "createChannel", tempId |-> t, num |-> num, ack |-> ack, logo |-> logo]

Delete(c) == [type |-> "deleteChannel", channelId |-> c]

(* kind is one of StreamTypes; an order of streams is the set it lists. *)
StreamOp(kind, c, streams) == [type |-> kind, channelId |-> c, streams |-> streams]

SetProfile(c) == [type |-> "setProfileMembership", channelId |-> c]

(* createGroup, deleteChannelGroup, renameChannelGroup, restoreChannelGroup. *)
GroupOp(kind, g) == [type |-> kind, groupId |-> g]

ClearStats == [type |-> "clearStreamStats"]

StreamTypes ==
    {"addStreamToChannel", "removeStreamFromChannel", "reorderChannelStreams"}

(* The operations that name one channel by id. *)
ChannelTypes == StreamTypes \cup {"updateChannel", "deleteChannel", "setProfileMembership"}

Positions(s) == 1 .. Len(s)

SetsNumber(op) == op.type = "updateChannel" /\ "num" \in DOMAIN op.data

-------------------------------------------------------------------------------
(* Request validation: a temp id is created once, and before its first use. *)

Creates(ops, k, t) == ops[k].type = "createChannel" /\ ops[k].tempId = t

NegativeReferences(op) ==
    CASE op.type = "bulkAssignChannelNumbers" -> {c \in Range(op.channelIds) : c < 0}
      [] op.type \in ChannelTypes -> {c \in {op.channelId} : c < 0}
      [] OTHER -> {}

DependenciesHold(ops) ==
    \A i \in Positions(ops) :
        /\ ops[i].type = "createChannel" =>
               \A k \in 1 .. i - 1 : ~Creates(ops, k, ops[i].tempId)
        /\ \A t \in NegativeReferences(ops[i]) :
               \E k \in 1 .. i - 1 : Creates(ops, k, t)

-------------------------------------------------------------------------------
(* build_final_numbering_state: one placement per channel, later wins. *)

Standing(num) ==
    [number |-> num, base |-> num, isNew |-> FALSE, touched |-> 0, ack |-> NoAck]

SetNumber(p, num, i, ack) ==
    [p EXCEPT !.number = num, !.touched = i, !.ack = ack]

LastPosition(s, e) == CHOOSE k \in Positions(s) : s[k] = e /\ \A j \in k + 1 .. Len(s) : s[j] # e

AssignedNumber(op, c) == op.start + LastPosition(op.channelIds, c) - 1

Place(by, op, i) ==
    CASE op.type = "updateChannel" ->
             IF op.channelId \in DOMAIN by /\ SetsNumber(op)
             THEN [by EXCEPT ![op.channelId] = SetNumber(@, op.data.num, i, op.ack)]
             ELSE by
      [] op.type = "createChannel" ->
             [c \in DOMAIN by \cup {op.tempId} |->
                 IF c = op.tempId
                 THEN [SetNumber(Standing(Unset), op.num, i, op.ack) EXCEPT !.isNew = TRUE]
                 ELSE by[c]]
      [] op.type = "deleteChannel" ->
             [c \in DOMAIN by \ {op.channelId} |-> by[c]]
      [] op.type = "bulkAssignChannelNumbers" ->
             [c \in DOMAIN by |->
                 IF c \in Range(op.channelIds)
                 THEN SetNumber(by[c], AssignedNumber(op, c), i, NoAck)
                 ELSE by[c]]
      [] OTHER -> by

FinalState(lineup, ops) ==
    LET after[i \in 0 .. Len(ops)] ==
            IF i = 0
            THEN [c \in DOMAIN lineup |-> Standing(lineup[c])]
            ELSE Place(after[i - 1], ops[i], i)
    IN  after[Len(ops)]

FinalNumbers(lineup, ops) ==
    LET final == FinalState(lineup, ops)
    IN  [c \in DOMAIN final |-> final[c].number]

(* Did the request put the channel where it now is? *)
Moved(p) == (p.isNew \/ p.number # p.base) /\ p.touched > 0

(* Mutant: consent to a number is enough, whoever stands on it. *)
AccidentalNumberOnly(final, n) ==
    LET occupants == {c \in DOMAIN final : final[c].number = n}
        contributors == {c \in occupants : Moved(final[c])}
        standing(c) == (occupants \ contributors)
                       \cup {d \in contributors : final[d].touched < final[c].touched}
    IN  {c \in contributors : standing(c) # {} /\ final[c].ack.number # n}

(* The channels on n whose consent does not cover who stood there when they *)
(* arrived: arrivals are walked in the order of their last placement.       *)
Accidental(final, n) ==
    LET occupants == {c \in DOMAIN final : final[c].number = n}
        contributors == {c \in occupants : Moved(final[c])}
        standing(c) == (occupants \ contributors)
                       \cup {d \in contributors : final[d].touched < final[c].touched}
        consented(c) == \/ standing(c) = {}
                        \/ /\ final[c].ack.number = n
                           /\ standing(c) \subseteq final[c].ack.occupants
    IN  {c \in contributors : ~consented(c)}

(* evaluate_final_numbering: the numbers refused as duplicates. *)
DuplicateIssues(lineup, ops) ==
    LET final == FinalState(lineup, ops)
    IN  {n \in {final[c].number : c \in DOMAIN final} \ {Unset} : Accidental(final, n) # {}}

-------------------------------------------------------------------------------
(* _consolidate_operations. *)

ToDelete(ops) ==
    {ops[i].channelId : i \in {k \in Positions(ops) : ops[k].type = "deleteChannel"}}

ToCreate(ops) ==
    {ops[i].tempId : i \in {k \in Positions(ops) : ops[k].type = "createChannel"}}

Cancelled(ops) == ToDelete(ops) \cap ToCreate(ops)

(* The operations that set the number of c, in submitted order. *)
Setters(ops, c) ==
    {i \in Positions(ops) :
        \/ ops[i].type = "bulkAssignChannelNumbers" /\ c \in Range(ops[i].channelIds)
        \/ ops[i].type = "updateChannel" /\ ops[i].channelId = c /\ SetsNumber(ops[i])
        \/ ops[i].type = "createChannel" /\ ops[i].tempId = c}

(* Mutant: the first operation owns the number. *)
NumberOwnerFirst(ops, c) ==
    IF Setters(ops, c) = {} \/ c \in ToDelete(ops)
    THEN "none"
    ELSE ops[CHOOSE i \in Setters(ops, c) : \A k \in Setters(ops, c) : k >= i].type

(* The kind of the operation that owns the final number of c. *)
NumberOwner(ops, c) ==
    IF Setters(ops, c) = {} \/ c \in ToDelete(ops)
    THEN "none"
    ELSE ops[CHOOSE i \in Setters(ops, c) : \A k \in Setters(ops, c) : k <= i].type

(* The operations emitted first, in submitted order. *)
PassesThrough(ops, op) ==
    CASE op.type \in {"updateChannel", "bulkAssignChannelNumbers"} -> FALSE
      [] op.type = "createChannel" -> op.tempId \notin ToDelete(ops)
      [] op.type = "deleteChannel" -> op.channelId \notin Cancelled(ops)
      [] op.type \in StreamTypes -> op.channelId \notin Cancelled(ops)
      [] OTHER -> TRUE

(* Mutant: a superseded create is copied through untouched. *)
StripCreateNever(ops, op) == op

(* A create whose number another operation owns keeps the create, loses the *)
(* number and the consent that described it.                                *)
StripCreate(ops, op) ==
    IF op.type = "createChannel" /\ op.num # Unset /\ NumberOwner(ops, op.tempId) # "createChannel"
    THEN [op EXCEPT !.num = Unset, !.ack = NoAck]
    ELSE op

OrderedOps(ops) ==
    LET kept == SelectSeq(ops, LAMBDA op : PassesThrough(ops, op))
    IN  [i \in Positions(kept) |-> StripCreate(ops, kept[i])]

UpdatesOf(ops, c) ==
    {i \in Positions(ops) : ops[i].type = "updateChannel" /\ ops[i].channelId = c}

Latest(S) == CHOOSE i \in S : \A k \in S : k <= i

(* The fields of every update of c, the later value of each. *)
MergedData(ops, c) ==
    LET keys == UNION {DOMAIN ops[i].data : i \in UpdatesOf(ops, c)}
        setter(k) == Latest({i \in UpdatesOf(ops, c) : k \in DOMAIN ops[i].data})
    IN  [k \in keys |-> ops[setter(k)].data[k]]

(* One update per channel, copied from the one that set its number (else    *)
(* the last); the number comes off when another kind owns it.               *)
MergedUpdate(ops, c) ==
    LET numbered == {i \in UpdatesOf(ops, c) : SetsNumber(ops[i])}
        template == ops[Latest(IF numbered # {} THEN numbered ELSE UpdatesOf(ops, c))]
        data == MergedData(ops, c)
    IN  IF "num" \in DOMAIN data /\ NumberOwner(ops, c) # "updateChannel"
        THEN [template EXCEPT !.data = [k \in DOMAIN data \ {"num"} |-> data[k]],
                             !.ack = NoAck, !.expected = NoClaim]
        ELSE [template EXCEPT !.data = data]

(* Merged updates, in the order the channels were first updated; one with   *)
(* nothing left to write is dropped.                                        *)
MergedUpdates(ops) ==
    LET first(i) == /\ ops[i].type = "updateChannel"
                    /\ ops[i].channelId \notin ToDelete(ops)
                    /\ \A k \in UpdatesOf(ops, ops[i].channelId) : i <= k
        heads == SetToSortSeq({i \in Positions(ops) : first(i)}, <)
    IN  SelectSeq([j \in Positions(heads) |-> MergedUpdate(ops, ops[heads[j]].channelId)],
                  LAMBDA op : DOMAIN op.data # {})

AssignsOf(ops, c) ==
    {i \in Positions(ops) : ops[i].type = "bulkAssignChannelNumbers" /\ c \in Range(ops[i].channelIds)}

(* The surviving range assignments, regrouped into consecutive ranges. *)
MergedRanges(ops) ==
    LET assigned == {c \in UNION {Range(ops[i].channelIds) :
                                  i \in {k \in Positions(ops) : ops[k].type = "bulkAssignChannelNumbers"}} :
                        NumberOwner(ops, c) = "bulkAssignChannelNumbers"}
        number(c) == AssignedNumber(ops[Latest(AssignsOf(ops, c))], c)
        entries == SetToSortSeq(assigned, LAMBDA c, d : number(c) < number(d) \/ (number(c) = number(d) /\ c < d))
        starts == {i \in Positions(entries) : i = 1 \/ number(entries[i]) # number(entries[i - 1]) + 1}
        end(i) == CHOOSE j \in i .. Len(entries) :
                      /\ \A k \in i + 1 .. j : k \notin starts
                      /\ j = Len(entries) \/ j + 1 \in starts
        heads == SetToSortSeq(starts, <)
    IN  [j \in Positions(heads) |->
            Assign(SubSeq(entries, heads[j], end(heads[j])), number(entries[heads[j]]))]

Consolidate(ops) == OrderedOps(ops) \o MergedUpdates(ops) \o MergedRanges(ops)

-------------------------------------------------------------------------------
(* order_numbering_writes: a write is [channelId, before, after]. *)

Moves(w) == w.before # w.after

(* The positions that must be written before p: they leave the number p     *)
(* lands on.                                                                *)
BlockersOf(ws, p) ==
    {q \in Positions(ws) \ {p} :
        /\ ws[p].after # Unset
        /\ Moves(ws[q])
        /\ ws[q].before = ws[p].after}

Least(S) == CHOOSE i \in S : \A k \in S : i <= k

(* Mutant: the write the walk started from is released instead. *)
CycleBreakStart(ws, remaining) == Least(remaining)

(* Walk from the earliest remaining write to a cycle; its earliest member. *)
CycleBreak(ws, remaining) ==
    LET next(p) == Least(BlockersOf(ws, p) \cap remaining)
        walk[k \in 0 .. 2 * Len(ws)] == IF k = 0 THEN Least(remaining) ELSE next(walk[k - 1])
    IN  Least({walk[k] : k \in Len(ws) .. 2 * Len(ws)})

(* The positions of ws in the order to send them: every ready write of a    *)
(* pass in submitted order, else the break of one cycle.                    *)
WriteOrder(ws) ==
    LET order[remaining \in SUBSET Positions(ws)] ==
            LET ready == {p \in remaining : BlockersOf(ws, p) \cap remaining = {}}
                break == CycleBreak(ws, remaining)
            IN  IF remaining = {} THEN <<>>
                ELSE IF ready # {}
                     THEN SetToSortSeq(ready, <) \o order[remaining \ ready]
                     ELSE <<break>> \o order[remaining \ {break}]
    IN  order[Positions(ws)]

WriteOf(numbers, op) ==
    [channelId |-> op.channelId,
     before |-> IF op.channelId \in DOMAIN numbers THEN numbers[op.channelId] ELSE Unset,
     after |-> op.data.num]

(* Mutant: a channel edited twice stays in one run. *)
InRunRepeats(ops, i, j) ==
    \A k \in i .. j : SetsNumber(ops[k]) /\ ops[k].channelId >= 0

(* Every operation from i to j is a numbering edit of a real channel not    *)
(* edited before in the run.                                                *)
InRun(ops, i, j) ==
    \A k \in i .. j :
        /\ SetsNumber(ops[k])
        /\ ops[k].channelId >= 0
        /\ \A h \in i .. k - 1 : ops[h].channelId # ops[k].channelId

RunEnd(ops, i) ==
    CHOOSE j \in i .. Len(ops) : InRun(ops, i, j) /\ (j = Len(ops) \/ ~InRun(ops, i, j + 1))

(* _numbering_execution_order: the submitted indexes in execution order.    *)
(* The operation that ends a run is sent on its own, then a run may start.  *)
ExecutionOrder(numbers, ops) ==
    LET from[i \in 1 .. Len(ops) + 2] ==
            IF i > Len(ops) THEN <<>>
            ELSE IF ~InRun(ops, i, i) THEN <<i>> \o from[i + 1]
            ELSE LET j == RunEnd(ops, i)
                     ws == [k \in 1 .. j - i + 1 |-> WriteOf(numbers, ops[i + k - 1])]
                     run == [k \in Positions(ws) |-> i - 1 + WriteOrder(ws)[k]]
                 IN  run \o (IF j = Len(ops) THEN <<>> ELSE <<j + 1>>) \o from[j + 2]
    IN  from[1]

Resequenced(numbers, ops) ==
    LET order == ExecutionOrder(numbers, ops)
    IN  [k \in Positions(order) |-> ops[order[k]]]
===============================================================================
