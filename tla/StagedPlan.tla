------------------------------ MODULE StagedPlan ------------------------------
(***************************************************************************)
(* A caller stages a bulk-commit request, one operation at a time, against *)
(* a lineup.  Every request the server accepts is a reachable state, and   *)
(* the properties say what consolidation, the numbering preflight and the  *)
(* resequencing of numbering edits do to it.                               *)
(***************************************************************************)
EXTENDS NumberPlan

CONSTANTS
    Lineups,     \* the lineups a request may meet: channel id -> number
    Vocabulary,  \* the operations a caller may stage
    MaxOps       \* bound: operations in one request

VARIABLES lineup, ops

vars == <<lineup, ops>>

Init == lineup \in Lineups /\ ops = <<>>

(* BulkCommitRequest: an operation list that breaks the temp-channel rule   *)
(* is not a request.                                                        *)
Stage(op) ==
    /\ Len(ops) < MaxOps
    /\ DependenciesHold(Append(ops, op))
    /\ ops' = Append(ops, op)
    /\ UNCHANGED lineup

Next == \E op \in Vocabulary : Stage(op)

Spec == Init /\ [][Next]_vars

-------------------------------------------------------------------------------
(* The operations of a plan that write the number of c. *)
WritersOf(plan, c) == {i \in Setters(plan, c) : plan[i].type = "createChannel" => plan[i].num # Unset}

(* Consolidation never changes the number any channel ends up on, whatever  *)
(* mix of edits, ranges, creates and deletes was staged and in which order  *)
(* (_consolidate_operations: "last" is by submitted position).              *)
ConsolidationKeepsNumbers ==
    FinalNumbers(lineup, Consolidate(ops)) = FinalNumbers(lineup, ops)

(* Exactly one emitted operation writes a channel's number, so the order    *)
(* groups of operations are emitted in cannot change the answer.            *)
OneWriterPerNumber ==
    \A c \in DOMAIN FinalState(lineup, ops) :
        Cardinality(WritersOf(Consolidate(ops), c)) <= 1

(* A collision an accepted request makes was shown to somebody: of two      *)
(* channels that newly share a number, one carries a consent naming both    *)
(* that number and the other channel.                                       *)
EveryCollisionWasShown ==
    LET plan == Consolidate(ops)
        final == FinalState(lineup, plan)
        shown(c, d) == final[c].ack.number = final[c].number /\ d \in final[c].ack.occupants
    IN  DuplicateIssues(lineup, plan) = {} =>
            \A c, d \in DOMAIN final :
                (/\ c # d
                 /\ final[c].number = final[d].number
                 /\ final[c].number # Unset
                 /\ Moved(final[c]) \/ Moved(final[d]))
                => shown(c, d) \/ shown(d, c)

(* Resequencing the numbering edits changes no channel's final number.      *)
ResequencingKeepsNumbers ==
    FinalNumbers(lineup, Resequenced(lineup, ops)) = FinalNumbers(lineup, ops)

(* The numbering writes of a whole plan of edits to distinct channels.      *)
RunWrites == [k \in Positions(ops) |-> WriteOf(lineup, ops[k])]

IsOneRun == Len(ops) > 0 /\ InRun(ops, 1, Len(ops))

(* w is written while q, later in the order, has yet to leave its target. *)
WaitsFor(ws, order, k, j) == order[j] \in BlockersOf(ws, order[k])

(* Positions j of the order, from k on, that lead back to k by waiting.     *)
LeadsBack(ws, order, k) ==
    LET later == k .. Len(order)
        reach[n \in 0 .. Len(order)] ==
            IF n = 0
            THEN {j \in later : WaitsFor(ws, order, j, k)}
            ELSE reach[n - 1] \cup
                 {j \in later : \E i \in reach[n - 1] : WaitsFor(ws, order, j, i)}
    IN  reach[Len(order)]

(* A numbering write lands on a number its holder has not left only to      *)
(* break a cycle: the write itself is on a cycle of writes not yet sent     *)
(* (order_numbering_writes).  Any other early landing would put two         *)
(* channels on one number for no reason.                                    *)
OnlyCycleBreaksShare ==
    IsOneRun =>
        LET order == WriteOrder(RunWrites)
        IN  \A k \in Positions(order) :
                (\E j \in k + 1 .. Len(order) : WaitsFor(RunWrites, order, k, j))
                => k \in LeadsBack(RunWrites, order, k)
===============================================================================
