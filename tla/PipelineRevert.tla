----------------------------- MODULE PipelineRevert -----------------------------
(***************************************************************************)
(* One executing run of the channel pipeline and the requests to revert it: *)
(* POST /executions/{id}/rollback and POST /executions/{id}/restore-snapshot.*)
(*                                                                          *)
(* The run loads the channels once, keeps a pre-run snapshot, and writes    *)
(* whole field values computed from its own copy.  What a revert can go by  *)
(* is the snapshot, the execution row (what was created, what was modified  *)
(* and its previous value), and the journal of stream merges, buffered by   *)
(* the run.  Every call to Dispatcharr can be refused, or be executed and   *)
(* answer an error; the process can die at any time.                        *)
(*                                                                          *)
(* A channel is a set of streams (their order is left out), the metadata a  *)
(* snapshot covers ("key": name, group, EPG, tvg-id) and the metadata it    *)
(* does not ("other": logo, number, stream profile).                        *)
(***************************************************************************)
EXTENDS Integers, Sequences, FiniteSets

CONSTANTS
  Channels, Streams,
  AutoCreated,          \* channels Dispatcharr created by itself
  Masters,       \* those of them in the master group of an event_sync rule
  StartStreams,  \* the channels' streams before the run
  Reverts,       \* revert requests
  FlushAt,       \* _journal_flush_threshold
  PageSize,      \* entries of the one journal page a revert reads
  MaxOps,        \* bound: what the run attempts
  MaxEdits,      \* bound: changes from outside
  MaxFaults,     \* bound: calls to Dispatcharr that answer an error
  MaxLapses,     \* bound: failed writes of the snapshot or the journal
  MaxCrashes     \* bound: restarts

ASSUME RevertAssumption ==
  /\ IsFiniteSet(Channels) /\ Masters \subseteq AutoCreated /\ AutoCreated \subseteq Channels
  /\ StartStreams \in [Channels -> SUBSET Streams]
  /\ {FlushAt, PageSize} \subseteq Nat \ {0}
  /\ {MaxOps, MaxEdits, MaxFaults, MaxLapses, MaxCrashes} \subseteq Nat

VARIABLES
  ch,        \* the channels in Dispatcharr
  made,      \* the channel the run created exists
  row,       \* the execution row: status, created, modified
  snap,      \* the pre-run snapshot: whether it was kept, and the channels it covers
  journal,   \* merge_stream entries of this execution
  run,       \* the run: where it is, and its local state
  rev,       \* per revert: where it is, and its local state
  mark,      \* history: which revert made the row rolled_back
  outside,   \* history: streams others added after the run, not while a revert held a list
  ops, edits, faults, lapses, crashes

vars == <<ch, made, row, snap, journal, run, rev, mark, outside, ops, edits, faults, lapses, crashes>>

Fields  == {"streams", "key", "other"}
Start   == [c \in Channels |-> [streams |-> StartStreams[c], key |-> "old", other |-> "old"]]
Working == {"rules", "attach", "prune"}
NoSnap  == [taken |-> FALSE, of |-> <<>>]

Init ==
  /\ ch = Start /\ made = FALSE
  /\ row = [status |-> "none", created |-> FALSE, modified |-> <<>>]
  /\ snap = NoSnap /\ journal = <<>>
  /\ run = [pc |-> "none", known |-> {}, cache |-> Start, made |-> FALSE,
            log |-> <<>>, buffer |-> <<>>, touched |-> [c \in Channels |-> {}]]
  /\ rev = [u \in Reverts |-> [pc |-> "idle", via |-> "none", doomed |-> FALSE, todo |-> <<>>, at |-> 1,
                               holds |-> FALSE, seen |-> {}, failed |-> FALSE, early |-> FALSE]]
  /\ mark = [via |-> "none", early |-> FALSE]
  /\ outside = [c \in Channels |-> {}]
  /\ ops = 0 /\ edits = 0 /\ faults = 0 /\ lapses = 0 /\ crashes = 0

Values  == {"old", "new", "edited"}
Channel == [streams : SUBSET Streams, key : Values, other : Values]
Entry   == [c : Channels, s : Streams, cat : {"auto_creation", "event_sync"}]
\* A modification of the execution row: the field of the channel, and what it was.
Modification ==
  [c : Channels, type : {"channel", "stream"}, f : {"streams"}, prev : SUBSET Streams]
    \cup [c : Channels, type : {"channel"}, f : {"key", "other"}, prev : Values]
Payload ==
  [streams : SUBSET Streams] \cup [streams : SUBSET Streams, key : Values]
    \cup [key : Values] \cup [other : Values]
Item ==
  [op : {"take"}, c : Channels, ss : SUBSET Streams]
    \cup [op : {"put"}, c : Channels, vals : Payload] \cup [op : {"skip"}]
Via == {"none", "snapshot", "surgical", "legacy"}

Rows ==
  [status : {"none", "running", "completed", "failed", "abandoned", "rolled_back"},
   created : BOOLEAN, modified : Seq(Modification)]
Runs ==
  [pc : {"none", "loaded", "saved", "raised", "dead"} \cup Working,
   known : SUBSET Channels, cache : [Channels -> Channel], made : BOOLEAN,
   log : Seq(Modification), buffer : Seq(Entry), touched : [Channels -> SUBSET Streams]]
RevertStates ==
  [pc : {"idle", "work", "done"}, via : Via, doomed : BOOLEAN, todo : Seq(Item), at : Nat \ {0},
   holds : BOOLEAN, seen : SUBSET Streams, failed : BOOLEAN, early : BOOLEAN]

TypeOK ==
  /\ ch \in [Channels -> Channel] /\ made \in BOOLEAN /\ row \in Rows
  /\ snap.taken \in BOOLEAN /\ DOMAIN snap.of \subseteq Channels
  /\ \A c \in DOMAIN snap.of : snap.of[c] \in Channel
  /\ journal \in Seq(Entry) /\ run \in Runs /\ rev \in [Reverts -> RevertStates]
  /\ mark \in [via : Via, early : BOOLEAN]
  /\ outside \in [Channels -> SUBSET Streams]
  /\ ops \in 0 .. MaxOps /\ edits \in 0 .. MaxEdits
  /\ faults \in 0 .. MaxFaults /\ lapses \in 0 .. MaxLapses /\ crashes \in 0 .. MaxCrashes

-----------------------------------------------------------------------------
(* Calls that can fail *)

\* A call succeeds, is refused without effect, or takes effect and answers an error.
Answers == {"ok"} \cup (IF faults < MaxFaults THEN {"refused", "unanswered"} ELSE {})
\* Whether a local write (journal, snapshot) works.
Works == {TRUE} \cup (IF lapses < MaxLapses THEN {FALSE} ELSE {})
Count(n, bad) == n + (IF bad THEN 1 ELSE 0)
CallCost(a) == faults' = Count(faults, a # "ok")
WriteCost(ok) == lapses' = Count(lapses, ~ok)

\* The channels with the fields in vals written to c; what is not named stays.
With(channels, c, vals) ==
  [channels EXCEPT ![c] = [f \in Fields |-> IF f \in DOMAIN vals THEN vals[f] ELSE channels[c][f]]]
Only(f, v) == [g \in {f} |-> v]
Patch(c, vals, a) == ch' = IF a = "refused" THEN ch ELSE With(ch, c, vals)

-----------------------------------------------------------------------------
(* The run *)

\* The row exists from the request on; a failed load leaves the run with no channels.
LoadExistingData(a) ==
  /\ run.pc = "none"
  /\ row' = [row EXCEPT !.status = "running"]
  /\ run' = [run EXCEPT !.pc = "loaded", !.cache = ch, !.known = IF a = "ok" THEN Channels ELSE {}]
  /\ CallCost(a) /\ UNCHANGED lapses
  /\ UNCHANGED <<ch, made, snap, journal, rev, mark, outside, ops, edits, crashes>>

\* Manual channels and event_sync masters; a failed capture is logged and the run proceeds.
Captured == run.known \cap ((Channels \ AutoCreated) \cup Masters)

CaptureSnapshot(ok) ==
  /\ run.pc = "loaded"
  /\ snap' = IF ok THEN [taken |-> TRUE, of |-> [c \in Captured |-> run.cache[c]]] ELSE NoSnap
  /\ run' = [run EXCEPT !.pc = "rules"]
  /\ WriteCost(ok) /\ UNCHANGED faults
  /\ UNCHANGED <<ch, made, row, journal, rev, mark, outside, ops, edits, crashes>>

\* What the run keeps of a write it saw succeed: its copy, and what to undo.
Changed(c, f, v) == With(run.cache, c, Only(f, v))
Logged(c, f, type) == Append(run.log, [c |-> c, type |-> type, f |-> f, prev |-> run.cache[c][f]])
Touch(c, s) == [run.touched EXCEPT ![c] = @ \cup {s}]

\* _journal_merge buffers the entry, and flushes a full buffer; a flush that
\* fails leaves the entries in the buffer.
Buffered(c, s, cat) == Append(run.buffer, [c |-> c, s |-> s, cat |-> cat])
Flushes(flushed) == flushed /\ Len(run.buffer) + 1 >= FlushAt

\* _add_stream_to_channel: the whole list is written from the run's copy.
AddStream(c, s, cat, at, touched, a, flushed) ==
  LET new == run.cache[c].streams \cup {s}
      b   == Buffered(c, s, cat)
  IN
  /\ ops < MaxOps /\ s \notin run.cache[c].streams
  /\ Patch(c, Only("streams", new), a)
  /\ \/ /\ a = "ok"
        /\ run' = [run EXCEPT !.pc = at, !.touched = touched,
                              !.cache = Changed(c, "streams", new), !.log = Logged(c, "streams", "channel"),
                              !.buffer = IF Flushes(flushed) THEN <<>> ELSE b]
        /\ journal' = IF Flushes(flushed) THEN journal \o b ELSE journal
     \/ /\ a # "ok"
        /\ run' = [run EXCEPT !.pc = at, !.touched = touched]
        /\ UNCHANGED journal
  /\ ops' = ops + 1 /\ CallCost(a) /\ WriteCost(flushed)
  /\ UNCHANGED <<made, row, snap, rev, mark, outside, edits, crashes>>

MergeStream(c, s, a, flushed) ==
  /\ run.pc = "rules" /\ c \in run.known \ Masters
  /\ AddStream(c, s, "auto_creation", "rules", Touch(c, s), a, flushed)

\* A matched stream that is in the channel already, or whose provider has
\* reached its limit there, counts for the pruning only.
MergeSkipped(c, s) ==
  /\ run.pc = "rules" /\ c \in run.known \ Masters /\ ops < MaxOps
  /\ run' = [run EXCEPT !.touched = Touch(c, s)]
  /\ ops' = ops + 1
  /\ UNCHANGED <<ch, made, row, snap, journal, rev, mark, outside, edits, faults, lapses, crashes>>

\* The attach phase of event_sync rules comes after the standard rules.
Attach(c, s, a, flushed) ==
  /\ run.pc \in {"rules", "attach"} /\ c \in run.known \cap Masters
  /\ AddStream(c, s, "event_sync", "attach", run.touched, a, flushed)

\* remove_from_channel: recorded as a modification of the stream, not journaled.
RemoveFromChannel(c, s, a) ==
  LET new == run.cache[c].streams \ {s} IN
  /\ run.pc = "rules" /\ c \in run.known \ Masters /\ ops < MaxOps
  /\ s \in run.cache[c].streams
  /\ Patch(c, Only("streams", new), a)
  /\ run' = IF a = "ok" THEN [run EXCEPT !.cache = Changed(c, "streams", new),
                                         !.log = Logged(c, "streams", "stream")] ELSE run
  /\ ops' = ops + 1 /\ CallCost(a) /\ UNCHANGED lapses
  /\ UNCHANGED <<made, row, snap, journal, rev, mark, outside, edits, crashes>>

\* update_channel, assign_tvg_id, assign_epg ("key"); assign_logo,
\* set_channel_number, set_stream_profile ("other").
UpdateChannel(c, f, a) ==
  /\ run.pc = "rules" /\ c \in run.known \ Masters /\ ops < MaxOps
  /\ run.cache[c][f] = "old"
  /\ Patch(c, Only(f, "new"), a)
  /\ run' = IF a = "ok" THEN [run EXCEPT !.cache = Changed(c, f, "new"),
                                         !.log = Logged(c, f, "channel")] ELSE run
  /\ ops' = ops + 1 /\ CallCost(a) /\ UNCHANGED lapses
  /\ UNCHANGED <<made, row, snap, journal, rev, mark, outside, edits, crashes>>

CreateChannel(a) ==
  /\ run.pc = "rules" /\ ~made /\ ~run.made /\ ops < MaxOps
  /\ made' = (a # "refused")
  /\ run' = [run EXCEPT !.made = (a = "ok")]
  /\ ops' = ops + 1 /\ CallCost(a) /\ UNCHANGED lapses
  /\ UNCHANGED <<ch, row, snap, journal, rev, mark, outside, edits, crashes>>

\* Pass 2.75, for a channel whose merge action says remove_non_matching: only
\* what was matched stays; neither recorded nor journaled.
PruneMergeStreams(c, a) ==
  LET new == run.cache[c].streams \cap run.touched[c] IN
  /\ run.pc \in Working /\ run.touched[c] # {} /\ new # run.cache[c].streams
  /\ Patch(c, Only("streams", new), a)
  /\ run' = [run EXCEPT !.pc = "prune", !.cache = IF a = "ok" THEN Changed(c, "streams", new) ELSE @]
  /\ CallCost(a) /\ UNCHANGED lapses
  /\ UNCHANGED <<made, row, snap, journal, rev, mark, outside, ops, edits, crashes>>

\* No last flush.
FlushOmitted(flushed, pc) ==
  /\ journal' = journal
  /\ run' = [run EXCEPT !.pc = pc]

\* The finally clause of _process_streams.
FinalFlush(flushed, pc) ==
  /\ journal' = IF flushed THEN journal \o run.buffer ELSE journal
  /\ run' = [run EXCEPT !.pc = pc, !.buffer = IF flushed THEN <<>> ELSE @]

\* A save that records the modifications but not what was created.
SaveWithoutCreated(flushed) ==
  /\ run.pc \in Working
  /\ FinalFlush(flushed, "saved")
  /\ row' = [status |-> "completed", created |-> FALSE, modified |-> run.log]
  /\ WriteCost(flushed) /\ UNCHANGED faults
  /\ UNCHANGED <<ch, made, snap, rev, mark, outside, ops, edits, crashes>>

\* session.merge of the run's own detached row: every column is overwritten.
SaveExecution(flushed) ==
  /\ run.pc \in Working
  /\ FinalFlush(flushed, "saved")
  /\ row' = [status |-> "completed", created |-> run.made, modified |-> run.log]
  /\ WriteCost(flushed) /\ UNCHANGED faults
  /\ UNCHANGED <<ch, made, snap, rev, mark, outside, ops, edits, crashes>>

\* A later pass raises: the journal is flushed, _mark_execution_failed changes
\* only a running row, and nothing of what was done is recorded.
RunRaises(flushed) ==
  /\ run.pc \in Working
  /\ FinalFlush(flushed, "raised")
  /\ row' = [row EXCEPT !.status = IF @ = "running" THEN "failed" ELSE @]
  /\ WriteCost(flushed) /\ UNCHANGED faults
  /\ UNCHANGED <<ch, made, snap, rev, mark, outside, ops, edits, crashes>>

\* The process dies; at the next start a running row becomes abandoned.
CrashAndRestart ==
  /\ crashes < MaxCrashes /\ crashes' = crashes + 1
  /\ run' = IF run.pc \in Working \cup {"loaded"} THEN [run EXCEPT !.pc = "dead"] ELSE run
  /\ row' = [row EXCEPT !.status = IF @ = "running" THEN "abandoned" ELSE @]
  /\ rev' = [u \in Reverts |-> IF rev[u].pc = "work" THEN [rev[u] EXCEPT !.pc = "done"] ELSE rev[u]]
  /\ UNCHANGED <<ch, made, snap, journal, mark, outside, ops, edits, faults, lapses>>

-----------------------------------------------------------------------------
(* Reverting *)

RunAlive == run.pc \in Working \cup {"loaded"}

\* The newest page of the journal.
Page == IF Len(journal) <= PageSize THEN journal
        ELSE SubSeq(journal, Len(journal) - PageSize + 1, Len(journal))

\* _event_sync_journal_covers_run
JournalCovers(created, modified) ==
  /\ ~created /\ modified # <<>>
  /\ \A i \in DOMAIN modified : modified[i].type = "channel" /\ modified[i].f = "streams"
  /\ Len(journal) <= PageSize
  /\ \A i \in DOMAIN journal : journal[i].cat = "event_sync"
  /\ Len(journal) = Len(modified)
  /\ \A c \in Channels : Cardinality({i \in DOMAIN journal : journal[i].c = c})
                           = Cardinality({i \in DOMAIN modified : modified[i].c = c})

\* The work of a revert, one channel or modification after the other: take
\* streams out of a channel's current list; put back values; pass over.
Take(c, ss)  == [op |-> "take", c |-> c, ss |-> ss]
Put(c, vals) == [op |-> "put", c |-> c, vals |-> vals]
Skip         == [op |-> "skip"]

\* The orders in which a loop over a set of channels can run.
Orders(S) == {q \in [1 .. Cardinality(S) -> S] : \A c \in S : \E i \in DOMAIN q : q[i] = c}

\* _journal_driven_unmerge: per channel, what the entries of the page added.
Merged   == {Page[i].c : i \in DOMAIN Page}
Added(c) == {Page[i].s : i \in {j \in DOMAIN Page : Page[j].c = c}}
Unmerges(q) == [i \in DOMAIN q |-> Take(q[i], Added(q[i]))]

\* Putting back the modifications first to last.
ModifiedForward == row.modified

\* Putting back the modifications last to first: the oldest value is written last.
ModifiedBackward == [i \in DOMAIN row.modified |-> row.modified[Len(row.modified) + 1 - i]]

\* _rollback_modified_entity does nothing for a modification of a stream.
PutBackOf(m) == IF m.type = "channel" THEN Put(m.c, Only(m.f, m.prev)) ELSE Skip
Restores == [i \in DOMAIN ModifiedBackward |-> PutBackOf(ModifiedBackward[i])]

\* A payload that restores the metadata of every channel.
FullPayload(c) == [f \in {"streams", "key"} |-> snap.of[c][f]]

\* The metadata of an event_sync master belongs to Dispatcharr.
SnapshotPayload(c) ==
  [f \in (IF c \in Masters THEN {"streams"} ELSE {"streams", "key"}) |-> snap.of[c][f]]

SnapshotWrites(q) == [i \in DOMAIN q |-> Put(q[i], SnapshotPayload(q[i]))]

\* A revert is refused when the row says rolled_back; what the run created is
\* deleted first.
Revert(u, via, todo) ==
  /\ rev[u].pc = "idle"
  /\ row.status \notin {"none", "rolled_back"}
  /\ rev' = [rev EXCEPT ![u] = [@ EXCEPT !.pc = "work", !.via = via, !.doomed = row.created,
                                         !.todo = todo, !.early = RunAlive]]
  /\ UNCHANGED <<ch, made, row, snap, journal, run, mark, outside, ops, edits, faults, lapses, crashes>>

\* rollback_execution, with confirm when there is a snapshot
RollbackSurgical(u, q) ==
  /\ snap.taken /\ JournalCovers(row.created, row.modified)
  /\ Revert(u, "surgical", Unmerges(q))

RollbackBySnapshot(u, q) ==
  /\ snap.taken /\ ~JournalCovers(row.created, row.modified)
  /\ Revert(u, "snapshot", SnapshotWrites(q))

\* Refused when nothing is recorded.
RollbackLegacy(u, q) ==
  /\ ~snap.taken /\ (row.created \/ row.modified # <<>>)
  /\ Revert(u, "legacy", IF journal # <<>> THEN Unmerges(q) ELSE Restores)

\* POST /restore-snapshot
RestoreSnapshot(u, q) ==
  /\ snap.taken
  /\ Revert(u, "snapshot", SnapshotWrites(q))

Current(u) == rev[u].todo[rev[u].at]
Busy(u, op) ==
  rev[u].pc = "work" /\ ~rev[u].doomed /\ rev[u].at <= Len(rev[u].todo) /\ Current(u).op = op

NextItem(u, failed) ==
  rev' = [rev EXCEPT ![u] = [@ EXCEPT !.at = rev[u].at + 1, !.holds = FALSE, !.seen = {},
                                      !.failed = rev[u].failed \/ failed]]

\* _rollback_created_entity swallows every error.
DeleteCreated(u, a) ==
  /\ rev[u].pc = "work" /\ rev[u].doomed
  /\ made' = (made /\ a = "refused")
  /\ rev' = [rev EXCEPT ![u] = [@ EXCEPT !.doomed = FALSE]]
  /\ CallCost(a) /\ UNCHANGED lapses
  /\ UNCHANGED <<ch, row, snap, journal, run, mark, outside, ops, edits, crashes>>

\* The unmerge reads the current list; a read that fails skips the channel.
ReadCurrent(u, a) ==
  LET t == Current(u) IN
  /\ Busy(u, "take") /\ ~rev[u].holds
  /\ \/ /\ a = "ok" /\ ch[t.c].streams \cap t.ss # {}
        /\ rev' = [rev EXCEPT ![u] = [@ EXCEPT !.holds = TRUE, !.seen = ch[t.c].streams]]
     \/ (a = "ok" => ch[t.c].streams \cap t.ss = {}) /\ NextItem(u, FALSE)
  /\ CallCost(a) /\ UNCHANGED lapses
  /\ UNCHANGED <<ch, made, row, snap, journal, run, mark, outside, ops, edits, crashes>>

\* An unmerge that writes the list from before the run.
WriteStart(u, a) ==
  LET t == Current(u) IN
  /\ Busy(u, "take") /\ rev[u].holds
  /\ Patch(t.c, Only("streams", StartStreams[t.c]), a)
  /\ NextItem(u, FALSE) /\ CallCost(a) /\ UNCHANGED lapses
  /\ UNCHANGED <<made, row, snap, journal, run, mark, outside, ops, edits, crashes>>

\* ... and writes what it read less what the run added; errors are swallowed.
WriteRemaining(u, a) ==
  LET t == Current(u) IN
  /\ Busy(u, "take") /\ rev[u].holds
  /\ Patch(t.c, Only("streams", rev[u].seen \ t.ss), a)
  /\ NextItem(u, FALSE) /\ CallCost(a) /\ UNCHANGED lapses
  /\ UNCHANGED <<made, row, snap, journal, run, mark, outside, ops, edits, crashes>>

\* A restore that counts a failed write as done.
PutSwallowing(u, a) ==
  LET t == Current(u) IN
  /\ Busy(u, "put")
  /\ Patch(t.c, t.vals, a)
  /\ NextItem(u, FALSE) /\ CallCost(a) /\ UNCHANGED lapses
  /\ UNCHANGED <<made, row, snap, journal, run, mark, outside, ops, edits, crashes>>

\* restore_snapshot collects a failed write; _rollback_modified_entity swallows it.
PutBack(u, a) ==
  LET t == Current(u) IN
  /\ Busy(u, "put")
  /\ Patch(t.c, t.vals, a)
  /\ NextItem(u, rev[u].via = "snapshot" /\ a # "ok") /\ CallCost(a) /\ UNCHANGED lapses
  /\ UNCHANGED <<made, row, snap, journal, run, mark, outside, ops, edits, crashes>>

PassOver(u) ==
  /\ Busy(u, "skip")
  /\ NextItem(u, FALSE)
  /\ UNCHANGED <<ch, made, row, snap, journal, run, mark, outside, ops, edits, faults, lapses, crashes>>

\* The row is rolled_back unless the snapshot restore collected a failure.
MarkRolledBack(u) ==
  /\ rev[u].pc = "work" /\ ~rev[u].doomed /\ rev[u].at > Len(rev[u].todo)
  /\ \/ rev[u].failed /\ UNCHANGED <<row, mark>>
     \/ /\ ~rev[u].failed
        /\ row' = [row EXCEPT !.status = "rolled_back"]
        /\ mark' = [via |-> rev[u].via, early |-> rev[u].early]
  /\ rev' = [rev EXCEPT ![u] = [@ EXCEPT !.pc = "done"]]
  /\ UNCHANGED <<ch, made, snap, journal, run, outside, ops, edits, faults, lapses, crashes>>

-----------------------------------------------------------------------------
(* Others *)

\* Someone adds a stream to a channel.
OutsideAdds(c, s) ==
  /\ edits < MaxEdits /\ s \notin ch[c].streams
  /\ ch' = With(ch, c, Only("streams", ch[c].streams \cup {s}))
  /\ outside' = IF /\ ~RunAlive /\ run.pc # "none"
                   /\ \A i \in DOMAIN journal : journal[i].c = c => journal[i].s # s
                   /\ \A u \in Reverts : rev[u].pc = "work" => ~rev[u].holds
                THEN [outside EXCEPT ![c] = @ \cup {s}] ELSE outside
  /\ edits' = edits + 1
  /\ UNCHANGED <<made, row, snap, journal, run, rev, mark, ops, faults, lapses, crashes>>

\* Dispatcharr renames an event channel when the match-up is known.
MasterRenamed(c) ==
  /\ edits < MaxEdits /\ c \in Masters
  /\ ch' = With(ch, c, Only("key", "edited"))
  /\ edits' = edits + 1
  /\ UNCHANGED <<made, row, snap, journal, run, rev, mark, outside, ops, faults, lapses, crashes>>

RunStep ==
  \/ \E a \in {"ok", "refused"} \cap Answers : LoadExistingData(a)
  \/ \E ok \in Works : CaptureSnapshot(ok)
  \/ \E c \in Channels, s \in Streams, a \in Answers :
       \/ RemoveFromChannel(c, s, a)
       \/ \E flushed \in (IF a = "ok" THEN Works ELSE {TRUE}) :
            MergeStream(c, s, a, flushed) \/ Attach(c, s, a, flushed)
  \/ \E c \in Channels, s \in Streams : MergeSkipped(c, s)
  \/ \E c \in Channels, f \in Fields \ {"streams"}, a \in Answers : UpdateChannel(c, f, a)
  \/ \E c \in Channels, a \in Answers : PruneMergeStreams(c, a)
  \/ \E a \in Answers : CreateChannel(a)
  \/ \E flushed \in Works : SaveExecution(flushed) \/ RunRaises(flushed)

RevertStep(u) ==
  \/ \E q \in Orders(Merged) : RollbackSurgical(u, q) \/ RollbackLegacy(u, q)
  \/ \E q \in Orders(DOMAIN snap.of) : RollbackBySnapshot(u, q) \/ RestoreSnapshot(u, q)
  \/ \E a \in Answers : DeleteCreated(u, a) \/ WriteRemaining(u, a) \/ PutBack(u, a)
  \/ \E a \in {"ok", "refused"} \cap Answers : ReadCurrent(u, a)
  \/ PassOver(u) \/ MarkRolledBack(u)

Next ==
  \/ RunStep
  \/ CrashAndRestart
  \/ \E u \in Reverts : RevertStep(u)
  \/ \E c \in Channels, s \in Streams : OutsideAdds(c, s)
  \/ \E c \in Channels : MasterRenamed(c)

Spec == Init /\ [][Next]_vars

-----------------------------------------------------------------------------
(* Properties *)

Begun(u) == rev[u].pc # "idle"
Worked(u) == Begun(u) => ~rev[u].doomed /\ rev[u].at > Len(rev[u].todo)
Settled == \A u \in Reverts : rev[u].pc # "work"
Reverted(via) == row.status = "rolled_back" /\ mark.via = via /\ ~mark.early

\* A run that a snapshot restore declares rolled_back has every channel of the
\* snapshot back as it was, whichever calls failed on the way, whether the run
\* completed, raised or died with the process: a partial restore is never
\* terminal (restore_snapshot, step 7).  For reverts begun after the run ended,
\* no changes from outside, and no surgical unmerge beside it, which may write
\* a list it read before.
SnapshotRevertIsExact ==
  /\ Reverted("snapshot") /\ Settled /\ edits = 0
  /\ \A u \in Reverts : rev[u].via # "surgical"
  => \A c \in DOMAIN snap.of : ch[c].streams = StartStreams[c] /\ ch[c].key = "old"

\* When the run was saved and no call failed, a revert by any of the three
\* ways leaves no channel the run created, and no stream it merged into a
\* channel the revert covers.  Without a snapshot that takes a journal that
\* was lost as a whole, or no write of which failed for good, and that fits in a
\* page, and no other rollback that a restart cut off half way.
CreatedAndMergedGone ==
  row.status = "rolled_back" /\ ~mark.early /\ edits = 0 /\ faults = 0 /\ run.pc = "saved" =>
    /\ ~made
    /\ snap.taken => \A c \in DOMAIN snap.of : ch[c].streams \subseteq StartStreams[c]
    /\ /\ ~snap.taken /\ \A u \in Reverts : Worked(u)
       /\ journal # <<>> => (run.buffer = <<>> \/ lapses <= 1) /\ Len(journal) <= PageSize
       => \A c \in Channels : ch[c].streams \subseteq StartStreams[c]

\* A legacy rollback of a run whose journal was lost puts every recorded
\* modification back to what it was before the run, however often the field
\* was modified (the reversed loop of rollback_execution); except for a channel
\* the run also removed a stream from, which it cannot re-add.
ModificationsPutBack ==
  /\ Reverted("legacy") /\ edits = 0 /\ faults = 0 /\ journal = <<>>
  /\ \A u \in Reverts : Worked(u)
  => \A i \in DOMAIN row.modified :
       LET m == row.modified[i] IN
       \/ \E j \in DOMAIN row.modified : row.modified[j].c = m.c /\ row.modified[j].type = "stream"
       \/ ch[m.c][m.f] = Start[m.c][m.f]

\* The variables have their types, and a revert that says rolled_back is complete:
\* the snapshot restored exactly, nothing created or merged left, every recorded
\* modification put back.
RevertIsComplete == TypeOK /\ SnapshotRevertIsExact /\ CreatedAndMergedGone /\ ModificationsPutBack

\* An unmerge by the journal, surgical or legacy, keeps what others added to a
\* channel after the run, except between its read and its write.
EditsOutsideWindowSurvive ==
  (\A u \in Reverts : rev[u].via # "snapshot" /\ (rev[u].via = "legacy" => journal # <<>>)) =>
    \A c \in Channels : outside[c] \subseteq ch[c].streams

\* Neither a run nor a revert writes the metadata of an event_sync master.
MasterMetadataKept ==
  [][\A c \in Masters : ch'[c].key # ch[c].key => edits' # edits]_vars
=============================================================================
