--------------------------- MODULE PendingMerges ---------------------------
(***************************************************************************)
(* The pending-merge queue (routers/channel_merges.py with the enqueue     *)
(* primitive of services/m3u_dedup_hook.py): a stream whose name resembles *)
(* an existing channel is queued, and an operator accepts the candidate    *)
(* (the stream is added to the channel in Dispatcharr) or dismisses it.    *)
(*                                                                         *)
(* Handlers run on one event loop, so a step is what runs between two      *)
(* awaits.  Every session of the process works on ONE SQLite connection    *)
(* (database.py, poolclass=StaticPool): `db' is what that connection reads,*)
(* its uncommitted writes included, and `disk' is what is committed.  A    *)
(* commit of any session therefore commits what another one has flushed,   *)
(* and a session that ends without a commit (a rollback, a close, the      *)
(* reset when it is collected) rolls all of it back.                       *)
(*                                                                         *)
(* A stream is known by its name; a channel holds a set of streams.        *)
(***************************************************************************)
EXTENDS Naturals, Sequences, FiniteSets

CONSTANTS
    Names,      \* stream names
    Channels,   \* Dispatcharr channel ids that may be candidates
    Requests,   \* requests that may be in flight together
    MaxRows,    \* bound: rows of pending_merges
    MaxAudit,   \* bound: rows of pending_merge_journal
    MaxFaults   \* bound: failed calls, cancellations and restarts

ASSUME PendingMergesAssumption ==
    /\ MaxRows \in Nat \ {0} /\ MaxAudit \in Nat \ {0} /\ MaxFaults \in Nat

VARIABLES
    db,       \* [rows, audit] as the shared connection reads them
    disk,     \* [rows, audit] as committed
    req,      \* the requests in flight
    catalog,  \* how many streams Dispatcharr lists under each name: 0, 1, 2 = several
    live,     \* the channels that exist in Dispatcharr
    on,       \* the streams each channel holds
    applied,  \* history: rows whose accept saw its stream on the channel
    overlap,  \* history: a request began while another one was in flight
    faults    \* failures used up

vars == <<db, disk, req, catalog, live, on, applied, overlap, faults>>
upstream == <<catalog, live, on>>

Reasons == {"", "failed", "truncated", "several", "none"}
Row == [name : Names, chan : Channels,
        status : {"pending", "merged", "dismissed"}, reason : Reasons]
Audit == [row : 1..MaxRows, act : {"auto_queued", "merge_confirmed", "merge_dismissed"}]
StoreOK(s) == /\ s.rows \in Seq(Row) /\ Len(s.rows) <= MaxRows
              /\ s.audit \in Seq(Audit) /\ Len(s.audit) <= MaxAudit

\* Mutant: a request that ended is never released.
IdleUnset(answer) == [pc |-> "lost", says |-> answer]

\* A request waits for Dispatcharr at pc "channel", "lookup", "patch" or
\* "candidates"; `says' is its answer once it is "idle" again.
Idle(answer) == [pc |-> "idle", says |-> answer]
NoAnswer == "none"
Accepting == {"channel", "lookup", "patch"}

Init ==
    /\ db = [rows |-> << >>, audit |-> << >>]
    /\ disk = db
    /\ req = [r \in Requests |-> Idle(NoAnswer)]
    /\ catalog = [n \in Names |-> 1]
    /\ live = Channels
    /\ on = [c \in Channels |-> {}]
    /\ applied = {}
    /\ overlap = FALSE
    /\ faults = 0

Fault == faults < MaxFaults /\ faults' = faults + 1
NoFault == UNCHANGED faults

(***************************************************************************)
(* The shared connection.                                                  *)
(***************************************************************************)
Commit(store) == db' = store /\ disk' = store
Rollback == db' = disk /\ UNCHANGED disk
\* db.flush(): written on the shared connection, not committed.
Flush(store) == db' = store /\ UNCHANGED disk

\* The ORM writes a column only when the value assigned differs from the one
\* this session loaded.
Assign(loaded, current, new) == IF new = loaded THEN current ELSE new

Log(store, m, act) ==
    [store EXCEPT !.audit = Append(@, [row |-> m, act |-> act])]
Room == Len(db.audit) < MaxAudit

\* A request begins, beside others or not.
InFlight == {q \in Requests : req[q].pc # "idle"}
Begins(r) == overlap' = (overlap \/ InFlight \ {r} # {})

Answer(r, status) == req' = [req EXCEPT ![r] = Idle(status)]

(***************************************************************************)
(* POST /api/channel-merges and the M3U hook.  The candidate is chosen     *)
(* from a channel list fetched (or cached by the pipeline run) earlier.    *)
(***************************************************************************)
FetchCandidates(r, n, c) ==
    /\ req[r].pc = "idle"
    /\ c \in live
    /\ req' = [req EXCEPT ![r] = [pc |-> "candidates", name |-> n, chan |-> c]]
    /\ Begins(r)
    /\ UNCHANGED <<db, disk, applied>> /\ UNCHANGED upstream /\ NoFault

\* Mutant: the index covers the stream name and candidate of flagged rows no more.
QueuedUnflagged(store, n, c) ==
    {i \in DOMAIN store.rows :
        /\ store.rows[i].name = n /\ store.rows[i].chan = c
        /\ store.rows[i].status = "pending" /\ store.rows[i].reason = ""}

\* uq_pending_merges_active: unique (stream_name, candidate) among pending rows.
Queued(store, n, c) ==
    {i \in DOMAIN store.rows :
        store.rows[i].name = n /\ store.rows[i].chan = c /\ store.rows[i].status = "pending"}

enqueue_pending_merge(r) ==
    LET n == req[r].name  c == req[r].chan
        row == [name |-> n, chan |-> c, status |-> "pending", reason |-> ""]
    IN /\ req[r].pc = "candidates"
       /\ \/ /\ Queued(db, n, c) # {}        \* IntegrityError: rollback, the existing row
             /\ Rollback /\ NoFault
          \/ /\ Queued(db, n, c) = {}
             /\ Len(db.rows) < MaxRows /\ Room
             /\ Commit(Log([db EXCEPT !.rows = Append(@, row)],
                           Len(db.rows) + 1, "auto_queued"))
             /\ NoFault
          \/ Rollback /\ Fault               \* the insert or the commit raised
       /\ Answer(r, "queued")
       /\ UNCHANGED <<applied, overlap>> /\ UNCHANGED upstream

(***************************************************************************)
(* POST /api/channel-merges/{id}/accept.                                   *)
(***************************************************************************)
\* Mutant: a dismissed row is not refused.
AcceptsDismissed(row) == row.status # "merged"

Acceptable(row) == row.status = "pending"

accept_pending_merge(r, m) ==
    /\ req[r].pc = "idle"
    /\ m \in DOMAIN db.rows
    /\ IF Acceptable(db.rows[m])
       THEN /\ req' = [req EXCEPT ![r] = [pc |-> "channel", row |-> m,
                                          reason |-> db.rows[m].reason]]
            /\ UNCHANGED <<db, disk>>
       ELSE \* replay of the prior outcome, or 409: nothing is written
            /\ Rollback
            /\ Answer(r, IF db.rows[m].status = "merged" THEN "replay" ELSE "conflict")
    /\ Begins(r)
    /\ UNCHANGED applied /\ UNCHANGED upstream /\ NoFault

\* client.get_channel: its stream list is kept for the write further down.
get_channel(r) ==
    /\ req[r].pc = "channel"
    /\ LET m == req[r].row  c == db.rows[m].chan IN
       \/ /\ c \in live
          /\ req' = [req EXCEPT ![r] = [pc |-> "lookup", row |-> m,
                                        reason |-> req[r].reason, streams |-> on[c]]]
          /\ UNCHANGED <<db, disk>> /\ NoFault
       \/ /\ c \notin live                   \* 404: the row stays pending
          /\ Rollback /\ Answer(r, "gone") /\ NoFault
       \/ /\ Rollback /\ Answer(r, "error") /\ Fault
    /\ UNCHANGED <<applied, overlap>> /\ UNCHANGED upstream

\* _unapplied_reason of what the search established; "" is a conclusive match.
Lookup(search, n) ==
    IF search # "complete" THEN search
    ELSE CASE catalog[n] = 0 -> "none"
           [] catalog[n] = 2 -> "several"
           [] OTHER -> ""

\* Mutant: the reason of an earlier attempt is not cleared.
RowKeepsReason(row, loaded, reason) ==
    [row EXCEPT !.status = IF reason = "" THEN "merged" ELSE @,
                !.reason = IF reason = "" THEN @ ELSE reason]

\* Mutant: a merge that was not applied leaves the queue too.
RowAlwaysMerged(row, loaded, reason) ==
    [row EXCEPT !.status = "merged", !.reason = ""]

\* The status flip and the reason, as this session writes them ...
StagedRow(row, loaded, reason) ==
    [row EXCEPT !.status = IF reason = "" THEN "merged" ELSE @,
                !.reason = Assign(loaded, @, reason)]

\* ... with the audit row.
Stage(m, loaded, reason) ==
    Log([db EXCEPT !.rows[m] = StagedRow(@, loaded, reason)], m, "merge_confirmed")

\* _resolve_streams_by_name has answered.
resolve_and_stage(r, search) ==
    LET m == req[r].row
        n == db.rows[m].name
        reason == Lookup(search, n)
        staged == Stage(m, req[r].reason, reason)
    IN /\ req[r].pc = "lookup"
       /\ \/ /\ Room /\ reason # ""          \* not applied: recorded, still queued
             /\ Commit(staged) /\ Answer(r, "pending")
             /\ UNCHANGED applied /\ NoFault
          \/ /\ Room /\ reason = "" /\ n \in req[r].streams
             /\ Commit(staged)               \* already on the channel: no PATCH
             /\ Answer(r, "merged")
             /\ applied' = applied \cup {m} /\ NoFault
          \/ /\ Room /\ reason = "" /\ n \notin req[r].streams
             /\ Flush(staged)                \* audit flushed before the PATCH
             /\ req' = [req EXCEPT ![r] = [pc |-> "patch", row |-> m,
                            streams |-> req[r].streams, entry |-> Len(staged.audit)]]
             /\ UNCHANGED applied /\ NoFault
          \/ /\ Rollback /\ Answer(r, "error") \* the flush or the commit raised
             /\ UNCHANGED applied /\ Fault
       /\ UNCHANGED overlap /\ UNCHANGED upstream

\* Mutant: only the new stream is sent.
PatchedAlone(r, n) == {n}

\* update_channel writes the whole list: the one read earlier and this stream.
Patched(r, n) == req[r].streams \cup {n}

Land(r) ==
    LET c == db.rows[req[r].row].chan IN
    on' = [on EXCEPT ![c] = Patched(r, db.rows[req[r].row].name)]

\* What follows a PATCH that returned: the commit, and the answer, which
\* re-reads the audit row by its id (ObjectDeletedError when it is gone).
after_patch(r) ==
    LET m == req[r].row IN
    /\ req[r].pc = "patch"
    /\ db.rows[m].chan \in live
    /\ Land(r)
    /\ applied' = applied \cup {m}
    /\ \/ /\ Commit(db)
          /\ Answer(r, IF req[r].entry <= Len(db.audit) THEN "merged" ELSE "error")
          /\ NoFault
       \/ Rollback /\ Answer(r, "error") /\ Fault
    /\ UNCHANGED <<catalog, live, overlap>>

\* The PATCH raised: the staged transition is rolled back.  A timeout may hide
\* a write that landed.
patch_failed(r) ==
    LET m == req[r].row IN
    /\ req[r].pc = "patch"
    /\ Rollback /\ Answer(r, "error")
    /\ \/ db.rows[m].chan \notin live /\ UNCHANGED on /\ NoFault
       \/ db.rows[m].chan \in live /\ (UNCHANGED on \/ Land(r)) /\ Fault
    /\ UNCHANGED <<catalog, live, applied, overlap>>

\* The client went away: CancelledError passes every `except Exception', and
\* the session is collected.
cancelled(r) ==
    /\ req[r].pc \in Accepting
    /\ Rollback /\ Answer(r, "cancelled") /\ Fault
    /\ \/ UNCHANGED on
       \/ req[r].pc = "patch" /\ db.rows[req[r].row].chan \in live /\ Land(r)
    /\ UNCHANGED <<catalog, live, applied, overlap>>

\* Mutant: the audit row is not part of the dismissal.
DismissalUnlogged(m) == [db EXCEPT !.rows[m].status = "dismissed"]

(***************************************************************************)
(* POST /api/channel-merges/{id}/dismiss, and a request that only reads    *)
(* (the queue list, the snapshot, the identity check of another request).  *)
(***************************************************************************)
Dismissal(m) == Log([db EXCEPT !.rows[m].status = "dismissed"], m, "merge_dismissed")

dismiss_pending_merge(r, m) ==
    /\ req[r].pc = "idle"
    /\ m \in DOMAIN db.rows
    /\ \/ /\ db.rows[m].status = "pending" /\ Room
          /\ Commit(Dismissal(m)) /\ Answer(r, "dismissed") /\ NoFault
       \/ /\ db.rows[m].status = "pending"
          /\ Rollback /\ Answer(r, "error") /\ Fault
       \/ /\ db.rows[m].status # "pending"
          /\ Rollback /\ NoFault
          /\ Answer(r, IF db.rows[m].status = "merged" THEN "conflict" ELSE "dismissed")
    /\ Begins(r)
    /\ UNCHANGED applied /\ UNCHANGED upstream

read_only(r) ==
    /\ req[r].pc = "idle" /\ Rollback /\ Begins(r)
    /\ UNCHANGED <<req, applied>> /\ UNCHANGED upstream /\ NoFault

(***************************************************************************)
(* Dispatcharr, and a restart of ECM.                                      *)
(***************************************************************************)
Relist(n) ==
    /\ \E k \in 0..2 \ {catalog[n]} : catalog' = [catalog EXCEPT ![n] = k]
    /\ UNCHANGED <<db, disk, req, live, on, applied, overlap, faults>>

AddByHand(n, c) ==
    /\ c \in live /\ n \notin on[c]
    /\ on' = [on EXCEPT ![c] = @ \cup {n}]
    /\ UNCHANGED <<db, disk, req, catalog, live, applied, overlap, faults>>

DeleteChannel(c) ==
    /\ c \in live
    /\ live' = live \ {c}
    /\ UNCHANGED <<db, disk, req, catalog, on, applied, overlap, faults>>

Restart ==
    /\ Fault /\ Rollback
    /\ req' = [r \in Requests |-> Idle(NoAnswer)]
    /\ \/ UNCHANGED on
       \/ \E r \in Requests :
            req[r].pc = "patch" /\ db.rows[req[r].row].chan \in live /\ Land(r)
    /\ UNCHANGED <<catalog, live, applied, overlap>>

Next ==
    \/ \E r \in Requests, n \in Names, c \in Channels : FetchCandidates(r, n, c)
    \/ \E r \in Requests : enqueue_pending_merge(r)
    \/ \E r \in Requests, m \in 1..MaxRows :
            accept_pending_merge(r, m) \/ dismiss_pending_merge(r, m)
    \/ \E r \in Requests : get_channel(r)
    \/ \E r \in Requests, search \in {"complete", "failed", "truncated"} :
            resolve_and_stage(r, search)
    \/ \E r \in Requests : after_patch(r) \/ patch_failed(r)
    \/ \E r \in Requests : cancelled(r)
    \/ \E r \in Requests : read_only(r)
    \/ \E n \in Names : Relist(n)
    \/ \E n \in Names, c \in Channels : AddByHand(n, c)
    \/ \E c \in Channels : DeleteChannel(c)
    \/ Restart

Spec == Init /\ [][Next]_vars

-----------------------------------------------------------------------------
\* The state is well formed: rows, audit rows and requests have their fields.
TypeOK ==
    /\ StoreOK(db) /\ StoreOK(disk)
    /\ \A r \in Requests :
          /\ req[r].pc \in Accepting \cup {"idle", "candidates"}
          /\ req[r].pc \in Accepting => req[r].row \in DOMAIN disk.rows
    /\ catalog \in [Names -> 0..2]
    /\ live \subseteq Channels
    /\ on \in [Channels -> SUBSET Names]
    /\ applied \subseteq 1..MaxRows

Has(store, m, act) == \E i \in DOMAIN store.audit : store.audit[i] = [row |-> m, act |-> act]

\* A committed row never stands without the committed audit rows that explain
\* it: its queueing, and its decision once it is terminal -- whatever other
\* sessions commit or roll back on the shared connection while an accept is
\* suspended between its flush and its commit (_latest_journal_source raises
\* "audit-trail invariant violated" otherwise).
DecisionsAreAudited ==
    \A m \in DOMAIN disk.rows :
        /\ Has(disk, m, "auto_queued")
        /\ disk.rows[m].status = "merged" => Has(disk, m, "merge_confirmed")
        /\ disk.rows[m].status = "dismissed" => Has(disk, m, "merge_dismissed")

\* At most one pending row per stream and candidate survives, on the connection
\* and on disk, although re-queueing, flagging, flips and rollbacks interleave.
OneQueuedPerPair ==
    \A n \in Names, c \in Channels : \A s \in {db, disk} :
        Cardinality({i \in DOMAIN s.rows : s.rows[i].name = n /\ s.rows[i].chan = c
                                             /\ s.rows[i].status = "pending"}) <= 1

\* A row that is merged on disk and whose accepts have all answered.
Settled(m) ==
    /\ disk.rows[m].status = "merged"
    /\ \A r \in Requests : req[r].pc = "patch" => req[r].row # m

\* A row is "merged" for good only when an accept of it saw its stream on the
\* candidate channel: an accept Dispatcharr rejected, that was cut off, or that
\* could not be resolved, leaves the row in the queue.
MergedWasApplied ==
    \A m \in DOMAIN disk.rows : Settled(m) => m \in applied

\* The stream of a merged row is on its channel while the channel exists.
\* Nothing in the model removes a stream from a channel but an accept's own
\* write of the whole list.
MergedStaysApplied ==
    \A m \in DOMAIN disk.rows :
        Settled(m) /\ disk.rows[m].chan \in live
            => disk.rows[m].name \in on[disk.rows[m].chan]

\* A merged row carries no reason of an earlier attempt that failed.
NoStaleReason ==
    \A m \in DOMAIN disk.rows : disk.rows[m].status = "merged" => disk.rows[m].reason = ""

\* A committed decision is final: a terminal row keeps its status.
KeepsDecision(m) ==
    disk.rows[m].status # "pending" => disk'.rows[m].status = disk.rows[m].status

\* The queue and its audit trail agree: one pending row per pair and every
\* decision audited, whatever requests overlap; no reason is left on a merged
\* row as long as none did.
QueueIsSound ==
    /\ TypeOK /\ OneQueuedPerPair /\ DecisionsAreAudited
    /\ ~overlap => NoStaleReason

\* A row that says merged was applied and its stream is still there: said of
\* requests that did not overlap, whatever failed, was cut off or restarted.
\* Another session's commit on the shared connection publishes a staged flip.
MergedMeansApplied == ~overlap => MergedWasApplied /\ MergedStaysApplied

\* No step of requests that did not overlap revises a committed decision
\* (KeepsDecision).
DecisionKept == [][~overlap' => \A m \in DOMAIN disk.rows : KeepsDecision(m)]_vars
=============================================================================
