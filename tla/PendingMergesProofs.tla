--------------------------- MODULE PendingMergesProofs ---------------------------
(***************************************************************************)
(* Proofs about PendingMerges, for any stream names, channels, requests    *)
(* and bounds.                                                             *)
(*                                                                         *)
(* Two kinds of facts.  Queue and audit trail agree whatever requests      *)
(* overlap: for that both readings of the tables, the one of the shared    *)
(* connection and the one on disk, satisfy the same invariant StoreInv, so *)
(* that any session may commit or roll back at any point.  And as long as  *)
(* requests took turns (Solo), the connection differs from the disk only   *)
(* by what the one accept in flight has staged, which row that is, and     *)
(* what it knows of its channel.                                           *)
(***************************************************************************)
EXTENDS PendingMerges, FiniteSetTheorems, TLAPS

Acts == {"auto_queued", "merge_confirmed", "merge_dismissed"}
StoreType(s) ==
    /\ s \in [rows : Seq(Row), audit : Seq(Audit)]
    /\ Len(s.rows) <= MaxRows /\ Len(s.audit) <= MaxAudit

(* DecisionsAreAudited and OneQueuedPerPair, of one reading of the tables. *)
Audited(s) ==
    \A m \in DOMAIN s.rows :
        /\ Has(s, m, "auto_queued")
        /\ s.rows[m].status = "merged" => Has(s, m, "merge_confirmed")
        /\ s.rows[m].status = "dismissed" => Has(s, m, "merge_dismissed")

Unique(s) ==
    \A i, j \in DOMAIN s.rows :
        /\ s.rows[i].status = "pending" /\ s.rows[j].status = "pending"
        /\ s.rows[i].name = s.rows[j].name /\ s.rows[i].chan = s.rows[j].chan
        => i = j

StoreInv(s) == StoreType(s) /\ Audited(s) /\ Unique(s)

(* The connection and the disk hold the same rows, decided differently at  *)
(* most.                                                                   *)
SameRows(b, d) ==
    /\ Len(b.rows) = Len(d.rows)
    /\ \A i \in DOMAIN d.rows :
          b.rows[i].name = d.rows[i].name /\ b.rows[i].chan = d.rows[i].chan

Request(d, q) ==
    /\ q.pc \in Accepting \cup {"idle", "candidates"}
    /\ q.pc \in Accepting => q.row \in DOMAIN d.rows
    /\ q.pc = "candidates" => q.name \in Names /\ q.chan \in Channels
    /\ q.pc \in {"channel", "lookup"} => q.reason \in Reasons
    /\ q.pc \in {"lookup", "patch"} => q.streams \subseteq Names

QueueInv ==
    /\ StoreInv(db) /\ StoreInv(disk) /\ SameRows(db, disk)
    /\ req = [r \in Requests |-> req[r]]
    /\ \A r \in Requests : Request(disk, req[r])
    /\ catalog \in [Names -> 0..2] /\ live \subseteq Channels
    /\ on \in [Channels -> SUBSET Names] /\ applied \subseteq 1..MaxRows
    /\ overlap \in BOOLEAN

-----------------------------------------------------------------------------
(* What holds as long as requests took turns.                              *)
Turn(r) == \A q \in Requests \ {r} : req[q].pc = "idle"

(* A merged row was applied, carries no reason, and its stream is on its   *)
(* channel.                                                                *)
Decided(d, a, l, o) ==
    \A m \in DOMAIN d.rows :
        d.rows[m].status = "merged" =>
            /\ d.rows[m].reason = "" /\ m \in a
            /\ d.rows[m].chan \in l => d.rows[m].name \in o[d.rows[m].chan]

(* The row an accept works on is as it read it.                            *)
Reads(d, q) ==
    d.rows[q.row].status = "pending" /\ d.rows[q.row].reason = q.reason

(* What an accept has staged: its row, merged, and nothing else.           *)
Staged(b, d, q) ==
    /\ d.rows[q.row].status = "pending"
    /\ \A i \in DOMAIN d.rows :
          b.rows[i] = IF i = q.row
                      THEN [d.rows[i] EXCEPT !.status = "merged", !.reason = ""]
                      ELSE d.rows[i]

(* The stream list an accept will write back has the streams of all rows   *)
(* merged into that channel, and is still on the channel.                  *)
Holds(d, q, o) ==
    /\ q.streams \subseteq o[d.rows[q.row].chan]
    /\ \A m \in DOMAIN d.rows :
          d.rows[m].status = "merged" /\ d.rows[m].chan = d.rows[q.row].chan
              => d.rows[m].name \in q.streams

SoloReq(b, d, q, o) ==
    /\ q.pc # "patch" => b = d
    /\ q.pc \in {"channel", "lookup"} => Reads(d, q)
    /\ q.pc = "patch" => Staged(b, d, q)
    /\ q.pc \in {"lookup", "patch"} => Holds(d, q, o)

Solo ==
    ~overlap =>
        /\ Decided(disk, applied, live, on)
        /\ \A r \in Requests : req[r].pc # "idle" => Turn(r)
        /\ \A r \in Requests : Turn(r) => SoloReq(db, disk, req[r], on)

(* The inductive invariant.                                                *)
MergeInv == QueueInv /\ Solo

-----------------------------------------------------------------------------
(* Operators on one reading of the tables.                                 *)
LEMMA PutRow ==
  ASSUME NEW s, StoreType(s), NEW m \in DOMAIN s.rows, NEW x \in Row
  PROVE  LET t == [s EXCEPT !.rows[m] = x]
         IN  /\ StoreType(t) /\ t.audit = s.audit
             /\ Len(t.rows) = Len(s.rows) /\ DOMAIN t.rows = DOMAIN s.rows
             /\ \A i \in DOMAIN s.rows : t.rows[i] = IF i = m THEN x ELSE s.rows[i]
<1>. DEFINE t == [s EXCEPT !.rows[m] = x]
<1>1. s.rows \in Seq(Row) /\ s.audit \in Seq(Audit)
  BY DEF StoreType
<1>2. t = [s EXCEPT !.rows = [s.rows EXCEPT ![m] = x]]
  BY DEF StoreType
<1>3. t.rows = [s.rows EXCEPT ![m] = x] /\ t.audit = s.audit
  BY <1>2 DEF StoreType
<1>4. [s.rows EXCEPT ![m] = x] \in Seq(Row) /\ Len([s.rows EXCEPT ![m] = x]) = Len(s.rows)
  BY <1>1
<1>5. t \in [rows : Seq(Row), audit : Seq(Audit)]
  BY <1>1, <1>2, <1>4 DEF StoreType
<1>6. DOMAIN t.rows = DOMAIN s.rows
      /\ \A i \in DOMAIN s.rows : t.rows[i] = IF i = m THEN x ELSE s.rows[i]
  BY <1>1, <1>3
<1>. QED
  BY <1>3, <1>4, <1>5, <1>6 DEF StoreType

LEMMA LogRow ==
  ASSUME NEW s, StoreType(s), Len(s.audit) < MaxAudit,
         NEW m \in 1..MaxRows, NEW act \in Acts
  PROVE  LET t == Log(s, m, act)
         IN  /\ StoreType(t) /\ t.rows = s.rows /\ Has(t, m, act)
             /\ \A k, a : Has(s, k, a) => Has(t, k, a)
<1>. DEFINE e == [row |-> m, act |-> act]
            t == Log(s, m, act)
<1>1. s.rows \in Seq(Row) /\ s.audit \in Seq(Audit) /\ e \in Audit
  BY DEF StoreType, Audit, Acts
<1>2. t.rows = s.rows /\ t.audit = Append(s.audit, e)
  BY DEF Log, StoreType
<1>3. /\ Append(s.audit, e) \in Seq(Audit)
      /\ Len(Append(s.audit, e)) = Len(s.audit) + 1
      /\ DOMAIN s.audit \subseteq DOMAIN Append(s.audit, e)
      /\ \A i \in DOMAIN s.audit : Append(s.audit, e)[i] = s.audit[i]
      /\ Len(s.audit) + 1 \in DOMAIN Append(s.audit, e)
      /\ Append(s.audit, e)[Len(s.audit) + 1] = e
  BY <1>1
<1>4. Len(s.audit) \in Nat /\ MaxAudit \in Nat
  BY <1>1, PendingMergesAssumption
<1>5. StoreType(t)
  <2>1. t \in [rows : Seq(Row), audit : Seq(Audit)]
    BY <1>1, <1>2, <1>3 DEF Log, StoreType
  <2>. QED
    BY <1>2, <1>3, <1>4, <2>1 DEF StoreType
<1>6. Has(t, m, act)
  BY <1>2, <1>3 DEF Has
<1>7. \A k, a : Has(s, k, a) => Has(t, k, a)
  BY <1>2, <1>3 DEF Has
<1>. QED
  BY <1>2, <1>5, <1>6, <1>7

(* A decision of a queued row, and its audit row.                          *)
LEMMA Redecided ==
  ASSUME NEW s, StoreInv(s), Len(s.audit) < MaxAudit,
         NEW m \in DOMAIN s.rows, NEW x \in Row, NEW act \in Acts,
         x.name = s.rows[m].name, x.chan = s.rows[m].chan,
         x.status \in {"pending", "dismissed"} =>
             x.status = s.rows[m].status \/ act = "merge_dismissed",
         x.status = "merged" => act = "merge_confirmed",
         x.status = "pending" => s.rows[m].status = "pending",
         NEW t, t = Log([s EXCEPT !.rows[m] = x], m, act)
  PROVE  /\ StoreInv(t)
         /\ Len(t.rows) = Len(s.rows) /\ DOMAIN t.rows = DOMAIN s.rows
         /\ \A i \in DOMAIN s.rows : t.rows[i] = IF i = m THEN x ELSE s.rows[i]
<1>. DEFINE p == [s EXCEPT !.rows[m] = x]
<1>0. t = Log(p, m, act)
  OBVIOUS
<1>1. /\ StoreType(p) /\ p.audit = s.audit
      /\ Len(p.rows) = Len(s.rows) /\ DOMAIN p.rows = DOMAIN s.rows
      /\ \A i \in DOMAIN s.rows : p.rows[i] = IF i = m THEN x ELSE s.rows[i]
  BY PutRow DEF StoreInv
<1>2. m \in 1..MaxRows
  BY PendingMergesAssumption DEF StoreInv, StoreType
<1>. HIDE DEF p
<1>3. /\ StoreType(t) /\ t.rows = p.rows /\ Has(t, m, act)
      /\ \A k, a : Has(p, k, a) => Has(t, k, a)
  BY <1>0, <1>1, <1>2, LogRow
<1>4. \A k, a : Has(s, k, a) => Has(t, k, a)
  <2>1. \A k, a : Has(s, k, a) => Has(p, k, a)
    BY <1>1 DEF Has
  <2>. QED
    BY <1>3, <2>1
<1>5. Audited(t)
  <2>. SUFFICES ASSUME NEW k \in DOMAIN s.rows
                PROVE  /\ Has(t, k, "auto_queued")
                       /\ t.rows[k].status = "merged" => Has(t, k, "merge_confirmed")
                       /\ t.rows[k].status = "dismissed" => Has(t, k, "merge_dismissed")
    BY <1>1, <1>3 DEF Audited
  <2>1. /\ Has(s, k, "auto_queued")
        /\ s.rows[k].status = "merged" => Has(s, k, "merge_confirmed")
        /\ s.rows[k].status = "dismissed" => Has(s, k, "merge_dismissed")
    BY DEF StoreInv, Audited
  <2>2. CASE k # m
    BY <1>1, <1>3, <1>4, <2>1, <2>2
  <2>3. CASE k = m
    <3>1. t.rows[k] = x
      BY <1>1, <1>3, <2>3
    <3>. QED
      BY <1>3, <1>4, <2>1, <2>3, <3>1
  <2>. QED
    BY <2>2, <2>3
<1>6. Unique(t)
  BY <1>1, <1>3 DEF StoreInv, Unique
<1>7. /\ Len(t.rows) = Len(s.rows) /\ DOMAIN t.rows = DOMAIN s.rows
      /\ \A i \in DOMAIN s.rows : t.rows[i] = IF i = m THEN x ELSE s.rows[i]
  BY <1>1, <1>3
<1>. QED
  BY <1>3, <1>5, <1>6, <1>7 DEF StoreInv

(* A new row, with its audit row.                                          *)
LEMMA Added ==
  ASSUME NEW s, StoreInv(s), Len(s.audit) < MaxAudit, Len(s.rows) < MaxRows,
         NEW x \in Row, x.status = "pending", Queued(s, x.name, x.chan) = {}
  PROVE  LET t == Log([s EXCEPT !.rows = Append(@, x)], Len(s.rows) + 1, "auto_queued")
         IN  /\ StoreInv(t) /\ DOMAIN s.rows \subseteq DOMAIN t.rows
             /\ \A i \in DOMAIN s.rows : t.rows[i] = s.rows[i]
             /\ \A i \in DOMAIN t.rows : i \in DOMAIN s.rows \/ t.rows[i] = x
<1>. DEFINE n == Len(s.rows) + 1
            p == [s EXCEPT !.rows = Append(@, x)]
            t == Log(p, n, "auto_queued")
<1>1. s.rows \in Seq(Row) /\ s.audit \in Seq(Audit) /\ Len(s.rows) \in Nat /\ MaxRows \in Nat
  BY PendingMergesAssumption DEF StoreInv, StoreType
<1>2. p.rows = Append(s.rows, x) /\ p.audit = s.audit
      /\ p \in [rows : Seq(Row), audit : Seq(Audit)]
  BY <1>1 DEF StoreInv, StoreType
<1>3. /\ Len(p.rows) = n /\ DOMAIN p.rows = 1..n
      /\ \A i \in 1..Len(s.rows) : p.rows[i] = s.rows[i]
      /\ p.rows[n] = x /\ DOMAIN s.rows = 1..Len(s.rows)
  BY <1>1, <1>2
<1>4. StoreType(p) /\ n \in 1..MaxRows
  BY <1>1, <1>2, <1>3 DEF StoreInv, StoreType
<1>. HIDE DEF p, n
<1>5. /\ StoreType(t) /\ t.rows = p.rows /\ Has(t, n, "auto_queued")
      /\ \A k, a : Has(p, k, a) => Has(t, k, a)
  BY <1>2, <1>4, LogRow DEF Acts
<1>6. \A k, a : Has(s, k, a) => Has(t, k, a)
  BY <1>2, <1>5 DEF Has
<1>. HIDE DEF t
<1>7. \A i \in 1..n : i \in 1..Len(s.rows) \/ i = n
  BY <1>1 DEF n
<1>8. Audited(t)
  <2>. SUFFICES ASSUME NEW k \in 1..n
                PROVE  /\ Has(t, k, "auto_queued")
                       /\ t.rows[k].status = "merged" => Has(t, k, "merge_confirmed")
                       /\ t.rows[k].status = "dismissed" => Has(t, k, "merge_dismissed")
    BY <1>3, <1>5 DEF Audited
  <2>1. CASE k = n
    BY <1>3, <1>5, <2>1
  <2>2. CASE k \in 1..Len(s.rows)
    BY <1>3, <1>5, <1>6, <2>2 DEF StoreInv, Audited
  <2>. QED
    BY <1>7, <2>1, <2>2
<1>9. Unique(t)
  <2>1. ASSUME NEW i \in DOMAIN s.rows, s.rows[i].status = "pending",
               s.rows[i].name = x.name, s.rows[i].chan = x.chan
        PROVE  FALSE
    <3>1. i \in Queued(s, x.name, x.chan)
      BY <2>1 DEF Queued
    <3>. QED
      BY <3>1
  <2>. SUFFICES ASSUME NEW i \in 1..n, NEW j \in 1..n,
                       t.rows[i].status = "pending", t.rows[j].status = "pending",
                       t.rows[i].name = t.rows[j].name, t.rows[i].chan = t.rows[j].chan
                PROVE  i = j
    BY <1>3, <1>5 DEF Unique
  <2>2. CASE i \in 1..Len(s.rows) /\ j \in 1..Len(s.rows)
    BY <1>3, <1>5, <2>2 DEF StoreInv, Unique
  <2>3. CASE i = n /\ j \in 1..Len(s.rows)
    BY <1>3, <1>5, <2>1, <2>3
  <2>4. CASE j = n /\ i \in 1..Len(s.rows)
    BY <1>3, <1>5, <2>1, <2>4
  <2>. QED
    BY <1>7, <2>2, <2>3, <2>4
<1>10. DOMAIN s.rows \subseteq DOMAIN t.rows
  BY <1>1, <1>3, <1>5 DEF n
<1>. QED
  BY <1>3, <1>5, <1>7, <1>8, <1>9, <1>10 DEF StoreInv, t, p, n

-----------------------------------------------------------------------------
LEMMA InitInv == Init => MergeInv
<1>. SUFFICES ASSUME Init PROVE MergeInv
  OBVIOUS
<1>1. MaxRows \in Nat /\ MaxAudit \in Nat
  BY PendingMergesAssumption
<1>2. db = [rows |-> << >>, audit |-> << >>] /\ disk = db
  BY DEF Init
<1>3. StoreType(db) /\ DOMAIN db.rows = {}
  BY <1>1, <1>2 DEF StoreType
<1>4. StoreInv(db) /\ StoreInv(disk) /\ SameRows(db, disk)
  BY <1>2, <1>3 DEF StoreInv, Audited, Unique, SameRows
<1>5. req = [r \in Requests |-> req[r]] /\ \A r \in Requests : req[r].pc = "idle"
  BY DEF Init, Idle
<1>6. \A r \in Requests : Request(disk, req[r]) /\ SoloReq(db, disk, req[r], on)
  BY <1>2, <1>5 DEF Request, SoloReq, Accepting
<1>7. Decided(disk, applied, live, on)
  BY <1>2, <1>3 DEF Decided
<1>8. QueueInv
  <2>1. overlap \in BOOLEAN
    BY Zenon DEF Init
  <2>2. catalog \in [Names -> 0..2] /\ live \subseteq Channels
        /\ on \in [Channels -> SUBSET Names] /\ applied \subseteq 1..MaxRows
    BY DEF Init
  <2>. QED
    BY <1>4, <1>5, <1>6, <2>1, <2>2 DEF QueueInv
<1>9. Solo
  BY <1>5, <1>6, <1>7 DEF Solo
<1>. QED
  BY <1>8, <1>9 DEF MergeInv

(* The decisions on disk stand, as long as requests took turns.            *)
Kept == ~overlap' => \A m \in DOMAIN disk.rows : KeepsDecision(m)

(* The request that takes a step is the only one in flight, if requests    *)
(* took turns and still do.                                                *)
TakesTurn(r) ==
    /\ overlap' \in BOOLEAN
    /\ ~overlap' => /\ ~overlap /\ Turn(r)
                    /\ Decided(disk, applied, live, on)
                    /\ SoloReq(db, disk, req[r], on)

LEMMA TurnBegins ==
  ASSUME MergeInv, NEW r \in Requests, Begins(r)
  PROVE  TakesTurn(r)
<1>1. overlap' \in BOOLEAN
  BY Zenon DEF Begins
<1>2. ASSUME ~overlap' PROVE ~overlap /\ Turn(r)
  BY <1>2 DEF Begins, InFlight, Turn
<1>. QED
  BY <1>1, <1>2 DEF TakesTurn, MergeInv, Solo

LEMMA TurnGoesOn ==
  ASSUME MergeInv, NEW r \in Requests, req[r].pc # "idle", UNCHANGED overlap
  PROVE  TakesTurn(r)
  BY DEF TakesTurn, MergeInv, QueueInv, Solo

(* A step of request r, which takes it to x.                               *)
LEMMA StepOf ==
  ASSUME MergeInv, NEW r \in Requests, NEW x, req' = [req EXCEPT ![r] = x],
         StoreInv(db'), StoreInv(disk'), SameRows(db', disk'),
         DOMAIN disk.rows \subseteq DOMAIN disk'.rows, Request(disk', x),
         catalog' = catalog, live' = live,
         on' \in [Channels -> SUBSET Names], applied' \subseteq 1..MaxRows,
         overlap' \in BOOLEAN,
         ~overlap' => /\ Turn(r) /\ Decided(disk', applied', live, on')
                      /\ SoloReq(db', disk', x, on')
  PROVE  MergeInv'
<1>1. /\ req' = [q \in Requests |-> req'[q]]
      /\ \A q \in Requests : req'[q] = IF q = r THEN x ELSE req[q]
  BY DEF MergeInv, QueueInv
<1>2. \A q \in Requests : Request(disk', req'[q])
  BY <1>1 DEF MergeInv, QueueInv, Request
<1>3. QueueInv'
  BY <1>1, <1>2 DEF MergeInv, QueueInv
<1>4. ASSUME ~overlap' PROVE /\ \A q \in Requests : req'[q].pc # "idle" => Turn(q)'
                             /\ \A q \in Requests : Turn(q)' => SoloReq(db', disk', req'[q], on')
  <2>1. \A q \in Requests \ {r} : req'[q].pc = "idle"
    BY <1>1, <1>4 DEF Turn
  <2>2. \A q \in Requests : req'[q].pc # "idle" => q = r
    BY <2>1
  <2>3. Turn(r)'
    BY <2>1 DEF Turn
  <2>4. SoloReq(db', disk', req'[r], on')
    BY <1>1, <1>4
  <2>5. ASSUME NEW q \in Requests, q # r, Turn(q)' PROVE SoloReq(db', disk', req'[q], on')
    <3>1. req'[r].pc = "idle" /\ req'[q].pc = "idle"
      BY <2>1, <2>5 DEF Turn
    <3>2. db' = disk'
      BY <2>4, <3>1 DEF SoloReq
    <3>. QED
      BY <3>1, <3>2 DEF SoloReq
  <2>. QED
    BY <2>2, <2>3, <2>4, <2>5
<1>5. Solo'
  BY <1>4 DEF Solo
<1>. QED
  BY <1>3, <1>5 DEF MergeInv

(* Whatever a request had staged is rolled back, and it is answered.       *)
LEMMA RolledBack ==
  ASSUME MergeInv, NEW r \in Requests, NEW a, Rollback, Answer(r, a),
         catalog' = catalog, live' = live,
         on' \in [Channels -> SUBSET Names], applied' \subseteq 1..MaxRows,
         TakesTurn(r), ~overlap' => Decided(disk, applied', live, on')
  PROVE  MergeInv' /\ Kept
<1>1. db' = disk /\ disk' = disk
  BY DEF Rollback
<1>2. StoreInv(db') /\ StoreInv(disk') /\ SameRows(db', disk')
  BY <1>1 DEF MergeInv, QueueInv, SameRows
<1>3. req' = [req EXCEPT ![r] = Idle(a)]
  BY DEF Answer
<1>4. Request(disk', Idle(a)) /\ SoloReq(db', disk', Idle(a), on')
  BY <1>1 DEF Request, SoloReq, Idle, Accepting
<1>5. MergeInv'
  BY <1>1, <1>2, <1>3, <1>4, StepOf DEF TakesTurn
<1>6. Kept
  BY <1>1 DEF Kept, KeepsDecision
<1>. QED
  BY <1>5, <1>6

(* ... with nothing changed in Dispatcharr.                                *)
LEMMA GivesUp ==
  ASSUME MergeInv, NEW r \in Requests, NEW a, Rollback, Answer(r, a),
         UNCHANGED <<catalog, live, on, applied>>, TakesTurn(r)
  PROVE  MergeInv' /\ Kept
<1>1. /\ catalog' = catalog /\ live' = live /\ on' = on /\ applied' = applied
      /\ on' \in [Channels -> SUBSET Names] /\ applied' \subseteq 1..MaxRows
  BY DEF MergeInv, QueueInv
<1>2. ~overlap' => Decided(disk, applied', live, on')
  BY <1>1 DEF TakesTurn
<1>. QED
  BY <1>1, <1>2, RolledBack

(* What was staged, with what others staged before, is committed.          *)
LEMMA Committed ==
  ASSUME MergeInv, NEW r \in Requests, NEW a, NEW s, Commit(s), Answer(r, a),
         StoreInv(s), DOMAIN disk.rows \subseteq DOMAIN s.rows,
         catalog' = catalog, live' = live,
         on' \in [Channels -> SUBSET Names], applied' \subseteq 1..MaxRows,
         TakesTurn(r),
         ~overlap' => /\ Decided(s, applied', live, on')
                      /\ \A m \in DOMAIN disk.rows : disk.rows[m].status # "pending" =>
                            s.rows[m].status = disk.rows[m].status
  PROVE  MergeInv' /\ Kept
<1>1. db' = s /\ disk' = s
  BY DEF Commit
<1>2. StoreInv(db') /\ StoreInv(disk') /\ SameRows(db', disk')
  BY <1>1 DEF SameRows
<1>3. req' = [req EXCEPT ![r] = Idle(a)]
  BY DEF Answer
<1>4. Request(disk', Idle(a)) /\ SoloReq(db', disk', Idle(a), on')
  BY <1>1 DEF Request, SoloReq, Idle, Accepting
<1>5. MergeInv'
  BY <1>1, <1>2, <1>3, <1>4, StepOf DEF TakesTurn
<1>6. Kept
  BY <1>1 DEF Kept, KeepsDecision
<1>. QED
  BY <1>5, <1>6

(* A step of a request that touches neither the tables nor Dispatcharr.    *)
LEMMA GoesOn ==
  ASSUME MergeInv, NEW r \in Requests, NEW x, req' = [req EXCEPT ![r] = x],
         UNCHANGED <<db, disk, catalog, live, on, applied>>,
         Request(disk, x), TakesTurn(r),
         ~overlap' => SoloReq(db, disk, x, on)
  PROVE  MergeInv' /\ Kept
<1>1. db' = db /\ disk' = disk /\ catalog' = catalog /\ live' = live /\ on' = on
      /\ applied' = applied
  OBVIOUS
<1>2. /\ StoreInv(db') /\ StoreInv(disk') /\ SameRows(db', disk')
      /\ on' \in [Channels -> SUBSET Names] /\ applied' \subseteq 1..MaxRows
  BY <1>1 DEF MergeInv, QueueInv
<1>3. MergeInv'
  BY <1>1, <1>2, StepOf DEF TakesTurn
<1>. QED
  BY <1>1, <1>3 DEF Kept, KeepsDecision

-----------------------------------------------------------------------------
(* The handlers.                                                           *)
LEMMA FetchKeeps ==
  ASSUME MergeInv, NEW r \in Requests, NEW n \in Names, NEW c \in Channels,
         FetchCandidates(r, n, c)
  PROVE  MergeInv' /\ Kept
<1>. DEFINE x == [pc |-> "candidates", name |-> n, chan |-> c]
<1>1. TakesTurn(r)
  BY TurnBegins DEF FetchCandidates
<1>2. Request(disk, x)
  BY DEF Request, Accepting
<1>3. ~overlap' => SoloReq(db, disk, x, on)
  BY <1>1 DEF TakesTurn, SoloReq, FetchCandidates
<1>. QED
  BY <1>1, <1>2, <1>3, GoesOn DEF FetchCandidates, upstream

LEMMA EnqueueKeeps ==
  ASSUME MergeInv, NEW r \in Requests, enqueue_pending_merge(r)
  PROVE  MergeInv' /\ Kept
<1>. DEFINE n == req[r].name
            c == req[r].chan
            row == [name |-> n, chan |-> c, status |-> "pending", reason |-> ""]
            s == Log([db EXCEPT !.rows = Append(@, row)], Len(db.rows) + 1, "auto_queued")
<1>1. req[r].pc = "candidates"
  BY DEF enqueue_pending_merge
<1>2. TakesTurn(r)
  BY <1>1, TurnGoesOn DEF enqueue_pending_merge
<1>3. row \in Row
  BY <1>1 DEF MergeInv, QueueInv, Request, Row, Reasons
<1>4. CASE Rollback
  BY <1>2, <1>4, GivesUp DEF enqueue_pending_merge, upstream
<1>5. CASE /\ Queued(db, n, c) = {} /\ Len(db.rows) < MaxRows /\ Room /\ Commit(s)
  <2>1. StoreInv(db) /\ Queued(db, row.name, row.chan) = {} /\ Len(db.audit) < MaxAudit
    BY <1>5 DEF MergeInv, QueueInv, Room
  <2>2. /\ StoreInv(s) /\ DOMAIN db.rows \subseteq DOMAIN s.rows
        /\ \A i \in DOMAIN db.rows : s.rows[i] = db.rows[i]
        /\ \A i \in DOMAIN s.rows : i \in DOMAIN db.rows \/ s.rows[i] = row
    BY <1>3, <1>5, <2>1, Added
  <2>3. row.status = "pending"
    OBVIOUS
  <2>. HIDE DEF s, row
  <2>4. DOMAIN disk.rows \subseteq DOMAIN s.rows
    BY <2>2 DEF MergeInv, QueueInv, SameRows, StoreInv, StoreType
  <2>5. ASSUME ~overlap'
        PROVE  /\ Decided(s, applied', live, on')
               /\ \A m \in DOMAIN disk.rows : disk.rows[m].status # "pending" =>
                      s.rows[m].status = disk.rows[m].status
    <3>1. db = disk /\ Decided(disk, applied, live, on)
      BY <1>1, <1>2, <2>5 DEF TakesTurn, SoloReq
    <3>2. on' = on /\ applied' = applied
      BY DEF enqueue_pending_merge, upstream
    <3>. QED
      BY <2>2, <2>3, <3>1, <3>2 DEF Decided
  <2>6. /\ catalog' = catalog /\ live' = live
        /\ on' \in [Channels -> SUBSET Names] /\ applied' \subseteq 1..MaxRows
    BY DEF enqueue_pending_merge, upstream, MergeInv, QueueInv
  <2>7. Answer(r, "queued")
    BY DEF enqueue_pending_merge
  <2>. QED
    BY <1>2, <1>5, <2>2, <2>4, <2>5, <2>6, <2>7, Committed
<1>. QED
  BY <1>4, <1>5 DEF enqueue_pending_merge

LEMMA AcceptKeeps ==
  ASSUME MergeInv, NEW r \in Requests, NEW m \in 1..MaxRows, accept_pending_merge(r, m)
  PROVE  MergeInv' /\ Kept
<1>1. TakesTurn(r) /\ req[r].pc = "idle" /\ m \in DOMAIN db.rows
  BY TurnBegins DEF accept_pending_merge
<1>2. m \in DOMAIN disk.rows /\ db.rows[m] \in Row
  BY <1>1 DEF MergeInv, QueueInv, SameRows, StoreInv, StoreType
<1>3. CASE Acceptable(db.rows[m])
  <2>. DEFINE x == [pc |-> "channel", row |-> m, reason |-> db.rows[m].reason]
  <2>1. req' = [req EXCEPT ![r] = x] /\ UNCHANGED <<db, disk, catalog, live, on, applied>>
    BY <1>3 DEF accept_pending_merge, upstream
  <2>2. Request(disk, x)
    BY <1>2 DEF Request, Row, Accepting
  <2>3. ~overlap' => SoloReq(db, disk, x, on)
    BY <1>1, <1>3 DEF TakesTurn, SoloReq, Reads, Acceptable
  <2>. QED
    BY <1>1, <2>1, <2>2, <2>3, GoesOn
<1>4. CASE ~Acceptable(db.rows[m])
  <2>1. PICK a : Rollback /\ Answer(r, a)
    BY <1>4 DEF accept_pending_merge
  <2>. QED
    BY <1>1, <2>1, GivesUp DEF accept_pending_merge, upstream
<1>. QED
  BY <1>3, <1>4

LEMMA GetChannelKeeps ==
  ASSUME MergeInv, NEW r \in Requests, get_channel(r)
  PROVE  MergeInv' /\ Kept
<1>. DEFINE m == req[r].row
            c == db.rows[m].chan
<1>1. req[r].pc = "channel"
  BY DEF get_channel
<1>2. TakesTurn(r)
  BY <1>1, TurnGoesOn DEF get_channel
<1>3. m \in DOMAIN disk.rows /\ disk.rows[m] \in Row /\ c = disk.rows[m].chan
      /\ req[r].reason \in Reasons
  BY <1>1 DEF MergeInv, QueueInv, SameRows, StoreInv, StoreType, Request, Accepting
<1>4. CASE Rollback /\ (Answer(r, "gone") \/ Answer(r, "error"))
  BY <1>2, <1>4, GivesUp DEF get_channel, upstream
<1>5. CASE /\ c \in live /\ UNCHANGED <<db, disk>>
           /\ req' = [req EXCEPT ![r] = [pc |-> "lookup", row |-> m,
                         reason |-> req[r].reason, streams |-> on[c]]]
  <2>. DEFINE x == [pc |-> "lookup", row |-> m, reason |-> req[r].reason, streams |-> on[c]]
  <2>1. on[c] \subseteq Names
    BY <1>3 DEF MergeInv, QueueInv, Row
  <2>2. Request(disk, x)
    BY <1>3, <2>1 DEF Request, Accepting
  <2>3. ASSUME ~overlap' PROVE SoloReq(db, disk, x, on)
    <3>1. db = disk /\ Reads(disk, req[r]) /\ Decided(disk, applied, live, on)
      BY <1>1, <1>2, <2>3 DEF TakesTurn, SoloReq
    <3>2. Reads(disk, x)
      BY <3>1 DEF Reads
    <3>3. Holds(disk, x, on)
      BY <1>3, <1>5, <3>1 DEF Holds, Decided
    <3>. QED
      BY <3>1, <3>2, <3>3 DEF SoloReq
  <2>4. UNCHANGED <<catalog, live, on, applied>>
    BY DEF get_channel, upstream
  <2>. QED
    BY <1>2, <1>5, <2>2, <2>3, <2>4, GoesOn
<1>. QED
  BY <1>4, <1>5 DEF get_channel

(* What the search established is a reason, and the row staged with it is  *)
(* well formed and audited.                                                *)
LEMMA LookupType ==
  ASSUME NEW search \in {"complete", "failed", "truncated"}, NEW n
  PROVE  Lookup(search, n) \in Reasons
<1>1. CASE search # "complete"
  BY <1>1 DEF Lookup, Reasons
<1>2. CASE search = "complete" /\ catalog[n] = 0
  BY <1>2 DEF Lookup, Reasons
<1>3. CASE search = "complete" /\ catalog[n] = 2
  BY <1>3 DEF Lookup, Reasons
<1>4. CASE search = "complete" /\ catalog[n] # 0 /\ catalog[n] # 2
  BY <1>4 DEF Lookup, Reasons
<1>. QED
  BY <1>1, <1>2, <1>3, <1>4

LEMMA StageOK ==
  ASSUME MergeInv, Room, NEW m \in DOMAIN disk.rows,
         NEW loaded \in Reasons, NEW reason \in Reasons
  PROVE  LET s == Stage(m, loaded, reason)
         IN  /\ StoreInv(s) /\ Len(s.rows) = Len(disk.rows)
             /\ DOMAIN s.rows = DOMAIN disk.rows /\ DOMAIN db.rows = DOMAIN disk.rows
             /\ db.rows[m] \in Row
             /\ \A i \in DOMAIN disk.rows :
                   s.rows[i] = IF i = m THEN StagedRow(db.rows[m], loaded, reason)
                                        ELSE db.rows[i]
<1>. DEFINE x == StagedRow(db.rows[m], loaded, reason)
            s == Stage(m, loaded, reason)
<1>1. StoreInv(db) /\ Len(db.audit) < MaxAudit /\ DOMAIN db.rows = DOMAIN disk.rows
      /\ Len(db.rows) = Len(disk.rows)
  BY DEF MergeInv, QueueInv, SameRows, StoreInv, StoreType, Room
<1>2. db.rows[m] \in Row
  BY <1>1 DEF StoreInv, StoreType
<1>3. x \in Row /\ x.name = db.rows[m].name /\ x.chan = db.rows[m].chan
      /\ x.status = IF reason = "" THEN "merged" ELSE db.rows[m].status
  BY <1>2 DEF StagedRow, Assign, Row
<1>4. s = Log([db EXCEPT !.rows[m] = x], m, "merge_confirmed")
  BY DEF Stage, StagedRow
<1>5. "merge_confirmed" \in Acts
  BY DEF Acts
<1>. HIDE DEF x, s
<1>6. /\ x.status \in {"pending", "dismissed"} => x.status = db.rows[m].status
      /\ x.status = "pending" => db.rows[m].status = "pending"
  BY <1>3
<1>7. m \in DOMAIN db.rows
  BY <1>1
<1>8. /\ StoreInv(s)
      /\ Len(s.rows) = Len(db.rows) /\ DOMAIN s.rows = DOMAIN db.rows
      /\ \A i \in DOMAIN db.rows : s.rows[i] = IF i = m THEN x ELSE db.rows[i]
  <2>1. StoreInv(db) /\ Len(db.audit) < MaxAudit /\ x \in Row
        /\ x.name = db.rows[m].name /\ x.chan = db.rows[m].chan
    BY <1>1, <1>3
  <2>. QED
    BY <1>4, <1>5, <1>6, <1>7, <2>1, Redecided, SMTT(60)
<1>. QED
  BY <1>1, <1>2, <1>8 DEF x, s

LEMMA ResolveKeeps ==
  ASSUME MergeInv, NEW r \in Requests, NEW search \in {"complete", "failed", "truncated"},
         resolve_and_stage(r, search)
  PROVE  MergeInv' /\ Kept
<1>. DEFINE m == req[r].row
            n == db.rows[m].name
            loaded == req[r].reason
            reason == Lookup(search, n)
            s == Stage(m, loaded, reason)
<1>1. req[r].pc = "lookup"
  BY DEF resolve_and_stage
<1>2. TakesTurn(r)
  BY <1>1, TurnGoesOn DEF resolve_and_stage
<1>3. /\ m \in DOMAIN disk.rows /\ loaded \in Reasons /\ req[r].streams \subseteq Names
      /\ m \in 1..MaxRows
  BY <1>1, PendingMergesAssumption
     DEF MergeInv, QueueInv, Request, Accepting, StoreInv, StoreType
<1>4. reason \in Reasons
  BY LookupType
<1>5. /\ catalog' = catalog /\ live' = live /\ on' = on
      /\ on \in [Channels -> SUBSET Names]
  BY DEF resolve_and_stage, upstream, MergeInv, QueueInv
<1>6. CASE Rollback /\ Answer(r, "error") /\ UNCHANGED applied
  BY <1>2, <1>5, <1>6, GivesUp
<1>7. CASE Room /\ ~(Rollback /\ Answer(r, "error") /\ UNCHANGED applied)
  <2>1. /\ StoreInv(s) /\ Len(s.rows) = Len(disk.rows)
        /\ DOMAIN s.rows = DOMAIN disk.rows /\ db.rows[m] \in Row
        /\ \A i \in DOMAIN disk.rows :
              s.rows[i] = IF i = m THEN StagedRow(db.rows[m], loaded, reason)
                                   ELSE db.rows[i]
    BY <1>3, <1>4, <1>7, StageOK
  <2>2. ASSUME ~overlap'
        PROVE  /\ db = disk /\ disk.rows[m].status = "pending" /\ disk.rows[m].reason = loaded
               /\ Decided(disk, applied, live, on) /\ Holds(disk, req[r], on)
    BY <1>1, <1>2, <2>2 DEF TakesTurn, SoloReq, Reads
  <2>3. ASSUME ~overlap'
        PROVE  \A i \in DOMAIN disk.rows : disk.rows[i].status # "pending" =>
                      s.rows[i].status = disk.rows[i].status
    BY <2>1, <2>2, <2>3
  <2>4. applied \subseteq 1..MaxRows
    BY DEF MergeInv, QueueInv
  <2>. HIDE DEF s, reason, loaded
  <2>5. CASE /\ reason # "" /\ Commit(s) /\ Answer(r, "pending") /\ UNCHANGED applied
    <3>1. ASSUME ~overlap' PROVE Decided(s, applied', live, on')
      <4>1. StagedRow(db.rows[m], loaded, reason).status = "pending"
        BY <2>1, <2>2, <2>5, <3>1 DEF StagedRow, Row
      <4>. QED
        BY <1>5, <2>1, <2>2, <2>5, <3>1, <4>1 DEF Decided
    <3>. QED
      BY <1>2, <1>5, <2>1, <2>3, <2>4, <2>5, <3>1, Committed
  <2>6. CASE /\ reason = "" /\ n \in req[r].streams /\ Commit(s) /\ Answer(r, "merged")
             /\ applied' = applied \cup {m}
    <3>1. ASSUME ~overlap' PROVE Decided(s, applied', live, on')
      <4>1. s.rows[m].reason = "" /\ s.rows[m].name = n /\ s.rows[m].chan = db.rows[m].chan
        BY <1>3, <2>1, <2>2, <2>6, <3>1 DEF StagedRow, Assign, Row
      <4>2. n \in on[db.rows[m].chan]
        BY <2>2, <2>6, <3>1 DEF Holds
      <4>. QED
        BY <1>5, <2>1, <2>2, <2>6, <3>1, <4>1, <4>2 DEF Decided
    <3>2. applied' \subseteq 1..MaxRows
      BY <1>3, <2>4, <2>6
    <3>. QED
      BY <1>2, <1>5, <2>1, <2>3, <2>6, <3>1, <3>2, Committed
  <2>7. CASE /\ reason = "" /\ Flush(s) /\ UNCHANGED applied
             /\ req' = [req EXCEPT ![r] = [pc |-> "patch", row |-> m,
                            streams |-> req[r].streams, entry |-> Len(s.audit)]]
    <3>. DEFINE x == [pc |-> "patch", row |-> m,
                      streams |-> req[r].streams, entry |-> Len(s.audit)]
    <3>1. db' = s /\ disk' = disk
      BY <2>7 DEF Flush
    <3>2. SameRows(db', disk')
      <4>1. \A i \in DOMAIN disk.rows :
               s.rows[i].name = db.rows[i].name /\ s.rows[i].chan = db.rows[i].chan
        <5>1. /\ StagedRow(db.rows[m], loaded, reason).name = db.rows[m].name
              /\ StagedRow(db.rows[m], loaded, reason).chan = db.rows[m].chan
          BY <2>1 DEF StagedRow, Row
        <5>. QED
          BY <2>1, <5>1
      <4>2. SameRows(db, disk)
        BY DEF MergeInv, QueueInv
      <4>. QED
        BY <2>1, <3>1, <4>1, <4>2 DEF SameRows
    <3>3. Request(disk, x)
      BY <1>3 DEF Request, Accepting
    <3>4. ASSUME ~overlap' PROVE SoloReq(db', disk', x, on')
      <4>1. StagedRow(disk.rows[m], loaded, reason)
              = [disk.rows[m] EXCEPT !.status = "merged", !.reason = ""]
        <5>1. Assign(loaded, disk.rows[m].reason, reason) = ""
          BY <2>2, <2>7, <3>4 DEF Assign
        <5>2. disk.rows[m] \in Row
          BY <1>3 DEF MergeInv, QueueInv, StoreInv, StoreType
        <5>. QED
          BY <2>7, <5>1, <5>2 DEF StagedRow, Row
      <4>2. Staged(db', disk', x)
        BY <2>1, <2>2, <3>1, <3>4, <4>1 DEF Staged
      <4>3. Holds(disk', x, on')
        BY <1>5, <2>2, <3>1, <3>4 DEF Holds
      <4>. QED
        BY <4>2, <4>3 DEF SoloReq
    <3>5. MergeInv'
      BY <1>2, <1>5, <2>1, <2>2, <2>4, <2>7, <3>1, <3>2, <3>3, <3>4, StepOf
         DEF TakesTurn, MergeInv, QueueInv
    <3>. QED
      BY <3>1, <3>5 DEF Kept, KeepsDecision
  <2>. QED
    BY <1>7, <2>5, <2>6, <2>7 DEF resolve_and_stage, s, reason, loaded
<1>. QED
  BY <1>6, <1>7 DEF resolve_and_stage

(* The row a request at its PATCH works on.                                *)
LEMMA AtPatch ==
  ASSUME MergeInv, NEW r \in Requests, req[r].pc = "patch"
  PROVE  /\ req[r].row \in DOMAIN disk.rows /\ req[r].row \in 1..MaxRows
         /\ disk.rows[req[r].row] \in Row /\ req[r].streams \subseteq Names
         /\ db.rows[req[r].row].name = disk.rows[req[r].row].name
         /\ db.rows[req[r].row].chan = disk.rows[req[r].row].chan
  BY PendingMergesAssumption
     DEF MergeInv, QueueInv, Request, Accepting, StoreInv, StoreType, SameRows

(* The write of the whole list loses the stream of no merged row.          *)
LEMMA Lands ==
  ASSUME MergeInv, NEW r \in Requests, req[r].pc = "patch", Land(r)
  PROVE  /\ on' \in [Channels -> SUBSET Names]
         /\ TakesTurn(r) /\ ~overlap' =>
              /\ Decided(disk, applied, live, on')
              /\ disk.rows[req[r].row].name \in on'[disk.rows[req[r].row].chan]
<1>. DEFINE m == req[r].row
            c == disk.rows[m].chan
            n == disk.rows[m].name
<1>1. /\ m \in DOMAIN disk.rows /\ disk.rows[m] \in Row /\ req[r].streams \subseteq Names
      /\ db.rows[m].name = n /\ db.rows[m].chan = c
  BY AtPatch
<1>2. c \in Channels /\ n \in Names
  BY <1>1 DEF Row
<1>3. on' = [on EXCEPT ![c] = req[r].streams \cup {n}] /\ on \in [Channels -> SUBSET Names]
  BY <1>1 DEF Land, Patched, MergeInv, QueueInv
<1>4. on' \in [Channels -> SUBSET Names]
  BY <1>1, <1>2, <1>3
<1>5. ASSUME TakesTurn(r), ~overlap' PROVE Decided(disk, applied, live, on')
  <2>1. Decided(disk, applied, live, on) /\ Holds(disk, req[r], on)
    BY <1>5 DEF TakesTurn, SoloReq
  <2>2. \A k \in DOMAIN disk.rows : disk.rows[k] \in Row
    BY DEF MergeInv, QueueInv, StoreInv, StoreType
  <2>3. \A d \in Channels : on'[d] = IF d = c THEN req[r].streams \cup {n} ELSE on[d]
    BY <1>3
  <2>. QED
    BY <2>1, <2>2, <2>3 DEF Decided, Holds, Row
<1>6. n \in on'[c]
  BY <1>2, <1>3
<1>. QED
  BY <1>4, <1>5, <1>6

LEMMA AfterPatchKeeps ==
  ASSUME MergeInv, NEW r \in Requests, after_patch(r)
  PROVE  MergeInv' /\ Kept
<1>. DEFINE m == req[r].row
<1>1. req[r].pc = "patch" /\ Land(r) /\ applied' = applied \cup {m}
      /\ catalog' = catalog /\ live' = live /\ overlap' = overlap
  BY DEF after_patch
<1>2. TakesTurn(r)
  BY <1>1, TurnGoesOn
<1>3. /\ m \in DOMAIN disk.rows /\ m \in 1..MaxRows
      /\ on' \in [Channels -> SUBSET Names] /\ applied' \subseteq 1..MaxRows
  BY <1>1, AtPatch, Lands DEF MergeInv, QueueInv
<1>4. ASSUME ~overlap'
      PROVE  /\ Decided(disk, applied', live, on') /\ Staged(db, disk, req[r])
             /\ disk.rows[m].name \in on'[disk.rows[m].chan]
  <2>1. Decided(disk, applied, live, on')
        /\ disk.rows[m].name \in on'[disk.rows[m].chan]
    BY <1>1, <1>2, <1>4, Lands
  <2>2. Decided(disk, applied', live, on')
    BY <1>1, <2>1 DEF Decided
  <2>3. Staged(db, disk, req[r])
    BY <1>1, <1>2, <1>4 DEF TakesTurn, SoloReq
  <2>. QED
    BY <2>1, <2>2, <2>3
<1>5. CASE Rollback /\ Answer(r, "error")
  BY <1>1, <1>2, <1>3, <1>4, <1>5, RolledBack
<1>6. ASSUME NEW a, Commit(db), Answer(r, a)
      PROVE  MergeInv' /\ Kept
  <2>1. StoreInv(db) /\ DOMAIN disk.rows = DOMAIN db.rows
    BY DEF MergeInv, QueueInv, SameRows, StoreInv, StoreType
  <2>2. ASSUME ~overlap'
        PROVE  /\ Decided(db, applied', live, on')
               /\ \A k \in DOMAIN disk.rows : disk.rows[k].status # "pending" =>
                      db.rows[k].status = disk.rows[k].status
    <3>1. \A k \in DOMAIN disk.rows : k # m => db.rows[k] = disk.rows[k]
      BY <1>4, <2>2 DEF Staged
    <3>2. db.rows[m] = [disk.rows[m] EXCEPT !.status = "merged", !.reason = ""]
          /\ disk.rows[m].status = "pending" /\ disk.rows[m] \in Row
      BY <1>1, <1>3, <1>4, <2>2, AtPatch DEF Staged
    <3>3. db.rows[m].reason = "" /\ db.rows[m].name = disk.rows[m].name
          /\ db.rows[m].chan = disk.rows[m].chan /\ m \in applied'
      BY <1>1, <3>2 DEF Row
    <3>. QED
      BY <1>4, <2>1, <2>2, <3>1, <3>2, <3>3 DEF Decided
  <2>. QED
    BY <1>1, <1>2, <1>3, <1>6, <2>1, <2>2, Committed
<1>. QED
  BY <1>5, <1>6 DEF after_patch

(* The PATCH failed or the request was cut off: the write landed, or not.  *)
LEMMA CutOffKeeps ==
  ASSUME MergeInv, NEW r \in Requests, NEW a, req[r].pc # "idle",
         Rollback, Answer(r, a), UNCHANGED <<catalog, live, applied, overlap>>,
         on' = on \/ (req[r].pc = "patch" /\ Land(r))
  PROVE  MergeInv' /\ Kept
<1>1. TakesTurn(r)
  BY TurnGoesOn
<1>2. CASE on' = on
  BY <1>1, <1>2, GivesUp
<1>3. CASE req[r].pc = "patch" /\ Land(r)
  <2>1. applied' = applied /\ applied \subseteq 1..MaxRows
    BY DEF MergeInv, QueueInv
  <2>. QED
    BY <1>1, <1>3, <2>1, Lands, RolledBack
<1>. QED
  BY <1>2, <1>3

LEMMA FailedOrCancelledKeeps ==
  ASSUME MergeInv, NEW r \in Requests, patch_failed(r) \/ cancelled(r)
  PROVE  MergeInv' /\ Kept
<1>1. CASE patch_failed(r)
  BY <1>1, CutOffKeeps DEF patch_failed
<1>2. CASE cancelled(r)
  BY <1>2, CutOffKeeps DEF cancelled, Accepting
<1>. QED
  BY <1>1, <1>2

LEMMA DismissKeeps ==
  ASSUME MergeInv, NEW r \in Requests, NEW m \in 1..MaxRows, dismiss_pending_merge(r, m)
  PROVE  MergeInv' /\ Kept
<1>. DEFINE x == [db.rows[m] EXCEPT !.status = "dismissed"]
            s == Dismissal(m)
<1>1. TakesTurn(r) /\ req[r].pc = "idle" /\ m \in DOMAIN db.rows
  BY TurnBegins DEF dismiss_pending_merge
<1>2. UNCHANGED <<catalog, live, on, applied>>
  BY DEF dismiss_pending_merge, upstream
<1>3. ASSUME NEW a, Rollback, Answer(r, a) PROVE MergeInv' /\ Kept
  BY <1>1, <1>2, <1>3, GivesUp
<1>4. CASE /\ db.rows[m].status = "pending" /\ Room /\ Commit(s) /\ Answer(r, "dismissed")
  <2>1. StoreInv(db) /\ Len(db.audit) < MaxAudit /\ DOMAIN disk.rows = DOMAIN db.rows
    BY <1>4 DEF MergeInv, QueueInv, SameRows, StoreInv, StoreType, Room
  <2>2. db.rows[m] \in Row
    BY <1>1, <2>1 DEF StoreInv, StoreType
  <2>3. x \in Row /\ x.name = db.rows[m].name /\ x.chan = db.rows[m].chan
        /\ x.status = "dismissed"
    BY <2>2 DEF Row
  <2>4. s = Log([db EXCEPT !.rows[m] = x], m, "merge_dismissed")
    BY <2>1 DEF Dismissal, StoreInv, StoreType
  <2>5. "merge_dismissed" \in Acts
    BY DEF Acts
  <2>. HIDE DEF x, s
  <2>6. /\ StoreInv(s) /\ DOMAIN s.rows = DOMAIN db.rows
        /\ \A i \in DOMAIN db.rows : s.rows[i] = IF i = m THEN x ELSE db.rows[i]
    <3>1. m \in DOMAIN db.rows
      BY <1>1
    <3>. QED
      BY <2>1, <2>3, <2>4, <2>5, <3>1, Redecided, SMTT(60)
  <2>7. ASSUME ~overlap'
        PROVE  /\ Decided(s, applied', live, on')
               /\ \A k \in DOMAIN disk.rows : disk.rows[k].status # "pending" =>
                      s.rows[k].status = disk.rows[k].status
    <3>1. db = disk /\ Decided(disk, applied, live, on)
      BY <1>1, <2>7 DEF TakesTurn, SoloReq
    <3>. QED
      BY <1>2, <1>4, <2>3, <2>6, <3>1 DEF Decided
  <2>8. /\ catalog' = catalog /\ live' = live
        /\ on' \in [Channels -> SUBSET Names] /\ applied' \subseteq 1..MaxRows
    BY <1>2 DEF MergeInv, QueueInv
  <2>. QED
    BY <1>1, <1>4, <2>1, <2>6, <2>7, <2>8, Committed
<1>. QED
  BY <1>3, <1>4 DEF dismiss_pending_merge

(* A request that only reads ends its session, which rolls back.           *)
LEMMA ReadKeeps ==
  ASSUME MergeInv, NEW r \in Requests, read_only(r)
  PROVE  MergeInv' /\ Kept
<1>1. TakesTurn(r) /\ req[r].pc = "idle" /\ req' = req
  BY TurnBegins DEF read_only
<1>2. db' = disk /\ disk' = disk
  BY DEF read_only, Rollback
<1>3. req' = [req EXCEPT ![r] = req[r]]
  BY <1>1 DEF MergeInv, QueueInv
<1>4. StoreInv(db') /\ StoreInv(disk') /\ SameRows(db', disk')
  BY <1>2 DEF MergeInv, QueueInv, SameRows
<1>5. Request(disk', req[r]) /\ SoloReq(db', disk', req[r], on')
  BY <1>1, <1>2 DEF MergeInv, QueueInv, SoloReq
<1>6. /\ catalog' = catalog /\ live' = live /\ on' = on /\ applied' = applied
      /\ on' \in [Channels -> SUBSET Names] /\ applied' \subseteq 1..MaxRows
  BY DEF read_only, upstream, MergeInv, QueueInv
<1>7. ~overlap' => Turn(r) /\ Decided(disk', applied', live, on')
  BY <1>1, <1>2, <1>6 DEF TakesTurn
<1>8. DOMAIN disk.rows \subseteq DOMAIN disk'.rows
  BY <1>2
<1>9. MergeInv'
  BY <1>1, <1>3, <1>4, <1>5, <1>6, <1>7, <1>8, StepOf DEF TakesTurn
<1>. QED
  BY <1>2, <1>9 DEF Kept, KeepsDecision

(* What happens in Dispatcharr: a name is listed anew, a stream is added,  *)
(* a channel goes.  Nothing there shrinks that Solo speaks of.             *)
LEMMA DispatcharrKeeps ==
  ASSUME MergeInv, UNCHANGED <<db, disk, req, applied, overlap>>,
         catalog' \in [Names -> 0..2], live' \subseteq live,
         on' \in [Channels -> SUBSET Names], \A c \in Channels : on[c] \subseteq on'[c]
  PROVE  MergeInv' /\ Kept
<1>1. QueueInv'
  BY DEF MergeInv, QueueInv
<1>2. \A m \in DOMAIN disk.rows : disk.rows[m].chan \in Channels
  <2>1. \A m \in DOMAIN disk.rows : disk.rows[m] \in Row
    BY DEF MergeInv, QueueInv, StoreInv, StoreType
  <2>. QED
    BY <2>1 DEF Row
<1>3. Solo'
  <2>. SUFFICES ASSUME ~overlap
                PROVE  /\ Decided(disk, applied, live', on')
                       /\ \A r \in Requests : req[r].pc # "idle" => Turn(r)'
                       /\ \A r \in Requests : Turn(r)' => SoloReq(db, disk, req[r], on')
    BY DEF Solo
  <2>1. \A r \in Requests : Turn(r)' <=> Turn(r)
    BY DEF Turn
  <2>2. Decided(disk, applied, live', on')
    BY <1>2 DEF MergeInv, Solo, Decided
  <2>3. ASSUME NEW r \in Requests, SoloReq(db, disk, req[r], on)
        PROVE  SoloReq(db, disk, req[r], on')
    <3>1. CASE req[r].pc \in {"lookup", "patch"}
      <4>1. req[r].row \in DOMAIN disk.rows
        BY <3>1 DEF MergeInv, QueueInv, Request, Accepting
      <4>2. Holds(disk, req[r], on')
        BY <1>2, <2>3, <3>1, <4>1 DEF SoloReq, Holds
      <4>. QED
        BY <2>3, <4>2 DEF SoloReq
    <3>2. CASE req[r].pc \notin {"lookup", "patch"}
      BY <2>3, <3>2 DEF SoloReq
    <3>. QED
      BY <3>1, <3>2
  <2>. QED
    BY <2>1, <2>2, <2>3 DEF MergeInv, Solo
<1>. QED
  BY <1>1, <1>3 DEF MergeInv, Kept, KeepsDecision

LEMMA OutsideKeeps ==
  ASSUME MergeInv,
         \/ \E n \in Names : Relist(n)
         \/ \E n \in Names, c \in Channels : AddByHand(n, c)
         \/ \E c \in Channels : DeleteChannel(c)
         \/ UNCHANGED vars
  PROVE  MergeInv' /\ Kept
<1>1. catalog \in [Names -> 0..2] /\ on \in [Channels -> SUBSET Names]
  BY DEF MergeInv, QueueInv
<1>2. CASE \E n \in Names : Relist(n)
  BY <1>1, <1>2, DispatcharrKeeps DEF Relist
<1>3. CASE \E n \in Names, c \in Channels : AddByHand(n, c)
  BY <1>1, <1>3, DispatcharrKeeps DEF AddByHand
<1>4. CASE \E c \in Channels : DeleteChannel(c)
  BY <1>1, <1>4, DispatcharrKeeps DEF DeleteChannel
<1>5. CASE UNCHANGED vars
  BY <1>1, <1>5, DispatcharrKeeps DEF vars
<1>. QED
  BY <1>2, <1>3, <1>4, <1>5

(* A restart: what was not committed is gone, with every request; a PATCH  *)
(* on its way may land.                                                    *)
LEMMA RestartKeeps ==
  ASSUME MergeInv, Restart
  PROVE  MergeInv' /\ Kept
<1>1. /\ db' = disk /\ disk' = disk /\ req' = [r \in Requests |-> Idle(NoAnswer)]
      /\ catalog' = catalog /\ live' = live /\ applied' = applied /\ overlap' = overlap
  BY DEF Restart, Rollback
<1>2. \A r \in Requests : req'[r].pc = "idle"
  BY <1>1 DEF Idle
<1>3. \A r \in Requests : Request(disk', req'[r]) /\ SoloReq(db', disk', req'[r], on')
  BY <1>1, <1>2 DEF Request, SoloReq, Accepting
<1>4. on' \in [Channels -> SUBSET Names] /\ (~overlap => Decided(disk, applied, live, on'))
  <2>1. CASE on' = on
    BY <2>1 DEF MergeInv, QueueInv, Solo
  <2>2. ASSUME NEW r \in Requests, req[r].pc = "patch", Land(r)
        PROVE  on' \in [Channels -> SUBSET Names] /\ (~overlap => Decided(disk, applied, live, on'))
    <3>1. TakesTurn(r)
      BY <1>1, <2>2, TurnGoesOn
    <3>. QED
      BY <1>1, <2>2, <3>1, Lands
  <2>. QED
    BY <2>1, <2>2 DEF Restart
<1>5. SameRows(db', disk')
  BY <1>1 DEF SameRows
<1>6. QueueInv'
  BY <1>1, <1>3, <1>4, <1>5 DEF MergeInv, QueueInv
<1>7. Solo'
  BY <1>1, <1>2, <1>3, <1>4 DEF Solo
<1>. QED
  BY <1>1, <1>6, <1>7 DEF MergeInv, Kept, KeepsDecision

LEMMA NextKeeps == MergeInv /\ [Next]_vars => MergeInv' /\ Kept
  BY FetchKeeps, EnqueueKeeps, AcceptKeeps, DismissKeeps, GetChannelKeeps, ResolveKeeps,
     AfterPatchKeeps, FailedOrCancelledKeeps, ReadKeeps, OutsideKeeps, RestartKeeps
     DEF Next

-----------------------------------------------------------------------------
(***************************************************************************)
(* The inductive invariant: both readings of the tables are sound at every *)
(* point where another session may commit or roll back, and requests that  *)
(* took turns know what they staged.                                       *)
(***************************************************************************)
THEOREM MergesCorrect == Spec => []MergeInv
<1>1. Init => MergeInv
  BY InitInv
<1>2. MergeInv /\ [Next]_vars => MergeInv'
  BY NextKeeps
<1>. QED
  BY <1>1, <1>2, PTL DEF Spec

LEMMA AtMostOne ==
  ASSUME NEW S, \A i, j \in S : i = j
  PROVE  Cardinality(S) <= 1
<1>1. CASE S = {}
  BY <1>1, FS_EmptySet
<1>2. CASE S # {}
  <2>1. PICK i \in S : TRUE
    BY <1>2
  <2>2. S = {i}
    BY <2>1
  <2>3. Cardinality({i}) = 1
    BY FS_Singleton
  <2>. QED
    BY <2>2, <2>3
<1>. QED
  BY <1>1, <1>2

(***************************************************************************)
(* For any number of overlapping requests, restarts and failed calls, no   *)
(* pair of stream and candidate is queued twice and no committed row       *)
(* stands without the audit rows that explain it; and no merged row keeps  *)
(* the reason of an earlier attempt unless requests overlapped.            *)
(***************************************************************************)
THEOREM QueueCorrect == Spec => []QueueIsSound
<1>1. MergeInv => QueueIsSound
  <2>. SUFFICES ASSUME MergeInv PROVE QueueIsSound
    OBVIOUS
  <2>1. TypeOK
    BY DEF MergeInv, QueueInv, StoreInv, StoreType, StoreOK, Request, TypeOK
  <2>2. OneQueuedPerPair
    <3>. SUFFICES ASSUME NEW n \in Names, NEW c \in Channels, NEW s \in {db, disk}
                  PROVE  Cardinality({i \in DOMAIN s.rows :
                            s.rows[i].name = n /\ s.rows[i].chan = c
                              /\ s.rows[i].status = "pending"}) <= 1
      BY DEF OneQueuedPerPair
    <3>1. Unique(s)
      BY DEF MergeInv, QueueInv, StoreInv
    <3>. QED
      BY <3>1, AtMostOne DEF Unique
  <2>3. DecisionsAreAudited
    BY DEF MergeInv, QueueInv, StoreInv, Audited, DecisionsAreAudited
  <2>4. ~overlap => NoStaleReason
    BY DEF MergeInv, Solo, Decided, NoStaleReason
  <2>. QED
    BY <2>1, <2>2, <2>3, <2>4 DEF QueueIsSound
<1>. QED
  BY <1>1, MergesCorrect, PTL

(***************************************************************************)
(* As long as requests took turns, a row that says merged was applied by   *)
(* its accept, and no later accept, which writes a channel's whole stream  *)
(* list, takes its stream off the channel: whatever was cut off, lost its  *)
(* answer, or was restarted in between.                                    *)
(***************************************************************************)
THEOREM MergedCorrect == Spec => []MergedMeansApplied
<1>1. MergeInv => MergedMeansApplied
  BY DEF MergeInv, Solo, Decided, MergedMeansApplied, MergedWasApplied,
         MergedStaysApplied, Settled
<1>. QED
  BY <1>1, MergesCorrect, PTL

(***************************************************************************)
(* No step of requests that took turns revises a committed decision.       *)
(***************************************************************************)
THEOREM DecisionsCorrect == Spec => DecisionKept
<1>1. MergeInv /\ [Next]_vars =>
        [~overlap' => \A m \in DOMAIN disk.rows : KeepsDecision(m)]_vars
  BY NextKeeps DEF Kept
<1>. QED
  BY <1>1, MergesCorrect, PTL DEF Spec, DecisionKept
=============================================================================
