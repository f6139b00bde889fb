-------------------------- MODULE PipelineRevertProofs --------------------------
(***************************************************************************)
(* What PipelineRevert promises of a revert, proved for every number of     *)
(* channels, streams, reverts, failures and restarts.                       *)
(*                                                                          *)
(* The argument: after the run nothing changes what a revert goes by (the   *)
(* snapshot, the journal, the recorded modifications), so the list of every *)
(* revert is known from them; each item worked off leaves its channel as it *)
(* should be, and whatever another revert writes to it later does too.      *)
(***************************************************************************)
EXTENDS PipelineRevert, FiniteSetTheorems, TLAPS

Over == run.pc \in {"saved", "raised", "dead"}

-----------------------------------------------------------------------------
(* The inductive invariant *)

\* Where the run is, and what that says of the rest.
Phases ==
  /\ run.pc = "none" => row.status = "none" /\ \A u \in Reverts : rev[u].pc = "idle"
  /\ run.pc = "none" /\ edits = 0 => ch = Start
  /\ run.pc = "loaded" /\ edits = 0 => run.cache = Start
  /\ run.pc \in {"none", "loaded"} =>
       /\ ~snap.taken /\ ~made /\ ~run.made
       /\ journal = <<>> /\ run.log = <<>> /\ run.buffer = <<>>
  /\ run.pc # "saved" => ~row.created /\ row.modified = <<>>
  /\ run.pc = "saved" => row.created = run.made /\ row.modified = run.log

\* When a revert can have begun, and by which way.
RevertPhases ==
  \A u \in Reverts :
    /\ rev[u].pc = "idle" <=> rev[u].via = "none"
    /\ rev[u].pc = "idle" => rev[u].at = 1 /\ rev[u].todo = <<>> /\ ~rev[u].doomed /\ ~rev[u].holds
    /\ rev[u].holds => ~rev[u].doomed
    /\ Begun(u) /\ ~rev[u].early => Over
    /\ rev[u].via \in {"surgical", "legacy"} => run.pc = "saved" /\ ~rev[u].early
    /\ rev[u].via \in {"snapshot", "surgical"} => snap.taken
    /\ rev[u].via = "legacy" => ~snap.taken

\* The list of a revert, from what it goes by.
Lists ==
  \A u \in Reverts :
    /\ rev[u].via = "snapshot" => \E q \in Orders(DOMAIN snap.of) : rev[u].todo = SnapshotWrites(q)
    /\ rev[u].via = "surgical" => /\ \E q \in Orders(Merged) : rev[u].todo = Unmerges(q)
                                  /\ Len(journal) <= PageSize /\ Len(journal) = Len(row.modified)
    /\ rev[u].via = "legacy" /\ journal # <<>> => \E q \in Orders(Merged) : rev[u].todo = Unmerges(q)
    /\ rev[u].via = "legacy" /\ journal = <<>> => rev[u].todo = Restores

\* The row says rolled_back because of a revert that finished its list.
Marked ==
  row.status = "rolled_back" =>
    \E u \in Reverts :
      /\ rev[u].pc = "done" /\ ~rev[u].doomed /\ ~rev[u].failed /\ rev[u].at > Len(rev[u].todo)
      /\ mark.via = rev[u].via /\ mark.early = rev[u].early

\* The metadata of masters is Dispatcharr's.
MastersOwn ==
  /\ \A i \in DOMAIN run.log : run.log[i].c \in Masters => run.log[i].f = "streams"
  /\ edits = 0 => \A c \in Masters : ch[c].key = "old"

\* The snapshot is the state before the run, and a channel a snapshot restore
\* has passed without a failure is as in the snapshot.
SnapshotIsStart ==
  edits = 0 => \A c \in DOMAIN snap.of : snap.of[c].streams = StartStreams[c] /\ snap.of[c].key = "old"

Exact(chs, c) == chs[c].streams = StartStreams[c] /\ (c \notin Masters => chs[c].key = "old")
NoSurgical == \A u \in Reverts : rev[u].via # "surgical"

Restored ==
  edits = 0 /\ NoSurgical =>
    \A u \in Reverts : rev[u].via = "snapshot" /\ ~rev[u].early /\ ~rev[u].failed =>
      \A i \in DOMAIN rev[u].todo : i < rev[u].at => Exact(ch, rev[u].todo[i].c)

\* What the run created, when no call failed.
CreatedKnown ==
  faults = 0 =>
    /\ made => run.made
    /\ run.pc = "saved" => \A u \in Reverts : Begun(u) /\ ~rev[u].early /\ ~rev[u].doomed => ~made

\* Every stream that was not there before is accounted for by a journal entry.
Entered(q, c, s) == \E i \in DOMAIN q : q[i].c = c /\ q[i].s = s
Known(j, b, S, c) == \A s \in S : s \in StartStreams[c] \/ Entered(j, c, s) \/ Entered(b, c, s)

Accounted ==
  edits = 0 /\ faults = 0 =>
    /\ \A c \in Channels : Known(journal, run.buffer, ch[c].streams, c) /\ Known(journal, run.buffer, run.cache[c].streams, c)
    /\ \A i \in DOMAIN run.log :
         run.log[i].f = "streams" => Known(journal, run.buffer, run.log[i].prev, run.log[i].c)
    /\ \A u \in Reverts :
         Busy(u, "take") /\ rev[u].holds => Known(journal, run.buffer, rev[u].seen, Current(u).c)

\* Every entry was recorded as a modification too.
Merging(i, c) == run.log[i].c = c /\ run.log[i].f = "streams" /\ run.log[i].type = "channel"
Recorded ==
  /\ Len(journal) + Len(run.buffer) <= Len(run.log)
  /\ \A i \in DOMAIN journal : \E k \in DOMAIN run.log : Merging(k, journal[i].c)
  /\ \A i \in DOMAIN run.buffer : \E k \in DOMAIN run.log : Merging(k, run.buffer[i].c)

\* A channel that a revert has worked off has no stream of the run left.
Whole == run.buffer = <<>> /\ Len(journal) <= PageSize
Cleared ==
  edits = 0 /\ faults = 0 =>
    \A u \in Reverts :
      Begun(u) /\ ~rev[u].early /\ (rev[u].via = "legacy" => journal # <<>> /\ Whole) =>
        \A i \in DOMAIN rev[u].todo :
          i < rev[u].at => ch[rev[u].todo[i].c].streams \subseteq StartStreams[rev[u].todo[i].c]

\* The first modification of a field recorded what was there before the run.
Same(i, j) == run.log[i].c = run.log[j].c /\ run.log[i].f = run.log[j].f
Oldest(o) ==
  /\ run.log[o].type = "channel"
  /\ \A j \in DOMAIN run.log : j < o /\ run.log[j].type = "channel" => ~Same(j, o)

FirstIsStart ==
  edits = 0 =>
    /\ \A i \in DOMAIN run.log :
         (\A j \in DOMAIN run.log : j < i => ~Same(j, i)) =>
           run.log[i].prev = Start[run.log[i].c][run.log[i].f]
    /\ \A o \in DOMAIN run.log :
         Oldest(o) /\ run.log[o].f = "streams" => run.log[o].prev \subseteq StartStreams[run.log[o].c]
    /\ run.pc \in {"rules", "attach"} => \A c \in Channels, f \in Fields :
         (\A j \in DOMAIN run.log : ~(run.log[j].c = c /\ run.log[j].f = f)) =>
           run.cache[c][f] = Start[c][f]
    /\ run.pc \in Working => \A c \in Channels :
         (\A j \in DOMAIN run.log : ~Merging(j, c)) => run.cache[c].streams \subseteq StartStreams[c]

HasOldest ==
  \A i \in DOMAIN run.log : run.log[i].type = "channel" =>
    \E o \in DOMAIN run.log : o <= i /\ Oldest(o) /\ Same(o, i)

\* A field that some rollback has put back has the oldest value, or a rollback
\* has the oldest value still on its list.
At(i) == Len(run.log) + 1 - i
PutBackLast ==
  edits = 0 /\ faults = 0 /\ journal = <<>> =>
    \A u \in Reverts : rev[u].via = "legacy" =>
      \A o \in DOMAIN run.log : Oldest(o) =>
        \A i \in DOMAIN run.log : run.log[i].type = "channel" /\ Same(o, i) /\ At(i) < rev[u].at =>
          \/ ch[run.log[o].c][run.log[o].f] = run.log[o].prev
          \/ \E v \in Reverts : rev[v].via = "legacy" /\ rev[v].at <= At(o)

\* What others added after the run is in the channels and in every list read.
ByJournal == \A u \in Reverts : rev[u].via # "snapshot" /\ (rev[u].via = "legacy" => journal # <<>>)
OutsideKept ==
  /\ ~Over => \A c \in Channels : outside[c] = {}
  /\ \A c \in Channels : \A s \in outside[c] :
       \A i \in DOMAIN journal : journal[i].c = c => journal[i].s # s
  /\ ByJournal =>
       /\ \A c \in Channels : outside[c] \subseteq ch[c].streams
       /\ \A u \in Reverts : Busy(u, "take") /\ rev[u].holds => outside[Current(u).c] \subseteq rev[u].seen

IInv ==
  /\ TypeOK /\ Phases /\ RevertPhases /\ Lists /\ Marked
  /\ MastersOwn /\ SnapshotIsStart /\ Restored /\ CreatedKnown
  /\ Recorded /\ Accounted /\ Cleared
  /\ FirstIsStart /\ HasOldest /\ PutBackLast /\ OutsideKept

-----------------------------------------------------------------------------
(* The operators the model is built from *)

\* Writing a payload to a channel changes the fields it names, of that channel.
LEMMA WithFacts ==
  ASSUME NEW chs \in [Channels -> Channel], NEW c \in Channels, NEW vals \in Payload
  PROVE  /\ With(chs, c, vals) \in [Channels -> Channel]
         /\ \A d \in Channels : d # c => With(chs, c, vals)[d] = chs[d]
         /\ \A f \in Fields :
              With(chs, c, vals)[c][f] = IF f \in DOMAIN vals THEN vals[f] ELSE chs[c][f]
<1> DEFINE new == [f \in Fields |-> IF f \in DOMAIN vals THEN vals[f] ELSE chs[c][f]]
<1>1. chs[c] \in Channel
  OBVIOUS
<1>2. CASE vals \in [streams : SUBSET Streams]
  <2>1. DOMAIN vals = {"streams"} /\ vals["streams"] \in SUBSET Streams
    BY <1>2
  <2> QED  BY <1>1, <2>1 DEF Channel, Fields, With
<1>3. CASE vals \in [streams : SUBSET Streams, key : Values]
  <2>1. DOMAIN vals = {"streams", "key"} /\ vals["streams"] \in SUBSET Streams /\ vals["key"] \in Values
    BY <1>3
  <2> QED  BY <1>1, <2>1 DEF Channel, Fields, With
<1>4. CASE vals \in [key : Values]
  <2>1. DOMAIN vals = {"key"} /\ vals["key"] \in Values
    BY <1>4
  <2> QED  BY <1>1, <2>1 DEF Channel, Fields, With
<1>5. CASE vals \in [other : Values]
  <2>1. DOMAIN vals = {"other"} /\ vals["other"] \in Values
    BY <1>5
  <2> QED  BY <1>1, <2>1 DEF Channel, Fields, With
<1> QED  BY <1>2, <1>3, <1>4, <1>5 DEF Payload

\* The same of a payload of one field.
LEMMA OnlyStreams ==
  ASSUME NEW v \in SUBSET Streams
  PROVE  Only("streams", v) \in Payload /\ DOMAIN Only("streams", v) = {"streams"}
         /\ Only("streams", v)["streams"] = v
BY DEF Only, Payload

LEMMA OnlyValue ==
  ASSUME NEW f \in {"key", "other"}, NEW v \in Values
  PROVE  Only(f, v) \in Payload /\ DOMAIN Only(f, v) = {f} /\ Only(f, v)[f] = v
BY DEF Only, Payload

\* A channel's fields, by name.
LEMMA FieldTypes ==
  ASSUME NEW r \in Channel
  PROVE  /\ r["streams"] = r.streams /\ r["key"] = r.key /\ r["other"] = r.other
         /\ r.streams \in SUBSET Streams /\ r.key \in Values /\ r.other \in Values
         /\ DOMAIN r = Fields
BY DEF Channel, Fields

\* Writing a stream list changes only the streams of the channel.
LEMMA WithStreams ==
  ASSUME NEW chs \in [Channels -> Channel], NEW c \in Channels, NEW v \in SUBSET Streams
  PROVE  LET new == With(chs, c, Only("streams", v)) IN
         /\ new \in [Channels -> Channel]
         /\ \A d \in Channels : d # c => new[d] = chs[d]
         /\ new[c].streams = v /\ new[c].key = chs[c].key /\ new[c].other = chs[c].other
         /\ new[c]["key"] = chs[c]["key"] /\ new[c]["other"] = chs[c]["other"]
<1> DEFINE vals == Only("streams", v)
           new == With(chs, c, vals)
<1>1. vals \in Payload /\ DOMAIN vals = {"streams"} /\ vals["streams"] = v
  BY OnlyStreams
<1> HIDE DEF vals
<1>2. new \in [Channels -> Channel] /\ \A d \in Channels : d # c => new[d] = chs[d]
  BY <1>1, WithFacts
<1>3. \A f \in Fields : new[c][f] = IF f \in DOMAIN vals THEN vals[f] ELSE chs[c][f]
  BY <1>1, WithFacts
<1>4. new[c]["streams"] = v /\ new[c]["key"] = chs[c]["key"] /\ new[c]["other"] = chs[c]["other"]
  BY <1>1, <1>3 DEF Fields
<1> HIDE DEF new
<1>5. new[c] \in Channel /\ chs[c] \in Channel
  BY <1>2
<1>6. new[c].streams = v /\ new[c].key = chs[c].key /\ new[c].other = chs[c].other
  BY <1>4, <1>5, FieldTypes
<1> QED  BY <1>2, <1>4, <1>6 DEF new, vals

\* Writing another field leaves the streams.
LEMMA WithValue ==
  ASSUME NEW chs \in [Channels -> Channel], NEW c \in Channels, NEW f \in {"key", "other"}, NEW v \in Values
  PROVE  LET new == With(chs, c, Only(f, v)) IN
         /\ new \in [Channels -> Channel]
         /\ \A d \in Channels : d # c => new[d] = chs[d]
         /\ new[c].streams = chs[c].streams /\ new[c][f] = v
         /\ \A g \in Fields : g # f => new[c][g] = chs[c][g]
<1> DEFINE vals == Only(f, v)
           new == With(chs, c, vals)
<1>1. vals \in Payload /\ DOMAIN vals = {f} /\ vals[f] = v
  BY OnlyValue
<1> HIDE DEF vals
<1>2. new \in [Channels -> Channel] /\ \A d \in Channels : d # c => new[d] = chs[d]
  BY <1>1, WithFacts
<1>3. \A g \in Fields : new[c][g] = IF g \in DOMAIN vals THEN vals[g] ELSE chs[c][g]
  BY <1>1, WithFacts
<1>4. new[c]["streams"] = chs[c]["streams"] /\ new[c][f] = v
      /\ \A g \in Fields : g # f => new[c][g] = chs[c][g]
  BY <1>1, <1>3 DEF Fields
<1> HIDE DEF new
<1>5. new[c] \in Channel /\ chs[c] \in Channel
  BY <1>2
<1>6. new[c].streams = chs[c].streams
  BY <1>4, <1>5, FieldTypes
<1> QED  BY <1>2, <1>4, <1>6 DEF new, vals

\* What an answer of Dispatcharr costs.
LEMMA CallFacts ==
  ASSUME TypeOK, NEW a \in Answers, CallCost(a)
  PROVE  /\ faults' \in 0 .. MaxFaults /\ (faults' = 0 => faults = 0 /\ a = "ok")
         /\ a \in {"ok", "refused", "unanswered"}
BY RevertAssumption DEF TypeOK, Answers, CallCost, Count

LEMMA WriteFacts ==
  ASSUME TypeOK, NEW ok \in Works, WriteCost(ok)
  PROVE  lapses' \in 0 .. MaxLapses /\ ok \in BOOLEAN
<1>1. ok \in BOOLEAN /\ (~ok => lapses < MaxLapses)
  BY Zenon DEF Works
<1>2. lapses' = lapses + (IF ok THEN 0 ELSE 1)
  BY <1>1 DEF WriteCost, Count
<1>3. lapses \in 0 .. MaxLapses /\ MaxLapses \in Nat
  BY RevertAssumption DEF TypeOK
<1> QED  BY <1>1, <1>2, <1>3

-----------------------------------------------------------------------------
(* The steps, by what they do to the state the invariant is about *)

Books == <<run.cache, run.log, run.buffer, journal>>

StepLoad ==
  /\ run.pc = "none" /\ run'.pc = "loaded" /\ run'.cache = ch
  /\ run'.log = run.log /\ run'.buffer = run.buffer /\ run'.made = run.made
  /\ row'.status = "running" /\ row'.created = row.created /\ row'.modified = row.modified
  /\ UNCHANGED <<ch, made, snap, journal, rev, mark, outside, edits>>
  /\ faults' = 0 => faults = 0

StepCapture ==
  /\ run.pc = "loaded" /\ run'.pc = "rules"
  /\ run'.cache = run.cache /\ run'.log = run.log /\ run'.buffer = run.buffer /\ run'.made = run.made
  /\ \/ ~snap'.taken /\ DOMAIN snap'.of = {}
     \/ snap'.taken /\ \A c \in DOMAIN snap'.of : c \in Channels /\ snap'.of[c] = run.cache[c]
  /\ UNCHANGED <<ch, made, row, journal, rev, mark, outside, edits, faults>>

\* A write of the run to a field of a channel: who may be written.
Target(c, f) ==
  /\ c \in Channels /\ (c \in Masters => f = "streams")
  /\ run.pc \in {"rules", "attach"} /\ run'.pc \in {"rules", "attach"}
  /\ run'.made = run.made /\ UNCHANGED <<made, row, snap, rev, mark, outside, edits>>

Writes(c, f, v, type) ==
  /\ Target(c, f)
  /\ ch' = With(ch, c, Only(f, v))
  /\ run'.cache = With(run.cache, c, Only(f, v))
  /\ run'.log = Append(run.log, [c |-> c, type |-> type, f |-> f, prev |-> run.cache[c][f]])
  /\ UNCHANGED faults

StepAdd(c, e) ==
  /\ e \in Entry /\ e.c = c
  /\ Writes(c, "streams", run.cache[c].streams \cup {e.s}, "channel")
  /\ \/ run'.buffer = Append(run.buffer, e) /\ journal' = journal
     \/ run'.buffer = <<>> /\ journal' = journal \o Append(run.buffer, e)

StepRemove(c, v) ==
  /\ v \subseteq run.cache[c].streams
  /\ Writes(c, "streams", v, "stream")
  /\ run'.buffer = run.buffer /\ journal' = journal

StepUpdate(c, f) ==
  /\ f \in {"key", "other"} /\ run.cache[c][f] = "old"
  /\ Writes(c, f, "new", "channel")
  /\ run'.buffer = run.buffer /\ journal' = journal

\* A write that answered an error.
StepBlind(c, vals) ==
  /\ c \in Channels /\ vals \in Payload /\ (c \in Masters => "key" \notin DOMAIN vals)
  /\ run.pc \in Working /\ run'.pc \in Working
  /\ run.pc = "prune" => run'.pc = "prune"
  /\ ch' = ch \/ ch' = With(ch, c, vals)
  /\ run'.made = run.made /\ UNCHANGED <<Books, made, row, snap, rev, mark, outside, edits>>
  /\ faults' # 0

StepPrune(c, v) ==
  /\ c \in Channels /\ v \subseteq run.cache[c].streams
  /\ run.pc \in Working /\ run'.pc = "prune"
  /\ ch' = With(ch, c, Only("streams", v))
  /\ run'.cache = With(run.cache, c, Only("streams", v))
  /\ run'.log = run.log /\ run'.buffer = run.buffer /\ run'.made = run.made
  /\ UNCHANGED <<journal, made, row, snap, rev, mark, outside, edits, faults>>

\* A match that counts for the pruning only, or the creation of a channel.
StepOther ==
  /\ run.pc \in Working /\ run'.pc = run.pc
  /\ UNCHANGED <<Books, ch, row, snap, rev, mark, outside, edits>>
  /\ faults' = 0 => faults = 0
  /\ \/ made' = made /\ run'.made = run.made
     \/ faults' = 0 => (made' => run'.made)

StepEnd ==
  /\ run.pc \in Working /\ run'.pc \in {"saved", "raised"}
  /\ run'.cache = run.cache /\ run'.log = run.log /\ run'.made = run.made
  /\ \/ run'.buffer = <<>> /\ journal' = journal \o run.buffer
     \/ run'.buffer = run.buffer /\ journal' = journal
  /\ \/ run'.pc = "saved" /\ row'.created = run.made /\ row'.modified = run.log
     \/ run'.pc = "raised" /\ row'.created = row.created /\ row'.modified = row.modified
  /\ row'.status = "rolled_back" => row.status = "rolled_back"
  /\ UNCHANGED <<ch, made, snap, rev, mark, outside, edits, faults>>

\* A revert whose process died.
CutOff(r, s) ==
  /\ r.pc = "work" /\ s.pc = "done" /\ s.via = r.via /\ s.doomed = r.doomed /\ s.todo = r.todo
  /\ s.at = r.at /\ s.holds = r.holds /\ s.seen = r.seen /\ s.failed = r.failed /\ s.early = r.early

StepCrash ==
  /\ run'.pc = (IF RunAlive THEN "dead" ELSE run.pc)
  /\ run'.made = run.made /\ UNCHANGED <<Books, ch, made, snap, mark, outside, edits, faults>>
  /\ row'.created = row.created /\ row'.modified = row.modified
  /\ row'.status = "rolled_back" => row.status = "rolled_back"
  /\ row.status = "none" => row'.status = "none"
  /\ \A u \in Reverts : rev'[u] = rev[u] \/ CutOff(rev[u], rev'[u])

\* What a revert goes by; a step of a revert leaves it and the run alone.
Sources == <<snap, journal, run, outside, edits>>
OthersStay(u) == \A w \in Reverts : w # u => rev'[w] = rev[w]
\* What a step of a revert keeps of its own state, once it has begun.
Stays(u) ==
  /\ rev'[u].via = rev[u].via /\ rev'[u].todo = rev[u].todo /\ rev'[u].early = rev[u].early
  /\ OthersStay(u) /\ UNCHANGED Sources
Advances(u) ==
  /\ Stays(u) /\ rev[u].pc = "work" /\ rev'[u].pc = "work"
  /\ ~rev[u].doomed /\ ~rev'[u].doomed /\ ~rev'[u].holds
  /\ rev[u].at <= Len(rev[u].todo) /\ rev'[u].at = rev[u].at + 1
  /\ UNCHANGED <<made, row, mark>>

StepBegin(u, via, todo) ==
  /\ rev[u].pc = "idle" /\ row.status \notin {"none", "rolled_back"}
  /\ rev'[u].pc = "work" /\ rev'[u].via = via /\ rev'[u].doomed = row.created
  /\ rev'[u].todo = todo /\ rev'[u].early = RunAlive
  /\ rev'[u].at = rev[u].at /\ rev'[u].holds = rev[u].holds /\ rev'[u].failed = rev[u].failed
  /\ OthersStay(u) /\ UNCHANGED <<Sources, ch, made, row, mark, faults>>

StepBeginSnapshot(u) ==
  \E q \in Orders(DOMAIN snap.of) : snap.taken /\ StepBegin(u, "snapshot", SnapshotWrites(q))
StepBeginSurgical(u) ==
  \E q \in Orders(Merged) :
    snap.taken /\ JournalCovers(row.created, row.modified) /\ StepBegin(u, "surgical", Unmerges(q))
StepBeginLegacy(u) ==
  \E q \in Orders(Merged) :
    /\ ~snap.taken /\ (row.created \/ row.modified # <<>>)
    /\ StepBegin(u, "legacy", IF journal # <<>> THEN Unmerges(q) ELSE Restores)

StepDelete(u) ==
  /\ Stays(u) /\ rev[u].pc = "work" /\ rev'[u].pc = "work" /\ rev[u].doomed /\ ~rev'[u].doomed
  /\ rev'[u].at = rev[u].at /\ rev'[u].holds = rev[u].holds /\ rev'[u].seen = rev[u].seen
  /\ rev'[u].failed = rev[u].failed
  /\ made' => made
  /\ faults' = 0 => faults = 0 /\ ~made'
  /\ UNCHANGED <<ch, row, mark>>

StepRead(u) ==
  /\ Stays(u) /\ Busy(u, "take") /\ rev'[u].pc = "work" /\ ~rev'[u].doomed
  /\ rev'[u].at = rev[u].at /\ rev'[u].failed = rev[u].failed
  /\ rev'[u].holds /\ rev'[u].seen = ch[Current(u).c].streams
  /\ UNCHANGED <<ch, made, row, mark, faults>>

StepPass(u) ==
  /\ Advances(u) /\ rev'[u].failed = rev[u].failed
  /\ \/ Current(u).op = "skip"
     \/ Current(u).op = "take" /\ (faults' = 0 => ch[Current(u).c].streams \cap Current(u).ss = {})
  /\ ch' = ch /\ (faults' = 0 => faults = 0)

StepTake(u) ==
  /\ Advances(u) /\ Busy(u, "take") /\ rev[u].holds /\ rev'[u].failed = rev[u].failed
  /\ \/ ch' = With(ch, Current(u).c, Only("streams", rev[u].seen \ Current(u).ss))
     \/ ch' = ch /\ faults' # 0
  /\ faults' = 0 => faults = 0

StepPut(u) ==
  /\ Advances(u) /\ Current(u).op = "put"
  /\ \/ ch' = With(ch, Current(u).c, Current(u).vals) /\ (~rev'[u].failed => ~rev[u].failed)
     \/ ch' = ch /\ faults' # 0 /\ (rev[u].via = "snapshot" => rev'[u].failed)
  /\ faults' = 0 => faults = 0

StepMark(u) ==
  /\ Stays(u) /\ rev[u].pc = "work" /\ rev'[u].pc = "done"
  /\ ~rev[u].doomed /\ ~rev'[u].doomed /\ rev[u].at > Len(rev[u].todo)
  /\ rev'[u].at = rev[u].at /\ rev'[u].holds = rev[u].holds /\ rev'[u].failed = rev[u].failed
  /\ \/ rev[u].failed /\ UNCHANGED <<row, mark>>
     \/ /\ ~rev[u].failed /\ row'.status = "rolled_back"
        /\ row'.created = row.created /\ row'.modified = row.modified
        /\ mark'.via = rev[u].via /\ mark'.early = rev[u].early
  /\ UNCHANGED <<ch, made, faults>>

StepOutside(c) ==
  \E s \in Streams :
    /\ c \in Channels /\ edits' # 0 /\ edits' # edits
    /\ ch' = With(ch, c, Only("streams", ch[c].streams \cup {s}))
    /\ \/ outside' = outside
       \/ /\ outside' = [outside EXCEPT ![c] = outside[c] \cup {s}]
          /\ Over
          /\ \A i \in DOMAIN journal : journal[i].c = c => journal[i].s # s
          /\ \A u \in Reverts : rev[u].pc = "work" => ~rev[u].holds
    /\ UNCHANGED <<made, row, snap, journal, run, rev, mark, faults>>

StepRename(c) ==
  /\ c \in Channels /\ edits' # 0 /\ edits' # edits
  /\ ch' = With(ch, c, Only("key", "edited"))
  /\ UNCHANGED <<made, row, snap, journal, run, rev, mark, outside, faults>>

-----------------------------------------------------------------------------
(* Every step keeps the types and is of one of these kinds *)

LEMMA RunFields ==
  ASSUME NEW r \in Runs
  PROVE  /\ r.pc \in {"none", "loaded", "saved", "raised", "dead"} \cup Working
         /\ r.known \in SUBSET Channels /\ r.cache \in [Channels -> Channel] /\ r.made \in BOOLEAN
         /\ r.log \in Seq(Modification) /\ r.buffer \in Seq(Entry)
         /\ r.touched \in [Channels -> SUBSET Streams]
BY DEF Runs

LEMMA LoadSteps ==
  ASSUME TypeOK, NEW a \in Answers, LoadExistingData(a)
  PROVE  TypeOK' /\ StepLoad
<1>1. /\ run.pc = "none" /\ row' = [row EXCEPT !.status = "running"]
      /\ run' = [run EXCEPT !.pc = "loaded", !.cache = ch, !.known = IF a = "ok" THEN Channels ELSE {}]
      /\ UNCHANGED <<ch, made, snap, journal, rev, mark, outside, ops, edits, crashes, lapses>>
  BY Zenon DEF LoadExistingData
<1>2. faults' \in 0 .. MaxFaults /\ (faults' = 0 => faults = 0)
  BY CallFacts DEF LoadExistingData
<1>3. run \in Runs /\ row \in Rows /\ ch \in [Channels -> Channel]
  BY DEF TypeOK
<1>4. run' \in Runs /\ run'.pc = "loaded" /\ run'.cache = ch /\ run'.log = run.log
      /\ run'.buffer = run.buffer /\ run'.made = run.made
  BY <1>1, <1>3 DEF Runs
<1>5. row' \in Rows /\ row'.status = "running" /\ row'.created = row.created /\ row'.modified = row.modified
  BY <1>1, <1>3 DEF Rows
<1>6. TypeOK'
  BY <1>1, <1>2, <1>4, <1>5 DEF TypeOK
<1> QED  BY <1>1, <1>2, <1>4, <1>5, <1>6 DEF StepLoad

LEMMA CaptureSteps ==
  ASSUME TypeOK, NEW ok \in Works, CaptureSnapshot(ok)
  PROVE  TypeOK' /\ StepCapture
<1>1. /\ run.pc = "loaded" /\ run' = [run EXCEPT !.pc = "rules"]
      /\ snap' = IF ok THEN [taken |-> TRUE, of |-> [c \in Captured |-> run.cache[c]]] ELSE NoSnap
      /\ UNCHANGED <<ch, made, row, journal, rev, mark, outside, ops, edits, crashes, faults>>
  BY Zenon DEF CaptureSnapshot
<1>2. lapses' \in 0 .. MaxLapses
  BY WriteFacts DEF CaptureSnapshot
<1>3. run \in Runs
  BY DEF TypeOK
<1>4. run' \in Runs /\ run'.pc = "rules" /\ run'.cache = run.cache /\ run'.log = run.log
      /\ run'.buffer = run.buffer /\ run'.made = run.made
  BY <1>1, <1>3 DEF Runs, Working
<1>5. Captured \subseteq Channels /\ run.cache \in [Channels -> Channel]
  BY <1>3, RunFields DEF Captured
<1>6. CASE ok
  <2>1. snap'.taken = TRUE /\ snap'.of = [c \in Captured |-> run.cache[c]]
    BY <1>1, <1>6
  <2>2. DOMAIN snap'.of \subseteq Channels
        /\ \A c \in DOMAIN snap'.of : c \in Channels /\ snap'.of[c] = run.cache[c] /\ snap'.of[c] \in Channel
    BY <1>5, <2>1
  <2>3. TypeOK'
    BY <1>1, <1>2, <1>4, <2>1, <2>2 DEF TypeOK
  <2> QED  BY <1>1, <1>4, <2>1, <2>2, <2>3 DEF StepCapture
<1>7. CASE ~ok
  <2>1. snap'.taken = FALSE /\ DOMAIN snap'.of = {}
    BY <1>1, <1>7 DEF NoSnap
  <2>2. TypeOK'
    BY <1>1, <1>2, <1>4, <2>1 DEF TypeOK
  <2> QED  BY <1>1, <1>4, <2>1, <2>2 DEF StepCapture
<1> QED  BY <1>6, <1>7

\* A change of the run's list of a channel, by the run, that was seen to succeed.
LEMMA LogTypes ==
  ASSUME NEW r \in Runs, NEW c \in Channels
  PROVE  /\ \A type \in {"channel", "stream"} :
              [c |-> c, type |-> type, f |-> "streams", prev |-> r.cache[c]["streams"]] \in Modification
         /\ \A f \in {"key", "other"} :
              [c |-> c, type |-> "channel", f |-> f, prev |-> r.cache[c][f]] \in Modification
<1>1. r.cache[c] \in Channel
  BY RunFields
<1>2. r.cache[c]["streams"] \in SUBSET Streams /\ r.cache[c]["key"] \in Values /\ r.cache[c]["other"] \in Values
  BY <1>1, FieldTypes
<1> QED  BY <1>2 DEF Modification

LEMMA PatchTypes ==
  ASSUME TypeOK, NEW c \in Channels, NEW vals \in Payload, NEW a, Patch(c, vals, a)
  PROVE  /\ ch' \in [Channels -> Channel]
         /\ ch' = ch \/ ch' = With(ch, c, vals)
         /\ a = "ok" => ch' = With(ch, c, vals)
BY WithFacts DEF Patch, TypeOK

LEMMA AddSteps ==
  ASSUME TypeOK, NEW c \in Channels, NEW s \in Streams, NEW cat \in {"auto_creation", "event_sync"},
         NEW at \in {"rules", "attach"}, NEW touched \in [Channels -> SUBSET Streams],
         NEW a \in Answers, NEW flushed \in Works, run.pc \in {"rules", "attach"},
         AddStream(c, s, cat, at, touched, a, flushed)
  PROVE  TypeOK' /\ (StepAdd(c, [c |-> c, s |-> s, cat |-> cat]) \/ \E vals \in Payload : StepBlind(c, vals))
<1> DEFINE new == run.cache[c].streams \cup {s}
           e == [c |-> c, s |-> s, cat |-> cat]
           m == [c |-> c, type |-> "channel", f |-> "streams", prev |-> run.cache[c]["streams"]]
           b == Append(run.buffer, e)
<1>1. /\ ops < MaxOps /\ Patch(c, Only("streams", new), a) /\ ops' = ops + 1
      /\ UNCHANGED <<made, row, snap, rev, mark, outside, edits, crashes>>
  BY Zenon DEF AddStream
<1>2. CallCost(a) /\ WriteCost(flushed)
  BY Zenon DEF AddStream
<1>3. \/ /\ a = "ok"
         /\ run' = [run EXCEPT !.pc = at, !.touched = touched,
                               !.cache = Changed(c, "streams", new), !.log = Logged(c, "streams", "channel"),
                               !.buffer = IF Flushes(flushed) THEN <<>> ELSE Buffered(c, s, cat)]
         /\ journal' = IF Flushes(flushed) THEN journal \o Buffered(c, s, cat) ELSE journal
      \/ a # "ok" /\ run' = [run EXCEPT !.pc = at, !.touched = touched] /\ journal' = journal
  BY Zenon DEF AddStream
<1>4. /\ faults' \in 0 .. MaxFaults /\ (faults' = 0 => faults = 0 /\ a = "ok") /\ lapses' \in 0 .. MaxLapses
      /\ (a = "ok" => faults' = faults)
  <2>1. faults \in 0 .. MaxFaults
    BY DEF TypeOK
  <2>2. a = "ok" => faults' = faults
    BY <1>2, <2>1, RevertAssumption DEF CallCost, Count
  <2> QED  BY <1>2, <2>2, CallFacts, WriteFacts
<1>5. run \in Runs /\ ops' \in 0 .. MaxOps /\ journal \in Seq(Entry) /\ run.cache \in [Channels -> Channel]
      /\ run.buffer \in Seq(Entry) /\ run.log \in Seq(Modification)
  BY <1>1, RevertAssumption, RunFields DEF TypeOK
<1>6. new \in SUBSET Streams /\ e \in Entry /\ m \in Modification
  BY <1>5, LogTypes, FieldTypes DEF Entry
<1>7. b \in Seq(Entry) /\ Append(run.log, m) \in Seq(Modification) /\ journal \o b \in Seq(Entry)
  BY <1>5, <1>6
<1>8. Only("streams", new) \in Payload /\ DOMAIN Only("streams", new) = {"streams"}
      /\ With(run.cache, c, Only("streams", new)) \in [Channels -> Channel]
  BY <1>5, <1>6, OnlyStreams, WithStreams
<1>9. ch' \in [Channels -> Channel] /\ (ch' = ch \/ ch' = With(ch, c, Only("streams", new)))
      /\ (a = "ok" => ch' = With(ch, c, Only("streams", new)))
  BY <1>1, <1>8, PatchTypes
<1>10. run'.pc = at /\ run'.made = run.made
  BY <1>3, <1>5 DEF Runs
<1>11. CASE a = "ok"
  <2> DEFINE cache2 == With(run.cache, c, Only("streams", new))
             log2 == Append(run.log, m)
  <2>1. PICK b2 \in Seq(Entry) :
          /\ run' = [run EXCEPT !.pc = at, !.touched = touched, !.cache = cache2, !.log = log2, !.buffer = b2]
          /\ \/ b2 = b /\ journal' = journal
             \/ b2 = <<>> /\ journal' = journal \o b
    <3>1. CASE Flushes(flushed)
      <4>1. run' = [run EXCEPT !.pc = at, !.touched = touched, !.cache = cache2, !.log = log2, !.buffer = <<>>]
            /\ journal' = journal \o b
        BY <1>3, <1>11, <3>1, Zenon DEF Changed, Logged, Buffered
      <4>2. <<>> \in Seq(Entry)
        OBVIOUS
      <4> HIDE DEF cache2, log2, b
      <4> QED  BY <4>1, <4>2, Zenon
    <3>2. CASE ~Flushes(flushed)
      <4>1. run' = [run EXCEPT !.pc = at, !.touched = touched, !.cache = cache2, !.log = log2, !.buffer = b]
            /\ journal' = journal
        BY <1>3, <1>11, <3>2, Zenon DEF Changed, Logged, Buffered
      <4> HIDE DEF cache2, log2, b
      <4> QED  BY <1>7, <4>1
    <3> QED  BY <3>1, <3>2
  <2>2. journal' \in Seq(Entry)
    BY <1>5, <1>7, <2>1
  <2>a. cache2 \in [Channels -> Channel] /\ log2 \in Seq(Modification)
    BY <1>7, <1>8
  <2> HIDE DEF cache2, log2, b
  <2>3. run' \in Runs /\ run'.cache = cache2 /\ run'.log = log2 /\ run'.buffer = b2
    BY <1>5, <2>1, <2>a DEF Runs, Working
  <2>4. TypeOK'
    BY <1>1, <1>4, <1>5, <1>9, <2>2, <2>3 DEF TypeOK
  <2>5. Writes(c, "streams", new, "channel")
    BY <1>1, <1>4, <1>9, <1>10, <1>11, <2>3 DEF Writes, Target, cache2, log2
  <2> QED  BY <1>6, <2>1, <2>3, <2>4, <2>5 DEF StepAdd, b
<1>12. CASE a # "ok"
  <2>1. run' = [run EXCEPT !.pc = at, !.touched = touched] /\ journal' = journal
    BY <1>3, <1>12
  <2>2. run' \in Runs /\ run'.cache = run.cache /\ run'.log = run.log /\ run'.buffer = run.buffer
    BY <1>5, <2>1 DEF Runs, Working
  <2>3. TypeOK'
    BY <1>1, <1>4, <1>5, <1>9, <2>1, <2>2 DEF TypeOK
  <2>4. StepBlind(c, Only("streams", new))
    BY <1>1, <1>4, <1>8, <1>9, <1>10, <1>12, <2>1, <2>2 DEF StepBlind, Books, Working
  <2> QED  BY <1>8, <2>3, <2>4
<1> QED  BY <1>11, <1>12

LEMMA MergeSteps ==
  ASSUME TypeOK, NEW c \in Channels, NEW s \in Streams, NEW a \in Answers, NEW flushed \in Works,
         MergeStream(c, s, a, flushed) \/ Attach(c, s, a, flushed)
  PROVE  TypeOK' /\ ((\E e \in Entry : StepAdd(c, e)) \/ \E vals \in Payload : StepBlind(c, vals))
<1>1. run.touched \in [Channels -> SUBSET Streams] /\ Touch(c, s) \in [Channels -> SUBSET Streams]
  BY RunFields DEF TypeOK, Touch
<1>2. run.pc \in {"rules", "attach"}
  BY DEF MergeStream, Attach
<1>3. \E cat \in {"auto_creation", "event_sync"}, at \in {"rules", "attach"},
         touched \in [Channels -> SUBSET Streams] : AddStream(c, s, cat, at, touched, a, flushed)
  BY <1>1 DEF MergeStream, Attach
<1>4. TypeOK' /\ \E cat \in {"auto_creation", "event_sync"} :
        StepAdd(c, [c |-> c, s |-> s, cat |-> cat]) \/ \E vals \in Payload : StepBlind(c, vals)
  BY <1>2, <1>3, AddSteps, Zenon
<1> QED  BY <1>4 DEF Entry

\* A write of one field by the run that succeeds, or that answers an error.
LEMMA FieldSteps ==
  ASSUME TypeOK, NEW c \in Channels, NEW f \in Fields, NEW v, NEW type, NEW a \in Answers,
         Only(f, v) \in Payload, DOMAIN Only(f, v) = {f}, c \in Masters => f = "streams",
         [c |-> c, type |-> type, f |-> f, prev |-> run.cache[c][f]] \in Modification,
         run.pc = "rules", ops < MaxOps, ops' = ops + 1,
         Patch(c, Only(f, v), a), CallCost(a),
         run' = IF a = "ok" THEN [run EXCEPT !.cache = Changed(c, f, v), !.log = Logged(c, f, type)]
                ELSE run,
         UNCHANGED <<made, row, snap, journal, rev, mark, outside, edits, crashes, lapses>>
  PROVE  TypeOK' /\ \/ Writes(c, f, v, type) /\ run'.buffer = run.buffer /\ journal' = journal
                    \/ StepBlind(c, Only(f, v))
<1> DEFINE cache2 == With(run.cache, c, Only(f, v))
           log2 == Append(run.log, [c |-> c, type |-> type, f |-> f, prev |-> run.cache[c][f]])
<1>1. run \in Runs /\ ops' \in 0 .. MaxOps /\ faults' \in 0 .. MaxFaults /\ run.cache \in [Channels -> Channel]
      /\ (faults' = 0 => a = "ok") /\ (a = "ok" => faults' = faults) /\ run.log \in Seq(Modification)
  <2>1. faults \in 0 .. MaxFaults /\ run \in Runs /\ ops \in 0 .. MaxOps
    BY DEF TypeOK
  <2>2. a = "ok" => faults' = faults
    BY <2>1, RevertAssumption DEF CallCost, Count
  <2> QED  BY <2>1, <2>2, CallFacts, RunFields, RevertAssumption
<1>2. ch' \in [Channels -> Channel] /\ (ch' = ch \/ ch' = With(ch, c, Only(f, v)))
      /\ (a = "ok" => ch' = With(ch, c, Only(f, v)))
  BY PatchTypes
<1>3. cache2 \in [Channels -> Channel] /\ log2 \in Seq(Modification)
  BY <1>1, WithFacts
<1>4. CASE a = "ok"
  <2>1. run' = [run EXCEPT !.cache = cache2, !.log = log2]
    BY <1>4 DEF Changed, Logged
  <2> HIDE DEF cache2, log2
  <2>2. run' \in Runs /\ run'.cache = cache2 /\ run'.log = log2 /\ run'.buffer = run.buffer
        /\ run'.pc = run.pc /\ run'.made = run.made
    BY <1>1, <1>3, <2>1 DEF Runs
  <2>3. TypeOK'
    BY <1>1, <1>2, <2>2 DEF TypeOK
  <2>4. Writes(c, f, v, type)
    BY <1>1, <1>2, <1>4, <2>2 DEF Writes, Target, cache2, log2
  <2> QED  BY <2>2, <2>3, <2>4
<1>5. CASE a # "ok"
  <2>1. run' = run
    BY <1>5
  <2>2. TypeOK'
    BY <1>1, <1>2, <2>1 DEF TypeOK
  <2>3. StepBlind(c, Only(f, v))
    BY <1>1, <1>2, <1>5, <2>1 DEF StepBlind, Books, Working
  <2> QED  BY <2>2, <2>3
<1> QED  BY <1>4, <1>5

LEMMA RemoveSteps ==
  ASSUME TypeOK, NEW c \in Channels, NEW s \in Streams, NEW a \in Answers, RemoveFromChannel(c, s, a)
  PROVE  TypeOK' /\ ((\E v \in SUBSET Streams : StepRemove(c, v)) \/ \E vals \in Payload : StepBlind(c, vals))
<1> DEFINE v == run.cache[c].streams \ {s}
<1>1. /\ run.pc = "rules" /\ c \notin Masters /\ ops < MaxOps /\ ops' = ops + 1
      /\ Patch(c, Only("streams", v), a) /\ CallCost(a)
      /\ run' = IF a = "ok" THEN [run EXCEPT !.cache = Changed(c, "streams", v),
                                             !.log = Logged(c, "streams", "stream")] ELSE run
      /\ UNCHANGED <<made, row, snap, journal, rev, mark, outside, edits, crashes, lapses>>
  BY Zenon DEF RemoveFromChannel
<1>2. run \in Runs /\ run.cache[c] \in Channel
  BY RunFields DEF TypeOK
<1>3. v \in SUBSET Streams /\ v \subseteq run.cache[c].streams
  BY <1>2, FieldTypes
<1>4. [c |-> c, type |-> "stream", f |-> "streams", prev |-> run.cache[c]["streams"]] \in Modification
  BY <1>2, LogTypes
<1>5. Only("streams", v) \in Payload /\ DOMAIN Only("streams", v) = {"streams"}
  BY <1>3, OnlyStreams
<1> HIDE DEF v
<1>6. TypeOK' /\ \/ Writes(c, "streams", v, "stream") /\ run'.buffer = run.buffer /\ journal' = journal
                 \/ StepBlind(c, Only("streams", v))
  BY <1>1, <1>4, <1>5, FieldSteps DEF Fields
<1> QED  BY <1>3, <1>5, <1>6 DEF StepRemove

LEMMA UpdateSteps ==
  ASSUME TypeOK, NEW c \in Channels, NEW f \in Fields \ {"streams"}, NEW a \in Answers, UpdateChannel(c, f, a)
  PROVE  TypeOK' /\ (StepUpdate(c, f) \/ \E vals \in Payload : StepBlind(c, vals))
<1>1. /\ run.pc = "rules" /\ c \notin Masters /\ ops < MaxOps /\ ops' = ops + 1 /\ run.cache[c][f] = "old"
      /\ Patch(c, Only(f, "new"), a) /\ CallCost(a)
      /\ run' = IF a = "ok" THEN [run EXCEPT !.cache = Changed(c, f, "new"),
                                             !.log = Logged(c, f, "channel")] ELSE run
      /\ UNCHANGED <<made, row, snap, journal, rev, mark, outside, edits, crashes, lapses>>
  BY Zenon DEF UpdateChannel
<1>2. run \in Runs /\ f \in {"key", "other"}
  BY DEF TypeOK, Fields
<1>3. [c |-> c, type |-> "channel", f |-> f, prev |-> run.cache[c][f]] \in Modification
  BY <1>2, LogTypes
<1>4. Only(f, "new") \in Payload /\ DOMAIN Only(f, "new") = {f}
  BY <1>2, OnlyValue DEF Values
<1>5. TypeOK' /\ \/ Writes(c, f, "new", "channel") /\ run'.buffer = run.buffer /\ journal' = journal
                 \/ StepBlind(c, Only(f, "new"))
  BY <1>1, <1>3, <1>4, FieldSteps
<1> QED  BY <1>1, <1>2, <1>4, <1>5 DEF StepUpdate

LEMMA PruneSteps ==
  ASSUME TypeOK, NEW c \in Channels, NEW a \in Answers, PruneMergeStreams(c, a)
  PROVE  TypeOK' /\ ((\E v \in SUBSET Streams : StepPrune(c, v)) \/ \E vals \in Payload : StepBlind(c, vals))
<1> DEFINE v == run.cache[c].streams \cap run.touched[c]
<1>1. /\ run.pc \in Working /\ Patch(c, Only("streams", v), a) /\ CallCost(a)
      /\ run' = [run EXCEPT !.pc = "prune", !.cache = IF a = "ok" THEN Changed(c, "streams", v) ELSE run.cache]
      /\ UNCHANGED <<made, row, snap, journal, rev, mark, outside, ops, edits, crashes, lapses>>
  BY Zenon DEF PruneMergeStreams
<1>2. run \in Runs /\ run.cache[c] \in Channel /\ run.cache \in [Channels -> Channel]
  BY RunFields DEF TypeOK
<1>3. v \in SUBSET Streams /\ v \subseteq run.cache[c].streams
  BY <1>2, FieldTypes
<1>4. /\ Only("streams", v) \in Payload /\ DOMAIN Only("streams", v) = {"streams"}
      /\ With(run.cache, c, Only("streams", v)) \in [Channels -> Channel]
  BY <1>2, <1>3, OnlyStreams, WithStreams
<1> HIDE DEF v
<1>5. ch' \in [Channels -> Channel] /\ (ch' = ch \/ ch' = With(ch, c, Only("streams", v)))
      /\ (a = "ok" => ch' = With(ch, c, Only("streams", v)))
  BY <1>1, <1>4, PatchTypes
<1>6. faults' \in 0 .. MaxFaults /\ (faults' = 0 => a = "ok") /\ (a = "ok" => faults' = faults)
  <2>1. faults \in 0 .. MaxFaults
    BY DEF TypeOK
  <2>2. a = "ok" => faults' = faults
    BY <1>1, <2>1, RevertAssumption DEF CallCost, Count
  <2> QED  BY <1>1, <2>2, CallFacts
<1>7. CASE a = "ok"
  <2>1. run' = [run EXCEPT !.pc = "prune", !.cache = With(run.cache, c, Only("streams", v))]
    BY <1>1, <1>7 DEF Changed
  <2>2. run' \in Runs /\ run'.pc = "prune" /\ run'.cache = With(run.cache, c, Only("streams", v))
        /\ run'.log = run.log /\ run'.buffer = run.buffer /\ run'.made = run.made
    BY <1>2, <1>4, <2>1 DEF Runs, Working
  <2>3. TypeOK'
    BY <1>1, <1>5, <1>6, <2>2 DEF TypeOK
  <2>4. StepPrune(c, v)
    BY <1>1, <1>3, <1>5, <1>6, <1>7, <2>2 DEF StepPrune
  <2> QED  BY <1>3, <2>3, <2>4
<1>8. CASE a # "ok"
  <2>1. run' = [run EXCEPT !.pc = "prune", !.cache = run.cache]
    BY <1>1, <1>8
  <2>2. run' \in Runs /\ run'.pc = "prune" /\ run'.cache = run.cache
        /\ run'.log = run.log /\ run'.buffer = run.buffer /\ run'.made = run.made
    BY <1>2, <2>1 DEF Runs, Working
  <2>3. TypeOK'
    BY <1>1, <1>5, <1>6, <2>2 DEF TypeOK
  <2>4. StepBlind(c, Only("streams", v))
    BY <1>1, <1>4, <1>5, <1>6, <1>8, <2>2 DEF StepBlind, Books, Working
  <2> QED  BY <1>4, <2>3, <2>4
<1> QED  BY <1>7, <1>8

LEMMA SkipSteps ==
  ASSUME TypeOK, NEW c \in Channels, NEW s \in Streams, MergeSkipped(c, s)
  PROVE  TypeOK' /\ StepOther
<1>1. /\ run.pc = "rules" /\ ops < MaxOps /\ ops' = ops + 1
      /\ run' = [run EXCEPT !.touched = Touch(c, s)]
      /\ UNCHANGED <<ch, made, row, snap, journal, rev, mark, outside, edits, faults, lapses, crashes>>
  BY Zenon DEF MergeSkipped
<1>2. run \in Runs /\ Touch(c, s) \in [Channels -> SUBSET Streams] /\ ops' \in 0 .. MaxOps
  BY <1>1, RevertAssumption, RunFields DEF TypeOK, Touch
<1>3. run' \in Runs /\ run'.pc = run.pc /\ run'.cache = run.cache
      /\ run'.log = run.log /\ run'.buffer = run.buffer /\ run'.made = run.made
  BY <1>1, <1>2 DEF Runs
<1>4. TypeOK'
  BY <1>1, <1>2, <1>3 DEF TypeOK
<1> QED  BY <1>1, <1>3, <1>4 DEF StepOther, Books, Working

LEMMA CreateSteps ==
  ASSUME TypeOK, NEW a \in Answers, CreateChannel(a)
  PROVE  TypeOK' /\ StepOther
<1>1. /\ run.pc = "rules" /\ ops < MaxOps /\ ops' = ops + 1 /\ CallCost(a)
      /\ run' = [run EXCEPT !.made = (a = "ok")]
      /\ UNCHANGED <<ch, row, snap, journal, rev, mark, outside, edits, lapses, crashes>>
  BY Zenon DEF CreateChannel
<1>2. made' = (a # "refused")
  BY Zenon DEF CreateChannel
<1>3. run \in Runs /\ ops' \in 0 .. MaxOps /\ (a = "ok") \in BOOLEAN
  BY <1>1, RevertAssumption DEF TypeOK
<1>4. run' \in Runs /\ run'.pc = run.pc /\ run'.cache = run.cache
      /\ run'.log = run.log /\ run'.buffer = run.buffer
  BY <1>1, <1>3 DEF Runs
<1>5. run'.made = (a = "ok")
  BY <1>1, <1>3 DEF Runs
<1>6. faults' \in 0 .. MaxFaults /\ (faults' = 0 => faults = 0 /\ a = "ok")
  BY <1>1, CallFacts
<1>7. made' \in BOOLEAN
  BY <1>2
<1>8. TypeOK'
  BY <1>1, <1>3, <1>4, <1>6, <1>7 DEF TypeOK
<1>9. faults' = 0 => (made' => run'.made)
  BY <1>5, <1>6
<1> QED  BY <1>1, <1>4, <1>6, <1>8, <1>9 DEF StepOther, Books, Working

LEMMA EndSteps ==
  ASSUME TypeOK, NEW flushed \in Works, SaveExecution(flushed) \/ RunRaises(flushed)
  PROVE  TypeOK' /\ StepEnd
<1>1. run \in Runs /\ row \in Rows /\ run.log \in Seq(Modification) /\ run.made \in BOOLEAN
      /\ run.buffer \in Seq(Entry) /\ journal \in Seq(Entry)
  BY RunFields DEF TypeOK
<1>2. /\ run.pc \in Working /\ WriteCost(flushed)
      /\ UNCHANGED <<ch, made, snap, rev, mark, outside, ops, edits, crashes, faults>>
  BY Zenon DEF SaveExecution, RunRaises
<1>3. lapses' \in 0 .. MaxLapses /\ flushed \in BOOLEAN
  BY <1>2, WriteFacts
<1>4. ASSUME NEW pc \in {"saved", "raised"}, FinalFlush(flushed, pc)
      PROVE  /\ run' \in Runs /\ journal' \in Seq(Entry) /\ run'.pc = pc
             /\ run'.cache = run.cache /\ run'.log = run.log /\ run'.made = run.made
             /\ \/ run'.buffer = <<>> /\ journal' = journal \o run.buffer
                \/ run'.buffer = run.buffer /\ journal' = journal
  <2>1. CASE flushed
    <3>1. run' = [run EXCEPT !.pc = pc, !.buffer = <<>>] /\ journal' = journal \o run.buffer
      BY <1>4, <2>1 DEF FinalFlush
    <3>2. <<>> \in Seq(Entry) /\ journal' \in Seq(Entry)
      BY <1>1, <3>1
    <3> QED  BY <1>1, <3>1, <3>2 DEF Runs
  <2>2. CASE ~flushed
    <3>1. run' = [run EXCEPT !.pc = pc, !.buffer = run.buffer] /\ journal' = journal
      BY <1>4, <2>2 DEF FinalFlush
    <3> QED  BY <1>1, <3>1 DEF Runs
  <2> QED  BY <1>3, <2>1, <2>2
<1>5. CASE SaveExecution(flushed)
  <2>1. FinalFlush(flushed, "saved") /\ row' = [status |-> "completed", created |-> run.made, modified |-> run.log]
    BY <1>5, Zenon DEF SaveExecution
  <2>2. row' \in Rows /\ row'.status = "completed" /\ row'.modified = run.log
    BY <1>1, <2>1 DEF Rows
  <2>3. row'.created = run.made
    BY <2>1
  <2>4. /\ run' \in Runs /\ journal' \in Seq(Entry) /\ run'.pc = "saved"
        /\ run'.cache = run.cache /\ run'.log = run.log /\ run'.made = run.made
        /\ \/ run'.buffer = <<>> /\ journal' = journal \o run.buffer
           \/ run'.buffer = run.buffer /\ journal' = journal
    BY <1>4, <2>1
  <2>5. TypeOK'
    BY <1>2, <1>3, <2>2, <2>4 DEF TypeOK
  <2> QED  BY <1>2, <2>2, <2>3, <2>4, <2>5 DEF StepEnd
<1>6. CASE RunRaises(flushed)
  <2>1. FinalFlush(flushed, "raised")
        /\ row' = [row EXCEPT !.status = IF row.status = "running" THEN "failed" ELSE row.status]
    BY <1>6, Zenon DEF RunRaises
  <2>2. row' \in Rows /\ row'.modified = row.modified /\ row'.created = row.created
        /\ (row'.status = "rolled_back" => row.status = "rolled_back")
    BY <1>1, <2>1 DEF Rows
  <2>4. /\ run' \in Runs /\ journal' \in Seq(Entry) /\ run'.pc = "raised"
        /\ run'.cache = run.cache /\ run'.log = run.log /\ run'.made = run.made
        /\ \/ run'.buffer = <<>> /\ journal' = journal \o run.buffer
           \/ run'.buffer = run.buffer /\ journal' = journal
    BY <1>4, <2>1
  <2>5. TypeOK'
    BY <1>2, <1>3, <2>2, <2>4 DEF TypeOK
  <2> QED  BY <1>2, <2>2, <2>4, <2>5 DEF StepEnd
<1> QED  BY <1>5, <1>6

LEMMA CrashSteps ==
  ASSUME TypeOK, CrashAndRestart
  PROVE  TypeOK' /\ StepCrash
<1>1. /\ crashes < MaxCrashes /\ crashes' = crashes + 1
      /\ run' = IF RunAlive THEN [run EXCEPT !.pc = "dead"] ELSE run
      /\ row' = [row EXCEPT !.status = IF row.status = "running" THEN "abandoned" ELSE row.status]
      /\ rev' = [u \in Reverts |-> IF rev[u].pc = "work" THEN [rev[u] EXCEPT !.pc = "done"] ELSE rev[u]]
      /\ UNCHANGED <<ch, made, snap, journal, mark, outside, ops, edits, faults, lapses>>
  BY Zenon DEF CrashAndRestart, RunAlive
<1>2. run \in Runs /\ row \in Rows /\ crashes' \in 0 .. MaxCrashes /\ rev \in [Reverts -> RevertStates]
  BY <1>1, RevertAssumption DEF TypeOK
<1>3. run' \in Runs /\ run'.cache = run.cache /\ run'.pc = (IF RunAlive THEN "dead" ELSE run.pc)
      /\ run'.log = run.log /\ run'.buffer = run.buffer /\ run'.made = run.made
  BY <1>1, <1>2 DEF Runs
<1>4. /\ row' \in Rows /\ row'.modified = row.modified /\ row'.created = row.created
      /\ (row'.status = "rolled_back" => row.status = "rolled_back")
      /\ (row.status = "none" => row'.status = "none")
  BY <1>1, <1>2 DEF Rows
<1>5. ASSUME NEW u \in Reverts
      PROVE  rev'[u] \in RevertStates /\ (rev'[u] = rev[u] \/ CutOff(rev[u], rev'[u]))
  <2>1. rev[u] \in RevertStates
    BY <1>2
  <2>2. rev'[u] = IF rev[u].pc = "work" THEN [rev[u] EXCEPT !.pc = "done"] ELSE rev[u]
    BY <1>1
  <2>3. CASE rev[u].pc = "work"
    <3>1. rev'[u] = [rev[u] EXCEPT !.pc = "done"]
      BY <2>2, <2>3
    <3> QED  BY <2>1, <2>3, <3>1 DEF RevertStates, CutOff
  <2> QED  BY <2>1, <2>2, <2>3
<1>6. rev' \in [Reverts -> RevertStates]
  BY <1>1, <1>5
<1>7. TypeOK'
  BY <1>1, <1>2, <1>3, <1>4, <1>6 DEF TypeOK
<1> QED  BY <1>1, <1>3, <1>4, <1>5, <1>7 DEF StepCrash, Books

-----------------------------------------------------------------------------
(* The lists of the reverts *)

\* A loop over a set of channels passes every channel.
LEMMA OrderFacts ==
  ASSUME NEW D \in SUBSET Channels, NEW q \in Orders(D)
  PROVE  /\ q \in Seq(D) /\ \A i \in DOMAIN q : q[i] \in D
         /\ \A c \in D : \E i \in DOMAIN q : q[i] = c
<1>1. Cardinality(D) \in Nat
  BY RevertAssumption, FS_Subset, FS_CardinalityType
<1>2. q \in [1 .. Cardinality(D) -> D] /\ \A c \in D : \E i \in DOMAIN q : q[i] = c
  BY DEF Orders
<1> QED  BY <1>1, <1>2

LEMMA PageFacts ==
  ASSUME TypeOK
  PROVE  /\ Page \in Seq(Entry) /\ Merged \subseteq Channels
         /\ \A c \in Channels : Added(c) \subseteq Streams
         /\ \A c \in Channels : \A s \in Added(c) : \E i \in DOMAIN journal : journal[i].c = c /\ journal[i].s = s
         /\ Len(journal) <= PageSize => Page = journal
<1>1. journal \in Seq(Entry) /\ PageSize \in Nat \ {0}
  BY RevertAssumption DEF TypeOK
<1>2. Page \in Seq(Entry) /\ \A i \in DOMAIN Page : \E j \in DOMAIN journal : Page[i] = journal[j]
  <2>1. CASE Len(journal) <= PageSize
    BY <1>1, <2>1 DEF Page
  <2>2. CASE ~(Len(journal) <= PageSize)
    <3> DEFINE m == Len(journal) - PageSize + 1
    <3>1. Page = SubSeq(journal, m, Len(journal)) /\ m \in 1 .. Len(journal)
      BY <1>1, <2>2 DEF Page
    <3>2. SubSeq(journal, m, Len(journal)) = [i \in 1 .. PageSize |-> journal[i + m - 1]]
      BY <1>1, <3>1
    <3>3. \A i \in 1 .. PageSize : i + m - 1 \in 1 .. Len(journal)
      BY <1>1, <3>1
    <3> QED  BY <1>1, <3>1, <3>2, <3>3
  <2> QED  BY <2>1, <2>2
<1>3. \A i \in DOMAIN Page : Page[i] \in Entry
  BY <1>2
<1>4. Merged \subseteq Channels
  BY <1>3 DEF Merged, Entry
<1>5. \A c \in Channels : Added(c) \subseteq Streams
  BY <1>3 DEF Added, Entry
<1>6. ASSUME NEW c \in Channels, NEW s \in Added(c)
      PROVE  \E i \in DOMAIN journal : journal[i].c = c /\ journal[i].s = s
  BY <1>2 DEF Added
<1>7. Len(journal) <= PageSize => Page = journal
  BY DEF Page
<1> QED  BY <1>2, <1>4, <1>5, <1>6, <1>7

\* The list of a snapshot restore: every channel of the snapshot, its payload.
LEMMA SnapshotList ==
  ASSUME TypeOK, NEW q \in Orders(DOMAIN snap.of)
  PROVE  LET todo == SnapshotWrites(q) IN
         /\ todo \in Seq(Item)
         /\ \A i \in DOMAIN todo : /\ todo[i].op = "put" /\ todo[i].c \in DOMAIN snap.of /\ todo[i].c \in Channels
                                   /\ todo[i].vals = SnapshotPayload(todo[i].c)
         /\ \A c \in DOMAIN snap.of : \E i \in DOMAIN todo : todo[i].c = c
<1>1. DOMAIN snap.of \in SUBSET Channels
  BY DEF TypeOK
<1>2. /\ q \in Seq(DOMAIN snap.of) /\ \A i \in DOMAIN q : q[i] \in DOMAIN snap.of
      /\ \A c \in DOMAIN snap.of : \E i \in DOMAIN q : q[i] = c
  BY <1>1, OrderFacts
<1>3. ASSUME NEW c \in DOMAIN snap.of
      PROVE  SnapshotPayload(c) \in Payload
  <2>1. snap.of[c] \in Channel
    BY DEF TypeOK
  <2>2. snap.of[c]["streams"] \in SUBSET Streams /\ snap.of[c]["key"] \in Values
    BY <2>1, FieldTypes
  <2> QED  BY <2>2 DEF SnapshotPayload, Payload
<1>4. ASSUME NEW i \in DOMAIN q
      PROVE  /\ Put(q[i], SnapshotPayload(q[i])) \in Item
             /\ Put(q[i], SnapshotPayload(q[i])).op = "put"
             /\ Put(q[i], SnapshotPayload(q[i])).c = q[i]
             /\ Put(q[i], SnapshotPayload(q[i])).vals = SnapshotPayload(q[i])
  <2>1. q[i] \in Channels /\ SnapshotPayload(q[i]) \in Payload
    BY <1>1, <1>2, <1>3
  <2> QED  BY <2>1 DEF Put, Item
<1>5. SnapshotWrites(q) \in Seq(Item) /\ DOMAIN SnapshotWrites(q) = DOMAIN q
  <2>1. PICK n \in Nat : DOMAIN q = 1 .. n
    BY <1>2
  <2> QED  BY <1>4, <2>1 DEF SnapshotWrites
<1>6. \A i \in DOMAIN q : SnapshotWrites(q)[i] = Put(q[i], SnapshotPayload(q[i]))
  BY DEF SnapshotWrites
<1> QED  BY <1>1, <1>2, <1>4, <1>5, <1>6

\* The list of an unmerge: every channel of the page, what the entries added to it.
LEMMA UnmergeList ==
  ASSUME TypeOK, NEW q \in Orders(Merged)
  PROVE  LET todo == Unmerges(q) IN
         /\ todo \in Seq(Item)
         /\ \A i \in DOMAIN todo : todo[i].op = "take" /\ todo[i].c \in Channels /\ todo[i].ss = Added(todo[i].c)
         /\ \A c \in Merged : \E i \in DOMAIN todo : todo[i].c = c
<1>1. Merged \in SUBSET Channels /\ \A c \in Channels : Added(c) \subseteq Streams
  BY PageFacts
<1>2. /\ q \in Seq(Merged) /\ \A i \in DOMAIN q : q[i] \in Merged
      /\ \A c \in Merged : \E i \in DOMAIN q : q[i] = c
  BY <1>1, OrderFacts
<1>4. ASSUME NEW i \in DOMAIN q
      PROVE  /\ Take(q[i], Added(q[i])) \in Item
             /\ Take(q[i], Added(q[i])).op = "take"
             /\ Take(q[i], Added(q[i])).c = q[i]
             /\ Take(q[i], Added(q[i])).ss = Added(q[i])
  <2>1. q[i] \in Channels /\ Added(q[i]) \in SUBSET Streams
    BY <1>1, <1>2
  <2> QED  BY <2>1 DEF Take, Item
<1>5. Unmerges(q) \in Seq(Item) /\ DOMAIN Unmerges(q) = DOMAIN q
  <2>1. PICK n \in Nat : DOMAIN q = 1 .. n
    BY <1>2
  <2> QED  BY <1>4, <2>1 DEF Unmerges
<1>6. \A i \in DOMAIN q : Unmerges(q)[i] = Take(q[i], Added(q[i]))
  BY DEF Unmerges
<1> QED  BY <1>1, <1>2, <1>4, <1>5, <1>6

\* The list of a rollback without journal: the modifications, last to first.
LEMMA RestoreList ==
  ASSUME TypeOK
  PROVE  /\ Restores \in Seq(Item) /\ Len(Restores) = Len(row.modified)
         /\ DOMAIN Restores = DOMAIN row.modified
         /\ \A i \in DOMAIN Restores :
              Len(row.modified) + 1 - i \in DOMAIN row.modified
              /\ Restores[i] = PutBackOf(row.modified[Len(row.modified) + 1 - i])
<1>1. row.modified \in Seq(Modification)
  BY DEF TypeOK, Rows
<1>2. ASSUME NEW m \in Modification
      PROVE  PutBackOf(m) \in Item
  <2>1. CASE m \in [c : Channels, type : {"channel", "stream"}, f : {"streams"}, prev : SUBSET Streams]
    <3>1. m.c \in Channels /\ m.f = "streams" /\ m.prev \in SUBSET Streams
      BY <2>1
    <3>2. Only(m.f, m.prev) \in Payload
      BY <3>1, OnlyStreams
    <3> QED  BY <3>1, <3>2 DEF PutBackOf, Put, Skip, Item
  <2>2. CASE m \in [c : Channels, type : {"channel"}, f : {"key", "other"}, prev : Values]
    <3>1. m.c \in Channels /\ m.f \in {"key", "other"} /\ m.prev \in Values
      BY <2>2
    <3>2. Only(m.f, m.prev) \in Payload
      BY <3>1, OnlyValue
    <3> QED  BY <3>1, <3>2 DEF PutBackOf, Put, Skip, Item
  <2> QED  BY <2>1, <2>2 DEF Modification
<1>3. \A i \in DOMAIN row.modified : Len(row.modified) + 1 - i \in DOMAIN row.modified
  BY <1>1
<1>4. DOMAIN ModifiedBackward = DOMAIN row.modified
      /\ \A i \in DOMAIN row.modified : ModifiedBackward[i] = row.modified[Len(row.modified) + 1 - i]
  BY DEF ModifiedBackward
<1>5. DOMAIN Restores = DOMAIN row.modified
      /\ \A i \in DOMAIN row.modified : Restores[i] = PutBackOf(row.modified[Len(row.modified) + 1 - i])
  BY <1>4 DEF Restores
<1>6. \A i \in DOMAIN row.modified : Restores[i] \in Item
  BY <1>1, <1>2, <1>3, <1>5
<1>7. Restores = [i \in DOMAIN ModifiedBackward |-> PutBackOf(ModifiedBackward[i])]
  BY DEF Restores
<1>8. Restores \in Seq(Item) /\ Len(Restores) = Len(row.modified)
  <2>1. PICK n \in Nat : DOMAIN row.modified = 1 .. n /\ Len(row.modified) = n
    BY <1>1
  <2>2. Restores = [i \in 1 .. n |-> PutBackOf(ModifiedBackward[i])]
    BY <1>4, <1>7, <2>1
  <2>3. \A i \in 1 .. n : PutBackOf(ModifiedBackward[i]) \in Item
    BY <1>6, <2>1, <2>2
  <2> QED  BY <2>1, <2>2, <2>3
<1> QED  BY <1>3, <1>5, <1>8

-----------------------------------------------------------------------------
(* The steps of the reverts *)

LEMMA RevertFields ==
  ASSUME NEW r \in RevertStates
  PROVE  /\ r.pc \in {"idle", "work", "done"} /\ r.via \in Via /\ r.doomed \in BOOLEAN
         /\ r.todo \in Seq(Item) /\ r.at \in Nat \ {0} /\ r.holds \in BOOLEAN /\ r.seen \in SUBSET Streams
         /\ r.failed \in BOOLEAN /\ r.early \in BOOLEAN
BY DEF RevertStates

LEMMA BeginSteps ==
  ASSUME TypeOK, NEW u \in Reverts, NEW via \in Via, NEW todo \in Seq(Item), Revert(u, via, todo)
  PROVE  TypeOK' /\ StepBegin(u, via, todo)
<1>1. /\ rev[u].pc = "idle" /\ row.status \notin {"none", "rolled_back"}
      /\ rev' = [rev EXCEPT ![u] = [rev[u] EXCEPT !.pc = "work", !.via = via, !.doomed = row.created,
                                                  !.todo = todo, !.early = RunAlive]]
      /\ UNCHANGED <<ch, made, row, snap, journal, run, mark, outside, ops, edits, faults, lapses, crashes>>
  BY Zenon DEF Revert
<1>2. rev \in [Reverts -> RevertStates] /\ row.created \in BOOLEAN /\ RunAlive \in BOOLEAN
  BY DEF TypeOK, Rows, RunAlive
<1> DEFINE R == [rev[u] EXCEPT !.pc = "work", !.via = via, !.doomed = row.created,
                               !.todo = todo, !.early = RunAlive]
<1>3. /\ R \in RevertStates /\ R.pc = "work" /\ R.via = via /\ R.todo = todo
      /\ R.at = rev[u].at /\ R.doomed = row.created /\ R.early = RunAlive
      /\ R.holds = rev[u].holds /\ R.failed = rev[u].failed
  <2>1. rev[u] \in RevertStates
    BY <1>2
  <2> QED  BY <1>2, <2>1 DEF RevertStates
<1>4. rev'[u] = R /\ OthersStay(u) /\ rev' \in [Reverts -> RevertStates]
  <2> HIDE DEF R
  <2>1. rev' = [rev EXCEPT ![u] = R]
    BY <1>1 DEF R
  <2> QED  BY <1>2, <1>3, <2>1 DEF OthersStay
<1> HIDE DEF R
<1>5. TypeOK'
  BY <1>1, <1>4 DEF TypeOK
<1>6. /\ rev'[u].pc = "work" /\ rev'[u].via = via /\ rev'[u].todo = todo
      /\ rev'[u].at = rev[u].at /\ rev'[u].doomed = row.created /\ rev'[u].early = RunAlive
      /\ rev'[u].holds = rev[u].holds /\ rev'[u].failed = rev[u].failed
  BY <1>3, <1>4, Zenon
<1> QED  BY <1>1, <1>4, <1>5, <1>6, Zenon DEF StepBegin, Sources

LEMMA BeginningSteps ==
  ASSUME TypeOK, NEW u \in Reverts,
         \/ \E q \in Orders(Merged) : RollbackSurgical(u, q) \/ RollbackLegacy(u, q)
         \/ \E q \in Orders(DOMAIN snap.of) : RollbackBySnapshot(u, q) \/ RestoreSnapshot(u, q)
  PROVE  TypeOK' /\ (StepBeginSnapshot(u) \/ StepBeginSurgical(u) \/ StepBeginLegacy(u))
<1>1. ASSUME NEW q \in Orders(DOMAIN snap.of), RollbackBySnapshot(u, q) \/ RestoreSnapshot(u, q)
      PROVE  TypeOK' /\ StepBeginSnapshot(u)
  <2>1. snap.taken /\ Revert(u, "snapshot", SnapshotWrites(q))
    BY <1>1, Zenon DEF RollbackBySnapshot, RestoreSnapshot
  <2>2. SnapshotWrites(q) \in Seq(Item) /\ "snapshot" \in Via
    BY SnapshotList DEF Via
  <2>3. TypeOK' /\ StepBegin(u, "snapshot", SnapshotWrites(q))
    BY <2>1, <2>2, BeginSteps
  <2> QED  BY <2>1, <2>3, Zenon DEF StepBeginSnapshot
<1>2. ASSUME NEW q \in Orders(Merged), RollbackSurgical(u, q)
      PROVE  TypeOK' /\ StepBeginSurgical(u)
  <2>1. snap.taken /\ JournalCovers(row.created, row.modified) /\ Revert(u, "surgical", Unmerges(q))
    BY <1>2, Zenon DEF RollbackSurgical
  <2>2. Unmerges(q) \in Seq(Item) /\ "surgical" \in Via
    BY UnmergeList DEF Via
  <2>3. TypeOK' /\ StepBegin(u, "surgical", Unmerges(q))
    BY <2>1, <2>2, BeginSteps
  <2> QED  BY <2>1, <2>3, Zenon DEF StepBeginSurgical
<1>3. ASSUME NEW q \in Orders(Merged), RollbackLegacy(u, q)
      PROVE  TypeOK' /\ StepBeginLegacy(u)
  <2> DEFINE todo == IF journal # <<>> THEN Unmerges(q) ELSE Restores
  <2>1. ~snap.taken /\ (row.created \/ row.modified # <<>>) /\ Revert(u, "legacy", todo)
    BY <1>3, Zenon DEF RollbackLegacy
  <2>2. todo \in Seq(Item) /\ "legacy" \in Via
    BY UnmergeList, RestoreList DEF Via
  <2>3. TypeOK' /\ StepBegin(u, "legacy", todo)
    <3> HIDE DEF todo
    <3> QED  BY <2>1, <2>2, BeginSteps
  <2> QED  BY <2>1, <2>3, Zenon DEF StepBeginLegacy
<1> QED  BY <1>1, <1>2, <1>3

\* What NextItem does.
LEMMA ItemSteps ==
  ASSUME TypeOK, NEW u \in Reverts, NEW failed \in BOOLEAN, NextItem(u, failed), rev[u].pc = "work",
         ~rev[u].doomed, rev[u].at <= Len(rev[u].todo), UNCHANGED <<Sources, made, row, mark>>
  PROVE  /\ Advances(u) /\ rev' \in [Reverts -> RevertStates]
         /\ rev'[u].failed = (rev[u].failed \/ failed)
<1> DEFINE R == [rev[u] EXCEPT !.at = rev[u].at + 1, !.holds = FALSE, !.seen = {},
                               !.failed = rev[u].failed \/ failed]
<1>1. rev[u] \in RevertStates /\ rev \in [Reverts -> RevertStates]
  BY DEF TypeOK
<1>2. rev[u].at + 1 \in Nat \ {0} /\ (rev[u].failed \/ failed) \in BOOLEAN
  BY <1>1, RevertFields
<1>3. /\ R \in RevertStates /\ R.pc = rev[u].pc /\ R.via = rev[u].via /\ R.todo = rev[u].todo
      /\ R.at = rev[u].at + 1 /\ R.early = rev[u].early
  BY <1>1, <1>2 DEF RevertStates
<1>4. R.doomed = rev[u].doomed /\ R.holds = FALSE /\ R.failed = (rev[u].failed \/ failed)
  BY <1>1, <1>2 DEF RevertStates
<1>5. rev' = [rev EXCEPT ![u] = R]
  BY Zenon DEF NextItem
<1> HIDE DEF R
<1>6. rev'[u] = R /\ OthersStay(u) /\ rev' \in [Reverts -> RevertStates]
  BY <1>1, <1>3, <1>5 DEF OthersStay
<1>7. /\ rev'[u].pc = rev[u].pc /\ rev'[u].via = rev[u].via /\ rev'[u].todo = rev[u].todo
      /\ rev'[u].at = rev[u].at + 1 /\ rev'[u].early = rev[u].early
      /\ rev'[u].doomed = rev[u].doomed /\ rev'[u].holds = FALSE /\ rev'[u].failed = (rev[u].failed \/ failed)
  BY <1>3, <1>4, <1>6, Zenon
<1> QED  BY <1>6, <1>7, Zenon DEF Advances, Stays

LEMMA CurrentFacts ==
  ASSUME TypeOK, NEW u \in Reverts, rev[u].at <= Len(rev[u].todo)
  PROVE  /\ rev[u].at \in DOMAIN rev[u].todo /\ Current(u) \in Item
         /\ Current(u).op = "take" => Current(u).c \in Channels /\ Current(u).ss \in SUBSET Streams
         /\ Current(u).op = "put" => Current(u).c \in Channels /\ Current(u).vals \in Payload
<1>1. rev[u].todo \in Seq(Item) /\ rev[u].at \in Nat \ {0}
  BY RevertFields DEF TypeOK
<1>2. rev[u].at \in DOMAIN rev[u].todo /\ Current(u) \in Item
  BY <1>1 DEF Current
<1> QED  BY <1>2 DEF Item

LEMMA DeleteSteps ==
  ASSUME TypeOK, NEW u \in Reverts, NEW a \in Answers, DeleteCreated(u, a)
  PROVE  TypeOK' /\ StepDelete(u)
<1> DEFINE R == [rev[u] EXCEPT !.doomed = FALSE]
<1>1. /\ rev[u].pc = "work" /\ rev[u].doomed /\ CallCost(a)
      /\ rev' = [rev EXCEPT ![u] = R]
      /\ UNCHANGED <<ch, row, snap, journal, run, mark, outside, ops, edits, crashes, lapses>>
  BY Zenon DEF DeleteCreated
<1>2. made' = (made /\ a = "refused")
  BY Zenon DEF DeleteCreated
<1>3. rev[u] \in RevertStates /\ rev \in [Reverts -> RevertStates]
  BY DEF TypeOK
<1>4. /\ R \in RevertStates /\ R.pc = rev[u].pc /\ R.via = rev[u].via /\ R.todo = rev[u].todo
      /\ R.at = rev[u].at /\ R.early = rev[u].early /\ R.doomed = FALSE
      /\ R.holds = rev[u].holds /\ R.seen = rev[u].seen /\ R.failed = rev[u].failed
  BY <1>3 DEF RevertStates
<1> HIDE DEF R
<1>5. rev'[u] = R /\ OthersStay(u) /\ rev' \in [Reverts -> RevertStates]
  BY <1>1, <1>3, <1>4 DEF OthersStay
<1>6. /\ rev'[u].pc = rev[u].pc /\ rev'[u].via = rev[u].via /\ rev'[u].todo = rev[u].todo
      /\ rev'[u].at = rev[u].at /\ rev'[u].early = rev[u].early /\ rev'[u].doomed = FALSE
      /\ rev'[u].holds = rev[u].holds /\ rev'[u].seen = rev[u].seen /\ rev'[u].failed = rev[u].failed
  BY <1>4, <1>5, Zenon
<1>7. faults' \in 0 .. MaxFaults /\ (faults' = 0 => faults = 0 /\ a = "ok")
  BY <1>1, CallFacts
<1>8. made' \in BOOLEAN /\ (made' => made) /\ (faults' = 0 => ~made')
  <2>1. made' \in BOOLEAN /\ (made' => made)
    BY <1>2
  <2>2. faults' = 0 => a # "refused"
    BY <1>7
  <2> QED  BY <1>2, <2>1, <2>2
<1>9. TypeOK'
  BY <1>1, <1>5, <1>7, <1>8 DEF TypeOK
<1>10. Stays(u)
  BY <1>1, <1>5, <1>6, Zenon DEF Stays, Sources
<1> QED  BY <1>1, <1>6, <1>7, <1>8, <1>9, <1>10 DEF StepDelete

LEMMA ReadSteps ==
  ASSUME TypeOK, NEW u \in Reverts, NEW a \in Answers, ReadCurrent(u, a)
  PROVE  TypeOK' /\ (StepRead(u) \/ StepPass(u))
<1> DEFINE t == Current(u)
<1>1. /\ Busy(u, "take") /\ ~rev[u].holds /\ CallCost(a)
      /\ UNCHANGED <<ch, made, row, snap, journal, run, mark, outside, ops, edits, crashes, lapses>>
  BY Zenon DEF ReadCurrent
<1>2. \/ /\ a = "ok"
         /\ rev' = [rev EXCEPT ![u] = [rev[u] EXCEPT !.holds = TRUE, !.seen = ch[t.c].streams]]
      \/ (a = "ok" => ch[t.c].streams \cap t.ss = {}) /\ NextItem(u, FALSE)
  BY Zenon DEF ReadCurrent
<1>3. rev[u].pc = "work" /\ ~rev[u].doomed /\ rev[u].at <= Len(rev[u].todo) /\ t.op = "take"
  BY <1>1 DEF Busy
<1>4. t.c \in Channels /\ ch[t.c] \in Channel /\ rev[u] \in RevertStates /\ rev \in [Reverts -> RevertStates]
  BY <1>3, CurrentFacts DEF TypeOK
<1>5. ch[t.c].streams \in SUBSET Streams
  BY <1>4, FieldTypes
<1>6. faults' \in 0 .. MaxFaults /\ (faults' = 0 => faults = 0 /\ a = "ok") /\ (a = "ok" => faults' = faults)
  <2>1. faults \in 0 .. MaxFaults
    BY DEF TypeOK
  <2>2. a = "ok" => faults' = faults
    BY <1>1, <2>1, RevertAssumption DEF CallCost, Count
  <2> QED  BY <1>1, <2>2, CallFacts
<1>7. CASE NextItem(u, FALSE) /\ (a = "ok" => ch[t.c].streams \cap t.ss = {})
  <2>0. UNCHANGED <<Sources, made, row, mark>>
    BY <1>1, Zenon DEF Sources
  <2>1. Advances(u) /\ rev' \in [Reverts -> RevertStates] /\ rev'[u].failed = (rev[u].failed \/ FALSE)
    BY <1>3, <1>7, <2>0, ItemSteps, Zenon
  <2>2. TypeOK'
    BY <1>1, <1>6, <2>1 DEF TypeOK
  <2>3. rev'[u].failed = rev[u].failed
    BY <1>4, <2>1, RevertFields
  <2>4. faults' = 0 => ch[t.c].streams \cap t.ss = {}
    BY <1>6, <1>7
  <2>5. StepPass(u)
    BY <1>1, <1>3, <1>6, <2>1, <2>3, <2>4 DEF StepPass
  <2> QED  BY <2>2, <2>5
<1>8. CASE /\ a = "ok"
           /\ rev' = [rev EXCEPT ![u] = [rev[u] EXCEPT !.holds = TRUE, !.seen = ch[t.c].streams]]
  <2> DEFINE R == [rev[u] EXCEPT !.holds = TRUE, !.seen = ch[t.c].streams]
  <2>1. /\ R \in RevertStates /\ R.pc = rev[u].pc /\ R.via = rev[u].via /\ R.todo = rev[u].todo
        /\ R.at = rev[u].at /\ R.early = rev[u].early /\ R.doomed = rev[u].doomed
        /\ R.holds = TRUE /\ R.seen = ch[t.c].streams /\ R.failed = rev[u].failed
    <3> DEFINE L == ch[t.c].streams
    <3>1. L \in SUBSET Streams
      BY <1>5
    <3> HIDE DEF L
    <3>2. R = [rev[u] EXCEPT !.holds = TRUE, !.seen = L]
      BY DEF L
    <3>3. /\ R \in RevertStates /\ R.pc = rev[u].pc /\ R.via = rev[u].via /\ R.todo = rev[u].todo
          /\ R.at = rev[u].at /\ R.early = rev[u].early /\ R.doomed = rev[u].doomed
          /\ R.holds = TRUE /\ R.seen = L /\ R.failed = rev[u].failed
      BY <1>4, <3>1, <3>2 DEF RevertStates
    <3> QED  BY <3>3 DEF L
  <2>2. rev' = [rev EXCEPT ![u] = R]
    BY <1>8
  <2> HIDE DEF R
  <2>3. rev'[u] = R /\ OthersStay(u) /\ rev' \in [Reverts -> RevertStates]
    BY <1>4, <2>1, <2>2 DEF OthersStay
  <2>4. /\ rev'[u].pc = rev[u].pc /\ rev'[u].via = rev[u].via /\ rev'[u].todo = rev[u].todo
        /\ rev'[u].at = rev[u].at /\ rev'[u].early = rev[u].early /\ rev'[u].doomed = rev[u].doomed
        /\ rev'[u].holds = TRUE /\ rev'[u].seen = ch[t.c].streams /\ rev'[u].failed = rev[u].failed
    BY <2>1, <2>3, Zenon
  <2>5. TypeOK'
    BY <1>1, <1>6, <2>3 DEF TypeOK
  <2>6. Stays(u)
    BY <1>1, <2>3, <2>4, Zenon DEF Stays, Sources
  <2>7. StepRead(u)
    BY <1>1, <1>3, <1>6, <1>8, <2>4, <2>6 DEF StepRead
  <2> QED  BY <2>5, <2>7
<1> QED  BY <1>2, <1>7, <1>8

LEMMA TakeSteps ==
  ASSUME TypeOK, NEW u \in Reverts, NEW a \in Answers, WriteRemaining(u, a)
  PROVE  TypeOK' /\ StepTake(u)
<1> DEFINE t == Current(u)
           v == rev[u].seen \ t.ss
<1>1. /\ Busy(u, "take") /\ rev[u].holds /\ CallCost(a) /\ Patch(t.c, Only("streams", v), a)
      /\ NextItem(u, FALSE)
      /\ UNCHANGED <<made, row, snap, journal, run, mark, outside, ops, edits, crashes, lapses>>
  BY Zenon DEF WriteRemaining
<1>3. rev[u].pc = "work" /\ ~rev[u].doomed /\ rev[u].at <= Len(rev[u].todo) /\ t.op = "take"
  BY <1>1 DEF Busy
<1>4. t.c \in Channels /\ rev[u] \in RevertStates /\ v \in SUBSET Streams
  BY <1>3, CurrentFacts, RevertFields DEF TypeOK
<1>5. ch' \in [Channels -> Channel] /\ (ch' = ch \/ ch' = With(ch, t.c, Only("streams", v)))
      /\ (a = "ok" => ch' = With(ch, t.c, Only("streams", v)))
  <2>1. Only("streams", v) \in Payload
    BY <1>4, OnlyStreams
  <2> QED  BY <1>1, <1>4, <2>1, PatchTypes
<1>6. faults' \in 0 .. MaxFaults /\ (faults' = 0 => faults = 0 /\ a = "ok")
  BY <1>1, CallFacts
<1>7. UNCHANGED <<Sources, made, row, mark>>
  BY <1>1, Zenon DEF Sources
<1>8. Advances(u) /\ rev' \in [Reverts -> RevertStates] /\ rev'[u].failed = (rev[u].failed \/ FALSE)
  BY <1>1, <1>3, <1>7, ItemSteps, Zenon
<1>9. TypeOK'
  BY <1>1, <1>5, <1>6, <1>8 DEF TypeOK
<1>10. rev'[u].failed = rev[u].failed
  BY <1>4, <1>8, RevertFields
<1> QED  BY <1>1, <1>5, <1>6, <1>8, <1>9, <1>10 DEF StepTake

LEMMA PutSteps ==
  ASSUME TypeOK, NEW u \in Reverts, NEW a \in Answers, PutBack(u, a)
  PROVE  TypeOK' /\ StepPut(u)
<1> DEFINE t == Current(u)
           lost == rev[u].via = "snapshot" /\ a # "ok"
<1>1. /\ Busy(u, "put") /\ CallCost(a) /\ Patch(t.c, t.vals, a) /\ NextItem(u, lost)
      /\ UNCHANGED <<made, row, snap, journal, run, mark, outside, ops, edits, crashes, lapses>>
  BY Zenon DEF PutBack
<1>3. rev[u].pc = "work" /\ ~rev[u].doomed /\ rev[u].at <= Len(rev[u].todo) /\ t.op = "put"
  BY <1>1 DEF Busy
<1>4. t.c \in Channels /\ t.vals \in Payload /\ rev[u] \in RevertStates
  BY <1>3, CurrentFacts DEF TypeOK
<1>5. ch' \in [Channels -> Channel] /\ (ch' = ch \/ ch' = With(ch, t.c, t.vals))
      /\ (a = "ok" => ch' = With(ch, t.c, t.vals))
  BY <1>1, <1>4, PatchTypes
<1>6. faults' \in 0 .. MaxFaults /\ (faults' = 0 => faults = 0 /\ a = "ok")
  BY <1>1, CallFacts
<1>7. UNCHANGED <<Sources, made, row, mark>>
  BY <1>1, Zenon DEF Sources
<1>8. Advances(u) /\ rev' \in [Reverts -> RevertStates] /\ rev'[u].failed = (rev[u].failed \/ lost)
  <2>1. lost \in BOOLEAN
    OBVIOUS
  <2> HIDE DEF lost
  <2> QED  BY <1>1, <1>3, <1>7, <2>1, ItemSteps, Zenon
<1>9. TypeOK'
  BY <1>1, <1>5, <1>6, <1>8 DEF TypeOK
<1>10. (~rev'[u].failed => ~rev[u].failed) /\ (a # "ok" /\ rev[u].via = "snapshot" => rev'[u].failed)
  BY <1>8, Zenon
<1> QED  BY <1>3, <1>5, <1>6, <1>8, <1>9, <1>10 DEF StepPut

LEMMA PassSteps ==
  ASSUME TypeOK, NEW u \in Reverts, PassOver(u)
  PROVE  TypeOK' /\ StepPass(u)
<1>1. /\ Busy(u, "skip") /\ NextItem(u, FALSE)
      /\ UNCHANGED <<ch, made, row, snap, journal, run, mark, outside, ops, edits, crashes, faults, lapses>>
  BY Zenon DEF PassOver
<1>3. rev[u].pc = "work" /\ ~rev[u].doomed /\ rev[u].at <= Len(rev[u].todo) /\ Current(u).op = "skip"
  BY <1>1 DEF Busy
<1>4. UNCHANGED <<Sources, made, row, mark>>
  BY <1>1, Zenon DEF Sources
<1>5. Advances(u) /\ rev' \in [Reverts -> RevertStates] /\ rev'[u].failed = (rev[u].failed \/ FALSE)
  BY <1>1, <1>3, <1>4, ItemSteps, Zenon
<1>6. TypeOK'
  BY <1>1, <1>5 DEF TypeOK
<1>7. rev'[u].failed = rev[u].failed
  BY <1>5, RevertFields DEF TypeOK
<1> QED  BY <1>1, <1>3, <1>5, <1>6, <1>7 DEF StepPass

LEMMA MarkSteps ==
  ASSUME TypeOK, NEW u \in Reverts, MarkRolledBack(u)
  PROVE  TypeOK' /\ StepMark(u)
<1> DEFINE R == [rev[u] EXCEPT !.pc = "done"]
<1>1. /\ rev[u].pc = "work" /\ ~rev[u].doomed /\ rev[u].at > Len(rev[u].todo) /\ rev' = [rev EXCEPT ![u] = R]
      /\ UNCHANGED <<ch, made, snap, journal, run, outside, ops, edits, faults, lapses, crashes>>
  BY Zenon DEF MarkRolledBack
<1>2. \/ rev[u].failed /\ UNCHANGED <<row, mark>>
      \/ /\ ~rev[u].failed /\ row' = [row EXCEPT !.status = "rolled_back"]
         /\ mark' = [via |-> rev[u].via, early |-> rev[u].early]
  BY Zenon DEF MarkRolledBack
<1>3. rev[u] \in RevertStates /\ rev \in [Reverts -> RevertStates] /\ row \in Rows
      /\ mark \in [via : Via, early : BOOLEAN]
  BY DEF TypeOK
<1>4. /\ R \in RevertStates /\ R.pc = "done" /\ R.via = rev[u].via /\ R.todo = rev[u].todo
      /\ R.at = rev[u].at /\ R.early = rev[u].early /\ R.doomed = rev[u].doomed
      /\ R.holds = rev[u].holds /\ R.failed = rev[u].failed
  BY <1>3 DEF RevertStates
<1> HIDE DEF R
<1>5. rev'[u] = R /\ OthersStay(u) /\ rev' \in [Reverts -> RevertStates]
  BY <1>1, <1>3, <1>4 DEF OthersStay
<1>6. /\ rev'[u].pc = "done" /\ rev'[u].via = rev[u].via /\ rev'[u].todo = rev[u].todo
      /\ rev'[u].at = rev[u].at /\ rev'[u].early = rev[u].early /\ rev'[u].doomed = rev[u].doomed
      /\ rev'[u].holds = rev[u].holds /\ rev'[u].failed = rev[u].failed
  BY <1>4, <1>5, Zenon
<1>7. Stays(u)
  BY <1>1, <1>5, <1>6, Zenon DEF Stays, Sources
<1>8. /\ row' \in Rows /\ mark' \in [via : Via, early : BOOLEAN]
      /\ \/ rev[u].failed /\ UNCHANGED <<row, mark>>
         \/ /\ ~rev[u].failed /\ row'.status = "rolled_back"
            /\ row'.created = row.created /\ row'.modified = row.modified
            /\ mark'.via = rev[u].via /\ mark'.early = rev[u].early
  <2>1. CASE rev[u].failed /\ UNCHANGED <<row, mark>>
    BY <1>3, <2>1
  <2>2. CASE /\ ~rev[u].failed /\ row' = [row EXCEPT !.status = "rolled_back"]
             /\ mark' = [via |-> rev[u].via, early |-> rev[u].early]
    <3>1. row' \in Rows /\ row'.status = "rolled_back" /\ row'.created = row.created /\ row'.modified = row.modified
      BY <1>3, <2>2 DEF Rows
    <3>2. mark' \in [via : Via, early : BOOLEAN] /\ mark'.via = rev[u].via /\ mark'.early = rev[u].early
      BY <1>3, <2>2, RevertFields
    <3> QED  BY <2>2, <3>1, <3>2
  <2> QED  BY <1>2, <2>1, <2>2
<1>9. TypeOK'
  BY <1>1, <1>5, <1>8 DEF TypeOK
<1> QED  BY <1>1, <1>6, <1>7, <1>8, <1>9, Zenon DEF StepMark

LEMMA OutsideSteps ==
  ASSUME TypeOK, NEW c \in Channels, NEW s \in Streams, OutsideAdds(c, s)
  PROVE  TypeOK' /\ StepOutside(c)
<1> DEFINE Kept == /\ ~RunAlive /\ run.pc # "none"
                   /\ \A i \in DOMAIN journal : journal[i].c = c => journal[i].s # s
                   /\ \A u \in Reverts : rev[u].pc = "work" => ~rev[u].holds
<1>1. /\ edits < MaxEdits /\ ch' = With(ch, c, Only("streams", ch[c].streams \cup {s})) /\ edits' = edits + 1
      /\ outside' = IF Kept THEN [outside EXCEPT ![c] = outside[c] \cup {s}] ELSE outside
      /\ UNCHANGED <<made, row, snap, journal, run, rev, mark, ops, faults, lapses, crashes>>
  BY Zenon DEF OutsideAdds
<1>2. ch[c].streams \cup {s} \in SUBSET Streams /\ ch \in [Channels -> Channel]
      /\ outside \in [Channels -> SUBSET Streams]
  BY FieldTypes DEF TypeOK
<1>3. ch' \in [Channels -> Channel]
  BY <1>1, <1>2, WithStreams
<1>4. edits' \in 0 .. MaxEdits /\ edits' # 0 /\ edits' # edits
  BY <1>1, RevertAssumption DEF TypeOK
<1>5. /\ outside' \in [Channels -> SUBSET Streams]
      /\ \/ outside' = outside
         \/ outside' = [outside EXCEPT ![c] = outside[c] \cup {s}] /\ Kept
  <2> HIDE DEF Kept
  <2> QED  BY <1>1, <1>2
<1>6. TypeOK'
  BY <1>1, <1>3, <1>4, <1>5 DEF TypeOK
<1>7. Kept => Over
  BY RunFields DEF TypeOK, RunAlive, Over, Working
<1>8. \/ outside' = outside
      \/ /\ outside' = [outside EXCEPT ![c] = outside[c] \cup {s}] /\ Over
         /\ \A i \in DOMAIN journal : journal[i].c = c => journal[i].s # s
         /\ \A u \in Reverts : rev[u].pc = "work" => ~rev[u].holds
  BY <1>5, <1>7, Zenon
<1> QED  BY <1>1, <1>4, <1>6, <1>8, Zenon DEF StepOutside

LEMMA RenameSteps ==
  ASSUME TypeOK, NEW c \in Channels, MasterRenamed(c)
  PROVE  TypeOK' /\ StepRename(c)
<1>1. /\ edits < MaxEdits /\ ch' = With(ch, c, Only("key", "edited")) /\ edits' = edits + 1
      /\ UNCHANGED <<made, row, snap, journal, run, rev, mark, outside, ops, faults, lapses, crashes>>
  BY Zenon DEF MasterRenamed
<1>2. ch' \in [Channels -> Channel]
  BY <1>1, WithValue DEF TypeOK, Values
<1>3. edits' \in 0 .. MaxEdits /\ edits' # 0 /\ edits' # edits
  BY <1>1, RevertAssumption DEF TypeOK
<1>4. TypeOK'
  BY <1>1, <1>2, <1>3 DEF TypeOK
<1> QED  BY <1>1, <1>3, <1>4, Zenon DEF StepRename

\* The kinds of steps of the run, of a revert, and of others.
RunKinds ==
  \/ StepLoad \/ StepCapture \/ StepOther \/ StepEnd
  \/ \E c \in Channels, e \in Entry : StepAdd(c, e)
  \/ \E c \in Channels, v \in SUBSET Streams : StepRemove(c, v) \/ StepPrune(c, v)
  \/ \E c \in Channels, f \in {"key", "other"} : StepUpdate(c, f)
  \/ \E c \in Channels, vals \in Payload : StepBlind(c, vals)
RevertKinds(u) ==
  \/ StepBeginSnapshot(u) \/ StepBeginSurgical(u) \/ StepBeginLegacy(u)
  \/ StepDelete(u) \/ StepRead(u) \/ StepPass(u) \/ StepTake(u) \/ StepPut(u) \/ StepMark(u)

LEMMA RunSteps ==
  ASSUME TypeOK, RunStep
  PROVE  TypeOK' /\ RunKinds
<1>1. ASSUME NEW a \in Answers, LoadExistingData(a)
      PROVE  TypeOK' /\ RunKinds
  BY <1>1, LoadSteps, Zenon DEF RunKinds
<1>2. ASSUME NEW ok \in Works, CaptureSnapshot(ok)
      PROVE  TypeOK' /\ RunKinds
  BY <1>2, CaptureSteps, Zenon DEF RunKinds
<1>3. ASSUME NEW c \in Channels, NEW s \in Streams, NEW a \in Answers, RemoveFromChannel(c, s, a)
      PROVE  TypeOK' /\ RunKinds
  BY <1>3, RemoveSteps, Zenon DEF RunKinds
<1>4. ASSUME NEW c \in Channels, NEW s \in Streams, NEW a \in Answers, NEW flushed \in Works,
             MergeStream(c, s, a, flushed) \/ Attach(c, s, a, flushed)
      PROVE  TypeOK' /\ RunKinds
  BY <1>4, MergeSteps, Zenon DEF RunKinds
<1>5. ASSUME NEW c \in Channels, NEW s \in Streams, MergeSkipped(c, s)
      PROVE  TypeOK' /\ RunKinds
  BY <1>5, SkipSteps, Zenon DEF RunKinds
<1>6. ASSUME NEW c \in Channels, NEW f \in Fields \ {"streams"}, NEW a \in Answers, UpdateChannel(c, f, a)
      PROVE  TypeOK' /\ RunKinds
  <2>1. f \in {"key", "other"}
    BY DEF Fields
  <2> QED  BY <1>6, <2>1, UpdateSteps, Zenon DEF RunKinds
<1>7. ASSUME NEW c \in Channels, NEW a \in Answers, PruneMergeStreams(c, a)
      PROVE  TypeOK' /\ RunKinds
  BY <1>7, PruneSteps, Zenon DEF RunKinds
<1>8. ASSUME NEW a \in Answers, CreateChannel(a)
      PROVE  TypeOK' /\ RunKinds
  BY <1>8, CreateSteps, Zenon DEF RunKinds
<1>9. ASSUME NEW flushed \in Works, SaveExecution(flushed) \/ RunRaises(flushed)
      PROVE  TypeOK' /\ RunKinds
  BY <1>9, EndSteps, Zenon DEF RunKinds
<1>10. \A a : (IF a = "ok" THEN Works ELSE {TRUE}) \subseteq Works
  BY DEF Works
<1> QED  BY <1>1, <1>2, <1>3, <1>4, <1>5, <1>6, <1>7, <1>8, <1>9, <1>10, Zenon DEF RunStep

LEMMA RevertSteps ==
  ASSUME TypeOK, NEW u \in Reverts, RevertStep(u)
  PROVE  TypeOK' /\ RevertKinds(u)
<1>1. ASSUME \/ \E q \in Orders(Merged) : RollbackSurgical(u, q) \/ RollbackLegacy(u, q)
             \/ \E q \in Orders(DOMAIN snap.of) : RollbackBySnapshot(u, q) \/ RestoreSnapshot(u, q)
      PROVE  TypeOK' /\ RevertKinds(u)
  BY <1>1, BeginningSteps, Zenon DEF RevertKinds
<1>2. ASSUME NEW a \in Answers, DeleteCreated(u, a)
      PROVE  TypeOK' /\ RevertKinds(u)
  BY <1>2, DeleteSteps, Zenon DEF RevertKinds
<1>3. ASSUME NEW a \in Answers, WriteRemaining(u, a)
      PROVE  TypeOK' /\ RevertKinds(u)
  BY <1>3, TakeSteps, Zenon DEF RevertKinds
<1>4. ASSUME NEW a \in Answers, PutBack(u, a)
      PROVE  TypeOK' /\ RevertKinds(u)
  BY <1>4, PutSteps, Zenon DEF RevertKinds
<1>5. ASSUME NEW a \in Answers, ReadCurrent(u, a)
      PROVE  TypeOK' /\ RevertKinds(u)
  BY <1>5, ReadSteps, Zenon DEF RevertKinds
<1>6. ASSUME PassOver(u)
      PROVE  TypeOK' /\ RevertKinds(u)
  BY <1>6, PassSteps, Zenon DEF RevertKinds
<1>7. ASSUME MarkRolledBack(u)
      PROVE  TypeOK' /\ RevertKinds(u)
  BY <1>7, MarkSteps, Zenon DEF RevertKinds
<1> QED  BY <1>1, <1>2, <1>3, <1>4, <1>5, <1>6, <1>7, Zenon DEF RevertStep

\* Every step keeps the types and is of one of the kinds.
LEMMA NextSteps ==
  ASSUME TypeOK, Next
  PROVE  /\ TypeOK'
         /\ \/ RunKinds \/ StepCrash
            \/ \E u \in Reverts : RevertKinds(u)
            \/ \E c \in Channels : StepOutside(c) \/ StepRename(c)
BY RunSteps, CrashSteps, RevertSteps, OutsideSteps, RenameSteps, Zenon DEF Next

LEMMA InitTypes ==
  ASSUME Init
  PROVE  TypeOK
<1>1. Start \in [Channels -> Channel]
  BY RevertAssumption DEF Start, Channel, Values
<1>2. <<>> \in Seq(Modification) /\ <<>> \in Seq(Entry) /\ <<>> \in Seq(Item)
  OBVIOUS
<1>3. ch \in [Channels -> Channel] /\ made \in BOOLEAN /\ row \in Rows /\ journal \in Seq(Entry)
  BY <1>1, <1>2 DEF Init, Rows
<1>4. snap.taken \in BOOLEAN /\ DOMAIN snap.of = {}
  BY DEF Init, NoSnap
<1>5. run \in Runs
  BY <1>1, <1>2 DEF Init, Runs
<1>6. rev \in [Reverts -> RevertStates]
  BY <1>2 DEF Init, RevertStates, Via
<1>7. mark \in [via : Via, early : BOOLEAN] /\ outside \in [Channels -> SUBSET Streams]
  BY DEF Init, Via
<1>8. ops \in 0 .. MaxOps /\ edits \in 0 .. MaxEdits
      /\ faults \in 0 .. MaxFaults /\ lapses \in 0 .. MaxLapses /\ crashes \in 0 .. MaxCrashes
  BY RevertAssumption DEF Init
<1> QED  BY <1>3, <1>4, <1>5, <1>6, <1>7, <1>8 DEF TypeOK

\* The variables have their types in every behaviour.
THEOREM TypeCorrect == Spec => []TypeOK
<1>1. TypeOK /\ UNCHANGED vars => TypeOK'
  BY DEF TypeOK, vars
<1> QED  BY <1>1, InitTypes, NextSteps, PTL DEF Spec

-----------------------------------------------------------------------------
(* What the kinds of steps have in common *)

LEMMA RunSummary ==
  ASSUME TypeOK, RunKinds
  PROVE  /\ UNCHANGED <<rev, mark, outside, edits>> /\ (faults' = 0 => faults = 0)
         /\ run.pc \in {"none", "loaded"} \cup Working
         /\ run.pc \in Working => snap' = snap
<1>1. StepLoad => UNCHANGED <<rev, mark, outside, edits>> /\ (faults' = 0 => faults = 0) /\ run.pc = "none"
  BY Zenon DEF StepLoad
<1>2. StepCapture => UNCHANGED <<rev, mark, outside, edits, faults>> /\ run.pc = "loaded"
  BY Zenon DEF StepCapture
<1>3. StepOther => UNCHANGED <<rev, mark, outside, edits, snap>> /\ (faults' = 0 => faults = 0) /\ run.pc \in Working
  BY Zenon DEF StepOther
<1>4. StepEnd => UNCHANGED <<rev, mark, outside, edits, faults, snap>> /\ run.pc \in Working
  BY Zenon DEF StepEnd
<1>5. ASSUME NEW c \in Channels, NEW f, NEW v, NEW type, Writes(c, f, v, type)
      PROVE  UNCHANGED <<rev, mark, outside, edits, faults, snap>> /\ run.pc \in {"rules", "attach"}
  BY <1>5, Zenon DEF Writes, Target
<1>6. ASSUME NEW c \in Channels, NEW v \in SUBSET Streams, StepPrune(c, v)
      PROVE  UNCHANGED <<rev, mark, outside, edits, faults, snap>> /\ run.pc \in Working
  BY <1>6, Zenon DEF StepPrune
<1>7. ASSUME NEW c \in Channels, NEW vals \in Payload, StepBlind(c, vals)
      PROVE  UNCHANGED <<rev, mark, outside, edits, snap>> /\ faults' # 0 /\ run.pc \in Working
  BY <1>7, Zenon DEF StepBlind
<1>8. \A p : p = "none" \/ p = "loaded" => p \in {"none", "loaded"} \cup Working /\ p \notin Working
  BY DEF Working
<1>9. \A p : p \in {"rules", "attach"} => p \in Working
  BY DEF Working
<1> QED  BY <1>1, <1>2, <1>3, <1>4, <1>5, <1>6, <1>7, <1>8, <1>9, Zenon
            DEF RunKinds, StepAdd, StepRemove, StepUpdate

LEMMA RevertSummary ==
  ASSUME TypeOK, NEW u \in Reverts, RevertKinds(u)
  PROVE  /\ snap' = snap /\ journal' = journal /\ run' = run /\ outside' = outside /\ edits' = edits
         /\ OthersStay(u) /\ (faults' = 0 => faults = 0)
         /\ row'.created = row.created /\ row'.modified = row.modified
         /\ (row' = row /\ mark' = mark) \/ (row'.status = "rolled_back" /\ rev[u].pc = "work")
         /\ row.status # "none" \/ rev[u].pc = "work"
         /\ ch' = ch \/ rev[u].pc = "work"
         /\ made' => made
         /\ rev'[u].pc # "idle" /\ rev'[u].todo \in Seq(Item)
         /\ rev[u].pc # "idle" => /\ rev'[u].via = rev[u].via /\ rev'[u].early = rev[u].early
                                  /\ rev'[u].todo = rev[u].todo
         /\ rev[u].pc = "work" \/ rev[u].pc = "idle"
         /\ rev[u].pc # "idle" => ~rev'[u].doomed
         /\ rev[u].pc = "idle" => rev'[u].holds = rev[u].holds
<1>0. rev[u].todo \in Seq(Item)
  BY RevertFields DEF TypeOK
<1>v. {"snapshot", "surgical", "legacy"} \subseteq Via
  BY DEF Via
<1>1. ASSUME NEW via \in Via, NEW todo \in Seq(Item), StepBegin(u, via, todo)
      PROVE  /\ UNCHANGED <<snap, journal, run, outside, edits, ch, made, row, mark, faults>> /\ OthersStay(u)
             /\ row.status # "none" /\ rev[u].pc = "idle" /\ rev'[u].pc = "work" /\ rev'[u].todo = todo
             /\ rev'[u].holds = rev[u].holds
  BY <1>1, Zenon DEF StepBegin, Sources
<1>2. StepBeginSnapshot(u) => \E via \in Via, todo \in Seq(Item) : StepBegin(u, via, todo)
  BY <1>v, SnapshotList, Zenon DEF StepBeginSnapshot
<1>3. StepBeginSurgical(u) => \E via \in Via, todo \in Seq(Item) : StepBegin(u, via, todo)
  BY <1>v, UnmergeList, Zenon DEF StepBeginSurgical
<1>4. StepBeginLegacy(u) => \E via \in Via, todo \in Seq(Item) : StepBegin(u, via, todo)
  <2>1. \A q \in Orders(Merged) : (IF journal # <<>> THEN Unmerges(q) ELSE Restores) \in Seq(Item)
    BY UnmergeList, RestoreList, Zenon
  <2> QED  BY <1>v, <2>1, Zenon DEF StepBeginLegacy
<1>5. Stays(u) => /\ UNCHANGED <<snap, journal, run, outside, edits>> /\ OthersStay(u)
                  /\ rev'[u].via = rev[u].via /\ rev'[u].early = rev[u].early /\ rev'[u].todo = rev[u].todo
  BY Zenon DEF Stays, Sources
<1>6. Advances(u) => Stays(u) /\ ~rev'[u].doomed /\ rev[u].pc = "work" /\ rev'[u].pc = "work" /\ UNCHANGED <<made, row, mark>>
  BY Zenon DEF Advances
<1>7. StepDelete(u) => /\ Stays(u) /\ ~rev'[u].doomed /\ rev[u].pc = "work" /\ rev'[u].pc = "work" /\ (made' => made)
                       /\ UNCHANGED <<ch, row, mark>> /\ (faults' = 0 => faults = 0)
  BY Zenon DEF StepDelete
<1>8. StepRead(u) => /\ Stays(u) /\ ~rev'[u].doomed /\ rev[u].pc = "work" /\ rev'[u].pc = "work"
                     /\ UNCHANGED <<ch, made, row, mark, faults>>
  BY Zenon DEF StepRead, Busy
<1>9. StepPass(u) \/ StepTake(u) \/ StepPut(u) => Advances(u) /\ (faults' = 0 => faults = 0)
  BY Zenon DEF StepPass, StepTake, StepPut
<1>10. StepMark(u) => /\ Stays(u) /\ ~rev'[u].doomed /\ rev[u].pc = "work" /\ rev'[u].pc = "done" /\ UNCHANGED <<ch, made, faults>>
                      /\ row'.created = row.created /\ row'.modified = row.modified
                      /\ (row' = row /\ mark' = mark) \/ row'.status = "rolled_back"
  BY Zenon DEF StepMark
<1>11. "work" # "idle" /\ "done" # "idle"
  OBVIOUS
<1>12. CASE StepBeginSnapshot(u) \/ StepBeginSurgical(u) \/ StepBeginLegacy(u)
  BY <1>1, <1>2, <1>3, <1>4, <1>11, <1>12, Zenon
<1>13. CASE StepDelete(u) \/ StepRead(u)
  BY <1>0, <1>5, <1>7, <1>8, <1>11, <1>13
<1>14. CASE StepPass(u) \/ StepTake(u) \/ StepPut(u)
  BY <1>0, <1>5, <1>6, <1>9, <1>11, <1>14
<1>15. CASE StepMark(u)
  BY <1>0, <1>5, <1>10, <1>11, <1>15
<1> QED  BY <1>12, <1>13, <1>14, <1>15, Zenon DEF RevertKinds

\* What a restart leaves of a revert.
LEMMA CrashSummary ==
  ASSUME TypeOK, StepCrash, NEW u \in Reverts
  PROVE  /\ rev'[u].via = rev[u].via /\ rev'[u].early = rev[u].early /\ rev'[u].todo = rev[u].todo
         /\ rev'[u].at = rev[u].at /\ rev'[u].doomed = rev[u].doomed /\ rev'[u].holds = rev[u].holds
         /\ rev'[u].failed = rev[u].failed /\ rev'[u].seen = rev[u].seen
         /\ rev'[u].pc = rev[u].pc \/ (rev[u].pc = "work" /\ rev'[u].pc = "done")
BY Zenon DEF StepCrash, CutOff

Kinds ==
  \/ RunKinds \/ StepCrash
  \/ \E u \in Reverts : RevertKinds(u)
  \/ \E c \in Channels : StepOutside(c) \/ StepRename(c)

-----------------------------------------------------------------------------
(* Where the run and the reverts are *)

\* A step of the rules that leaves the row alone.
LEMMA RulePhase ==
  ASSUME TypeOK, Phases, run.pc \in Working, run'.pc \in Working, row' = row
  PROVE  Phases'
<1>1. run.pc \notin {"none", "loaded", "saved"} /\ run'.pc \notin {"none", "loaded", "saved"}
  BY DEF Working
<1> QED  BY <1>1 DEF Phases

LEMMA PhasesKept ==
  ASSUME TypeOK, TypeOK', Phases, RevertPhases, Kinds
  PROVE  Phases'
<1>t. row \in Rows /\ row' \in Rows /\ run.made \in BOOLEAN /\ made \in BOOLEAN /\ snap.taken \in BOOLEAN
  BY RunFields DEF TypeOK
<1>w. \A p \in {"rules", "attach", "prune"} : p \in Working
  BY DEF Working
<1>1. CASE StepLoad
  BY <1>1, <1>t DEF StepLoad, Phases, Rows
<1>2. CASE StepCapture
  BY <1>2, <1>t DEF StepCapture, Phases, Rows
<1>3. CASE StepOther
  <2>1. run'.pc \in Working /\ run.pc \in Working /\ row' = row
    BY <1>3, Zenon DEF StepOther
  <2> QED  BY <2>1, RulePhase
<1>4. CASE StepEnd
  <2>1. run.pc \in Working => run.pc # "saved"
    BY DEF Working
  <2> QED  BY <1>4, <1>t, <2>1 DEF StepEnd, Phases, Rows
<1>5. CASE (\E c \in Channels : \E f, v, type : Writes(c, f, v, type))
  <2>1. run'.pc \in Working /\ run.pc \in Working /\ row' = row
    BY <1>5, <1>w, Zenon DEF Writes, Target
  <2> QED  BY <2>1, RulePhase
<1>6. CASE (\E c \in Channels, v \in SUBSET Streams : StepPrune(c, v))
  <2>1. run'.pc \in Working /\ run.pc \in Working /\ row' = row
    BY <1>6, <1>w, Zenon DEF StepPrune
  <2> QED  BY <2>1, RulePhase
<1>7. CASE (\E c \in Channels, vals \in Payload : StepBlind(c, vals))
  <2>1. run'.pc \in Working /\ run.pc \in Working /\ row' = row
    BY <1>7, <1>w, Zenon DEF StepBlind
  <2> QED  BY <2>1, RulePhase
<1>8. CASE StepCrash
  <2>1. /\ UNCHANGED <<ch, made, snap, journal, edits>> /\ run'.cache = run.cache /\ run'.log = run.log
        /\ run'.buffer = run.buffer /\ run'.made = run.made
        /\ row'.created = row.created /\ row'.modified = row.modified
        /\ row.status = "none" => row'.status = "none"
        /\ run'.pc = (IF RunAlive THEN "dead" ELSE run.pc)
    BY <1>8, Zenon DEF StepCrash, Books
  <2>2. \A u \in Reverts : rev[u].pc = "idle" => rev'[u].pc = "idle"
    BY <1>8, CrashSummary
  <2>3. /\ run'.pc \in {"none", "loaded", "saved"} => run'.pc = run.pc
        /\ run'.pc # "saved" => run.pc # "saved"
    BY <2>1 DEF RunAlive, Working
  <2> QED  BY <2>1, <2>2, <2>3, Zenon DEF Phases
<1>9. ASSUME NEW u \in Reverts, RevertKinds(u)
      PROVE  Phases'
  <2>1. /\ UNCHANGED <<snap, journal, run, edits>>
        /\ row'.created = row.created /\ row'.modified = row.modified /\ (made' => made)
    BY <1>9, RevertSummary, Zenon
  <2>2. run.pc # "none"
    <3>1. row.status # "none" \/ rev[u].pc = "work"
      BY <1>9, RevertSummary
    <3> QED  BY <3>1 DEF Phases
  <2> QED  BY <2>1, <2>2, Zenon DEF Phases
<1>10. ASSUME NEW c \in Channels, StepOutside(c) \/ StepRename(c)
       PROVE  Phases'
  <2>1. UNCHANGED <<made, row, snap, journal, run, rev>> /\ edits' # 0
    BY <1>10, Zenon DEF StepOutside, StepRename
  <2> QED  BY <2>1, Zenon DEF Phases
<1> QED  BY <1>1, <1>2, <1>3, <1>4, <1>5, <1>6, <1>7, <1>8, <1>9, <1>10, Zenon
            DEF Kinds, RunKinds, StepAdd, StepRemove, StepUpdate

LEMMA RevertPhasesKept ==
  ASSUME TypeOK, TypeOK', Phases, RevertPhases, Kinds
  PROVE  RevertPhases'
<1>t. row \in Rows /\ snap.taken \in BOOLEAN /\ run.pc \in {"none", "loaded", "saved", "raised", "dead"} \cup Working
  BY RunFields DEF TypeOK
<1>1. CASE RunKinds
  <2>1. rev' = rev /\ run.pc \in {"none", "loaded"} \cup Working /\ (run.pc \in Working => snap' = snap)
    BY <1>1, RunSummary, Zenon
  <2>2. ~Over /\ run.pc # "saved"
    BY <2>1 DEF Over, Working
  <2>3. run.pc \in {"none", "loaded"} => ~snap.taken
    BY DEF Phases
  <2>4. \A u \in Reverts : rev[u].via \in {"snapshot", "surgical"} => snap'.taken
    BY <2>1, <2>2, <2>3, <1>t DEF RevertPhases
  <2>5. \A u \in Reverts : (Begun(u) => rev[u].early) /\ rev[u].via \notin {"surgical", "legacy"}
    BY <2>2, Zenon DEF RevertPhases
  <2> QED  BY <2>1, <2>4, <2>5 DEF RevertPhases, Begun
<1>2. CASE StepCrash
  <2>1. /\ snap' = snap /\ (Over => Over') /\ (run.pc = "saved" => run'.pc = "saved")
    BY <1>2 DEF StepCrash, Over, RunAlive, Working
  <2>2. \A u \in Reverts :
          /\ rev'[u].via = rev[u].via /\ rev'[u].early = rev[u].early /\ rev'[u].todo = rev[u].todo
          /\ rev'[u].at = rev[u].at /\ rev'[u].doomed = rev[u].doomed /\ rev'[u].holds = rev[u].holds
          /\ rev'[u].pc = "idle" <=> rev[u].pc = "idle"
    BY <1>2, CrashSummary
  <2> QED  BY <2>1, <2>2 DEF RevertPhases, Begun
<1>3. ASSUME NEW u \in Reverts, RevertKinds(u)
      PROVE  RevertPhases'
  <2>1. /\ UNCHANGED <<snap, run>> /\ \A w \in Reverts : w # u => rev'[w] = rev[w]
        /\ rev'[u].pc # "idle"
        /\ rev[u].pc # "idle" => /\ rev'[u].via = rev[u].via /\ rev'[u].early = rev[u].early
                                 /\ ~rev'[u].doomed
        /\ rev[u].pc = "idle" => rev'[u].holds = rev[u].holds
    BY <1>3, RevertSummary, Zenon DEF OthersStay
  <2>2. CASE rev[u].pc # "idle"
    BY <2>1, <2>2 DEF RevertPhases, Begun, Over
  <2>3. CASE rev[u].pc = "idle"
    <3>1. PICK via \in {"snapshot", "surgical", "legacy"} :
            /\ \E todo : StepBegin(u, via, todo)
            /\ via \in {"snapshot", "surgical"} => snap.taken
            /\ via = "legacy" => ~snap.taken
            /\ via \in {"surgical", "legacy"} => row.created \/ row.modified # <<>>
      <4>1. rev[u].pc # "work"
        BY <2>3
      <4>2. StepBeginSnapshot(u) \/ StepBeginSurgical(u) \/ StepBeginLegacy(u)
        BY <1>3, <4>1, Zenon DEF RevertKinds, StepDelete, StepRead, StepPass, StepTake, StepPut, StepMark,
             Advances, Busy
      <4>3. CASE StepBeginSnapshot(u)
        BY <4>3 DEF StepBeginSnapshot
      <4>4. CASE StepBeginSurgical(u)
        <5>1. PICK q \in Orders(Merged) : /\ snap.taken /\ JournalCovers(row.created, row.modified)
                                          /\ StepBegin(u, "surgical", Unmerges(q))
          BY <4>4, Zenon DEF StepBeginSurgical
        <5>2. row.modified # <<>>
          BY <5>1, Zenon DEF JournalCovers
        <5> HIDE DEF StepBegin
        <5> QED  BY <5>1, <5>2
      <4>5. CASE StepBeginLegacy(u)
        BY <4>5 DEF StepBeginLegacy
      <4> QED  BY <4>2, <4>3, <4>4, <4>5
    <3>2. rev'[u].via = via /\ rev'[u].early = RunAlive /\ row.status # "none"
      BY <3>1, Zenon DEF StepBegin
    <3>3. run.pc # "none"
      BY <3>2 DEF Phases
    <3>4. via \in {"surgical", "legacy"} => run.pc = "saved"
      BY <3>1, <1>t DEF Phases, Rows
    <3>5. ~RunAlive => Over
      BY <3>3, <1>t DEF RunAlive, Over
    <3>6. run.pc = "saved" => ~RunAlive
      BY DEF RunAlive, Working
    <3> QED  BY <2>1, <3>1, <3>2, <3>4, <3>5, <3>6 DEF RevertPhases, Begun, Over
  <2> QED  BY <2>2, <2>3
<1>4. ASSUME NEW c \in Channels, StepOutside(c) \/ StepRename(c)
      PROVE  RevertPhases'
  <2>1. UNCHANGED <<snap, run, rev>>
    BY <1>4, Zenon DEF StepOutside, StepRename
  <2> QED  BY <2>1, Zenon DEF RevertPhases, Begun, Over
<1> QED  BY <1>1, <1>2, <1>3, <1>4, Zenon DEF Kinds

\* The lists depend on the snapshot, the journal and the recorded modifications only.
LEMMA SameSnapshotList ==
  ASSUME snap' = snap
  PROVE  \A q : SnapshotWrites(q)' = SnapshotWrites(q)
BY Zenon DEF SnapshotWrites, SnapshotPayload

LEMMA SameUnmergeList ==
  ASSUME journal' = journal
  PROVE  Merged' = Merged /\ (\A c : Added(c)' = Added(c)) /\ \A q : Unmerges(q)' = Unmerges(q)
<1>1. Page' = Page
  BY Zenon DEF Page
<1>2. Merged' = Merged
  BY <1>1, Zenon DEF Merged
<1>3. \A c : Added(c)' = Added(c)
  BY <1>1, Zenon DEF Added
<1>4. \A q : Unmerges(q)' = Unmerges(q)
  BY <1>1, <1>3, Zenon DEF Unmerges, Added
<1> QED  BY <1>2, <1>3, <1>4

LEMMA SameRestoreList ==
  ASSUME row'.modified = row.modified
  PROVE  Restores' = Restores
<1>1. ModifiedBackward' = ModifiedBackward
  BY Zenon DEF ModifiedBackward
<1> QED  BY <1>1, Zenon DEF Restores

\* A list that is there stays what it is while its sources stay.
LEMMA ListStays ==
  ASSUME snap' = snap, journal' = journal, row'.modified = row.modified, Lists, NEW u \in Reverts,
         rev'[u].via = rev[u].via, rev'[u].todo = rev[u].todo
  PROVE  /\ rev'[u].via = "snapshot" => \E q \in Orders(DOMAIN snap'.of) : rev'[u].todo = SnapshotWrites(q)'
         /\ rev'[u].via = "surgical" => /\ \E q \in Orders(Merged)' : rev'[u].todo = Unmerges(q)'
                                        /\ Len(journal') <= PageSize /\ Len(journal') = Len(row'.modified)
         /\ rev'[u].via = "legacy" /\ journal' # <<>> => \E q \in Orders(Merged)' : rev'[u].todo = Unmerges(q)'
         /\ rev'[u].via = "legacy" /\ journal' = <<>> => rev'[u].todo = Restores'
<1>1. /\ \A q : SnapshotWrites(q)' = SnapshotWrites(q)
      /\ \A q : Unmerges(q)' = Unmerges(q)
      /\ Restores' = Restores
  BY SameSnapshotList, SameUnmergeList, SameRestoreList
<1>2. Orders(Merged)' = Orders(Merged)
  BY SameUnmergeList, Zenon DEF Orders
<1> QED  BY <1>1, <1>2, Zenon DEF Lists

LEMMA ListsKept ==
  ASSUME TypeOK, TypeOK', Phases, RevertPhases, Lists, Kinds
  PROVE  Lists'
<1>1. CASE RunKinds
  <2>1. rev' = rev /\ run.pc \in {"none", "loaded"} \cup Working /\ (run.pc \in Working => snap' = snap)
    BY <1>1, RunSummary, Zenon
  <2>2. run.pc # "saved"
    BY <2>1 DEF Working
  <2>3. \A u \in Reverts : rev[u].via \notin {"surgical", "legacy"}
    BY <2>2, Zenon DEF RevertPhases
  <2>4. CASE run.pc \in Working
    <3>1. \A q : SnapshotWrites(q)' = SnapshotWrites(q)
      BY <2>1, <2>4, SameSnapshotList
    <3> QED  BY <2>1, <2>3, <2>4, <3>1, Zenon DEF Lists
  <2>5. CASE run.pc \in {"none", "loaded"}
    <3>1. ~snap.taken
      BY <2>5 DEF Phases
    <3>2. \A u \in Reverts : rev[u].via # "snapshot"
      BY <3>1, Zenon DEF RevertPhases
    <3> QED  BY <2>1, <2>3, <3>2, Zenon DEF Lists
  <2> QED  BY <2>1, <2>4, <2>5
<1>2. CASE StepCrash
  <2>1. snap' = snap /\ journal' = journal /\ row'.modified = row.modified
    BY <1>2, Zenon DEF StepCrash, Books
  <2>2. \A u \in Reverts : rev'[u].via = rev[u].via /\ rev'[u].todo = rev[u].todo
    BY <1>2, CrashSummary
  <2> QED  BY <2>1, <2>2, ListStays, Zenon DEF Lists
<1>3. ASSUME NEW u \in Reverts, RevertKinds(u)
      PROVE  Lists'
  <2>1. /\ snap' = snap /\ journal' = journal /\ row'.modified = row.modified
        /\ \A w \in Reverts : w # u => rev'[w] = rev[w]
        /\ rev[u].pc # "idle" => rev'[u].via = rev[u].via /\ rev'[u].todo = rev[u].todo
    BY <1>3, RevertSummary, Zenon DEF OthersStay
  <2>2. CASE rev[u].pc # "idle"
    <3>1. \A w \in Reverts : rev'[w].via = rev[w].via /\ rev'[w].todo = rev[w].todo
      BY <2>1, <2>2, Zenon
    <3> QED  BY <2>1, <3>1, ListStays, Zenon DEF Lists
  <2>3. CASE rev[u].pc = "idle"
    <3>s. \A q : SnapshotWrites(q)' = SnapshotWrites(q) /\ Unmerges(q)' = Unmerges(q)
      BY <2>1, SameSnapshotList, SameUnmergeList
    <3>r. Restores' = Restores /\ Orders(Merged)' = Orders(Merged)
      <4>1. Merged' = Merged
        BY <2>1, SameUnmergeList
      <4> QED  BY <2>1, <4>1, SameRestoreList, Zenon DEF Orders
    <3>1. /\ rev'[u].via = "snapshot" => \E q \in Orders(DOMAIN snap'.of) : rev'[u].todo = SnapshotWrites(q)'
          /\ rev'[u].via = "surgical" => /\ \E q \in Orders(Merged)' : rev'[u].todo = Unmerges(q)'
                                         /\ Len(journal') <= PageSize /\ Len(journal') = Len(row'.modified)
          /\ rev'[u].via = "legacy" /\ journal' # <<>> => \E q \in Orders(Merged)' : rev'[u].todo = Unmerges(q)'
          /\ rev'[u].via = "legacy" /\ journal' = <<>> => rev'[u].todo = Restores'
      <4>1. StepBeginSnapshot(u) \/ StepBeginSurgical(u) \/ StepBeginLegacy(u)
        <5>1. rev[u].pc # "work"
          BY <2>3
        <5> QED  BY <1>3, <5>1, Zenon DEF RevertKinds, StepDelete, StepRead, StepPass, StepTake, StepPut,
                   StepMark, Advances, Busy
      <4>2. CASE StepBeginSnapshot(u)
        <5>1. PICK q \in Orders(DOMAIN snap.of) : rev'[u].via = "snapshot" /\ rev'[u].todo = SnapshotWrites(q)
          BY <4>2, Zenon DEF StepBeginSnapshot, StepBegin
        <5> QED  BY <2>1, <3>s, <5>1
      <4>3. CASE StepBeginSurgical(u)
        <5>1. PICK q \in Orders(Merged) : /\ rev'[u].via = "surgical" /\ rev'[u].todo = Unmerges(q)
                                          /\ JournalCovers(row.created, row.modified)
          BY <4>3, Zenon DEF StepBeginSurgical, StepBegin
        <5>2. Len(journal) <= PageSize /\ Len(journal) = Len(row.modified)
          BY <5>1, Zenon DEF JournalCovers
        <5> QED  BY <2>1, <3>s, <3>r, <5>1, <5>2
      <4>4. CASE StepBeginLegacy(u)
        <5>1. PICK q \in Orders(Merged) :
                rev'[u].via = "legacy" /\ rev'[u].todo = IF journal # <<>> THEN Unmerges(q) ELSE Restores
          BY <4>4, Zenon DEF StepBeginLegacy, StepBegin
        <5> QED  BY <2>1, <3>s, <3>r, <5>1
      <4> QED  BY <4>1, <4>2, <4>3, <4>4
    <3>2. ASSUME NEW w \in Reverts, w # u
          PROVE  /\ rev'[w].via = "snapshot" => \E q \in Orders(DOMAIN snap'.of) : rev'[w].todo = SnapshotWrites(q)'
                 /\ rev'[w].via = "surgical" => /\ \E q \in Orders(Merged)' : rev'[w].todo = Unmerges(q)'
                                                /\ Len(journal') <= PageSize /\ Len(journal') = Len(row'.modified)
                 /\ rev'[w].via = "legacy" /\ journal' # <<>> => \E q \in Orders(Merged)' : rev'[w].todo = Unmerges(q)'
                 /\ rev'[w].via = "legacy" /\ journal' = <<>> => rev'[w].todo = Restores'
      <4>1. rev'[w].via = rev[w].via /\ rev'[w].todo = rev[w].todo
        BY <2>1, <3>2, Zenon
      <4> QED  BY <2>1, <4>1, ListStays, Zenon
    <3> QED  BY <3>1, <3>2, Zenon DEF Lists
  <2> QED  BY <2>2, <2>3
<1>4. ASSUME NEW c \in Channels, StepOutside(c) \/ StepRename(c)
      PROVE  Lists'
  <2>1. UNCHANGED <<snap, journal, row, rev>>
    BY <1>4, Zenon DEF StepOutside, StepRename
  <2> QED  BY <2>1, ListStays, Zenon DEF Lists
<1> QED  BY <1>1, <1>2, <1>3, <1>4, Zenon DEF Kinds

\* Who made the row rolled_back.
LEMMA MarkedKept ==
  ASSUME TypeOK, TypeOK', Phases, RevertPhases, Marked, Kinds
  PROVE  Marked'
<1>t. \A u \in Reverts : rev[u] \in RevertStates /\ rev'[u] \in RevertStates
  BY DEF TypeOK
<1>1. CASE RunKinds
  <2>1. rev' = rev /\ mark' = mark
    BY <1>1, RunSummary, Zenon
  <2>2. row'.status = "rolled_back" => row.status = "rolled_back"
    <3>1. ~StepLoad => row' = row \/ StepEnd
      BY <1>1, Zenon DEF RunKinds, StepCapture, StepOther, StepAdd, StepRemove, StepUpdate,
           StepPrune, StepBlind, Writes, Target
    <3>2. StepLoad => row'.status # "rolled_back"
      BY DEF StepLoad
    <3>3. StepEnd => (row'.status = "rolled_back" => row.status = "rolled_back")
      BY Zenon DEF StepEnd
    <3> QED  BY <3>1, <3>2, <3>3, Zenon
  <2> QED  BY <2>1, <2>2, Zenon DEF Marked
<1>2. CASE StepCrash
  <2>1. mark' = mark /\ (row'.status = "rolled_back" => row.status = "rolled_back")
    BY <1>2, Zenon DEF StepCrash
  <2>2. \A u \in Reverts :
          /\ rev'[u].via = rev[u].via /\ rev'[u].early = rev[u].early /\ rev'[u].todo = rev[u].todo
          /\ rev'[u].at = rev[u].at /\ rev'[u].doomed = rev[u].doomed /\ rev'[u].failed = rev[u].failed
          /\ rev[u].pc = "done" => rev'[u].pc = "done"
    BY <1>2, CrashSummary
  <2> QED  BY <2>1, <2>2 DEF Marked
<1>3. ASSUME NEW u \in Reverts, RevertKinds(u)
      PROVE  Marked'
  <2>1. /\ \A w \in Reverts : w # u => rev'[w] = rev[w]
        /\ (row' = row /\ mark' = mark) \/ row'.status = "rolled_back"
        /\ rev[u].pc # "done"
    BY <1>3, RevertSummary DEF OthersStay
  <2>2. CASE row' = row /\ mark' = mark
    BY <2>1, <2>2 DEF Marked
  <2>3. CASE ~(row' = row /\ mark' = mark)
    <3>1. StepMark(u)
      BY <1>3, <2>3, Zenon DEF RevertKinds, StepBeginSnapshot, StepBeginSurgical, StepBeginLegacy, StepBegin,
           StepDelete, StepRead, StepPass, StepTake, StepPut, Advances
    <3>2. /\ rev'[u].pc = "done" /\ ~rev'[u].doomed /\ ~rev[u].failed /\ rev'[u].failed = rev[u].failed
          /\ rev[u].at > Len(rev[u].todo) /\ rev'[u].at = rev[u].at /\ rev'[u].todo = rev[u].todo
          /\ mark'.via = rev[u].via /\ mark'.early = rev[u].early
          /\ rev'[u].via = rev[u].via /\ rev'[u].early = rev[u].early
      BY <2>3, <3>1, Zenon DEF StepMark, Stays
    <3> QED  BY <3>2, Zenon DEF Marked
  <2> QED  BY <2>2, <2>3
<1>4. ASSUME NEW c \in Channels, StepOutside(c) \/ StepRename(c)
      PROVE  Marked'
  <2>1. UNCHANGED <<row, mark, rev>>
    BY <1>4, Zenon DEF StepOutside, StepRename
  <2> QED  BY <2>1, Zenon DEF Marked
<1> QED  BY <1>1, <1>2, <1>3, <1>4, Zenon DEF Kinds

-----------------------------------------------------------------------------
(* The items of a revert, by its way *)

LEMMA SnapshotItems ==
  ASSUME TypeOK, Lists, NEW u \in Reverts, rev[u].via = "snapshot"
  PROVE  /\ \A i \in DOMAIN rev[u].todo :
              /\ rev[u].todo[i].op = "put" /\ rev[u].todo[i].c \in DOMAIN snap.of /\ rev[u].todo[i].c \in Channels
              /\ rev[u].todo[i].vals = SnapshotPayload(rev[u].todo[i].c)
         /\ \A c \in DOMAIN snap.of : \E i \in DOMAIN rev[u].todo : rev[u].todo[i].c = c
<1>1. PICK q \in Orders(DOMAIN snap.of) : rev[u].todo = SnapshotWrites(q)
  BY Zenon DEF Lists
<1> QED  BY <1>1, SnapshotList

LEMMA UnmergeItems ==
  ASSUME TypeOK, Lists, NEW u \in Reverts, rev[u].via = "surgical" \/ (rev[u].via = "legacy" /\ journal # <<>>)
  PROVE  /\ \A i \in DOMAIN rev[u].todo :
              /\ rev[u].todo[i].op = "take" /\ rev[u].todo[i].c \in Channels
              /\ rev[u].todo[i].ss = Added(rev[u].todo[i].c)
         /\ \A c \in Merged : \E i \in DOMAIN rev[u].todo : rev[u].todo[i].c = c
<1>1. PICK q \in Orders(Merged) : rev[u].todo = Unmerges(q)
  BY Zenon DEF Lists
<1> QED  BY <1>1, UnmergeList

LEMMA RestoreItems ==
  ASSUME TypeOK, Phases, RevertPhases, Lists, NEW u \in Reverts, rev[u].via = "legacy", journal = <<>>
  PROVE  /\ rev[u].todo \in Seq(Item) /\ Len(rev[u].todo) = Len(run.log) /\ run.log \in Seq(Modification)
         /\ \A i \in DOMAIN rev[u].todo : At(i) \in DOMAIN run.log /\ rev[u].todo[i] = PutBackOf(run.log[At(i)])
<1>1. rev[u].todo = Restores /\ run.log = row.modified
  BY DEF Lists, RevertPhases, Phases
<1>2. run.log \in Seq(Modification)
  BY RunFields DEF TypeOK
<1> QED  BY <1>1, <1>2, RestoreList DEF At

\* What putting back a modification writes.
LEMMA PutBackFacts ==
  ASSUME NEW m \in Modification
  PROVE  /\ m.type = "channel" => /\ PutBackOf(m).op = "put" /\ PutBackOf(m).c = m.c
                                  /\ PutBackOf(m).vals = Only(m.f, m.prev)
         /\ m.type # "channel" => m.type = "stream" /\ PutBackOf(m).op = "skip"
         /\ m.c \in Channels
         /\ \/ m.f = "streams" /\ m.prev \in SUBSET Streams
            \/ m.f \in {"key", "other"} /\ m.prev \in Values /\ m.type = "channel"
         /\ Only(m.f, m.prev) \in Payload
<1>1. CASE m \in [c : Channels, type : {"channel", "stream"}, f : {"streams"}, prev : SUBSET Streams]
  <2>1. m.c \in Channels /\ m.f = "streams" /\ m.prev \in SUBSET Streams /\ m.type \in {"channel", "stream"}
    BY <1>1
  <2>2. Only(m.f, m.prev) \in Payload
    BY <2>1, OnlyStreams
  <2> QED  BY <2>1, <2>2 DEF PutBackOf, Put, Skip
<1>2. CASE m \in [c : Channels, type : {"channel"}, f : {"key", "other"}, prev : Values]
  <2>1. m.c \in Channels /\ m.f \in {"key", "other"} /\ m.prev \in Values /\ m.type = "channel"
    BY <1>2
  <2>2. Only(m.f, m.prev) \in Payload
    BY <2>1, OnlyValue
  <2> QED  BY <2>1, <2>2 DEF PutBackOf, Put, Skip
<1> QED  BY <1>1, <1>2 DEF Modification

\* The item a revert is at.
LEMMA AtItem ==
  ASSUME TypeOK, NEW u \in Reverts, rev[u].at <= Len(rev[u].todo)
  PROVE  rev[u].at \in DOMAIN rev[u].todo /\ Current(u) = rev[u].todo[rev[u].at]
<1>1. rev[u].todo \in Seq(Item) /\ rev[u].at \in Nat \ {0}
  BY RevertFields DEF TypeOK
<1> QED  BY <1>1 DEF Current

LEMMA PutFacts ==
  ASSUME TypeOK, Phases, RevertPhases, Lists, NEW u \in Reverts, StepPut(u)
  PROVE  /\ Current(u).c \in Channels /\ Current(u).vals \in Payload
         /\ \/ /\ rev[u].via = "snapshot" /\ Current(u).c \in DOMAIN snap.of
               /\ Current(u).vals = SnapshotPayload(Current(u).c)
            \/ /\ rev[u].via = "legacy" /\ journal = <<>> /\ At(rev[u].at) \in DOMAIN run.log
               /\ run.log[At(rev[u].at)].type = "channel" /\ Current(u).c = run.log[At(rev[u].at)].c
               /\ Current(u).vals = Only(run.log[At(rev[u].at)].f, run.log[At(rev[u].at)].prev)
<1>1. rev[u].pc = "work" /\ rev[u].at <= Len(rev[u].todo) /\ Current(u).op = "put"
  BY Zenon DEF StepPut, Advances
<1>2. rev[u].at \in DOMAIN rev[u].todo /\ Current(u) = rev[u].todo[rev[u].at]
  BY <1>1, AtItem
<1>3. rev[u].via \in {"snapshot", "surgical", "legacy"}
  <2>1. rev[u].via \in Via
    BY RevertFields DEF TypeOK
  <2> QED  BY <1>1, <2>1 DEF RevertPhases, Via
<1>4. CASE rev[u].via = "snapshot"
  <2>1. Current(u).c \in DOMAIN snap.of /\ Current(u).c \in Channels /\ Current(u).vals = SnapshotPayload(Current(u).c)
    BY <1>2, <1>4, SnapshotItems
  <2>2. snap.of[Current(u).c] \in Channel
    BY <2>1 DEF TypeOK
  <2>3. snap.of[Current(u).c]["streams"] \in SUBSET Streams /\ snap.of[Current(u).c]["key"] \in Values
    BY <2>2, FieldTypes
  <2>4. Current(u).vals \in Payload
    BY <2>1, <2>3 DEF SnapshotPayload, Payload
  <2> QED  BY <1>4, <2>1, <2>4
<1>5. CASE rev[u].via = "surgical" \/ (rev[u].via = "legacy" /\ journal # <<>>)
  <2>1. Current(u).op = "take"
    BY <1>2, <1>5, UnmergeItems
  <2> QED  BY <1>1, <2>1
<1>6. CASE rev[u].via = "legacy" /\ journal = <<>>
  <2>1. /\ At(rev[u].at) \in DOMAIN run.log /\ Current(u) = PutBackOf(run.log[At(rev[u].at)])
        /\ run.log \in Seq(Modification)
    BY <1>2, <1>6, RestoreItems
  <2>2. run.log[At(rev[u].at)] \in Modification
    BY <2>1
  <2>3. run.log[At(rev[u].at)].type = "channel"
    BY <1>1, <2>1, <2>2, PutBackFacts
  <2> QED  BY <1>6, <2>1, <2>2, <2>3, PutBackFacts
<1> QED  BY <1>3, <1>4, <1>5, <1>6

LEMMA TakeFacts ==
  ASSUME TypeOK, Phases, RevertPhases, Lists, NEW u \in Reverts, rev[u].pc = "work",
         rev[u].at <= Len(rev[u].todo), Current(u).op = "take"
  PROVE  /\ rev[u].via = "surgical" \/ (rev[u].via = "legacy" /\ journal # <<>>)
         /\ Current(u).c \in Channels /\ Current(u).ss = Added(Current(u).c)
<1>2. rev[u].at \in DOMAIN rev[u].todo /\ Current(u) = rev[u].todo[rev[u].at]
  BY AtItem
<1>3. rev[u].via \in {"snapshot", "surgical", "legacy"}
  <2>1. rev[u].via \in Via
    BY RevertFields DEF TypeOK
  <2> QED  BY <2>1 DEF RevertPhases, Via
<1>4. CASE rev[u].via = "snapshot"
  <2>1. Current(u).op = "put"
    BY <1>2, <1>4, SnapshotItems
  <2> QED  BY <2>1
<1>5. CASE rev[u].via = "surgical" \/ (rev[u].via = "legacy" /\ journal # <<>>)
  BY <1>2, <1>5, UnmergeItems
<1>6. CASE rev[u].via = "legacy" /\ journal = <<>>
  <2>1. /\ At(rev[u].at) \in DOMAIN run.log /\ Current(u) = PutBackOf(run.log[At(rev[u].at)])
        /\ run.log \in Seq(Modification)
    BY <1>2, <1>6, RestoreItems
  <2>2. run.log[At(rev[u].at)] \in Modification
    BY <2>1
  <2> QED  BY <2>1, <2>2, PutBackFacts
<1> QED  BY <1>3, <1>4, <1>5, <1>6

-----------------------------------------------------------------------------
(* Masters *)

\* A write of the run that was seen to succeed: the field and the value fit.
Fits(f, v) == (f = "streams" /\ v \in SUBSET Streams) \/ (f \in {"key", "other"} /\ v \in Values)
WriteKinds ==
  \/ \E c \in Channels, e \in Entry : StepAdd(c, e)
  \/ \E c \in Channels, v \in SUBSET Streams : StepRemove(c, v)
  \/ \E c \in Channels, f \in {"key", "other"} : StepUpdate(c, f)

LEMMA WriteFits ==
  ASSUME TypeOK, WriteKinds
  PROVE  \E c \in Channels, type \in {"channel", "stream"} : \E f, v : Writes(c, f, v, type) /\ Fits(f, v)
<1>0. "new" \in Values /\ "channel" \in {"channel", "stream"} /\ "stream" \in {"channel", "stream"}
  BY DEF Values
<1>1. ASSUME NEW c \in Channels, NEW e \in Entry, StepAdd(c, e)
      PROVE  \E type \in {"channel", "stream"} : \E f, v : Writes(c, f, v, type) /\ Fits(f, v)
  <2>1. Writes(c, "streams", run.cache[c].streams \cup {e.s}, "channel")
    BY <1>1, Zenon DEF StepAdd
  <2>2. run.cache[c].streams \in SUBSET Streams /\ e.s \in Streams
    BY RunFields, FieldTypes DEF TypeOK, Entry
  <2>3. Fits("streams", run.cache[c].streams \cup {e.s})
    BY <2>2 DEF Fits
  <2> QED  BY <1>0, <2>1, <2>3, Zenon
<1>2. ASSUME NEW c \in Channels, NEW v \in SUBSET Streams, StepRemove(c, v)
      PROVE  \E type \in {"channel", "stream"} : \E f, w : Writes(c, f, w, type) /\ Fits(f, w)
  <2>1. Writes(c, "streams", v, "stream") /\ Fits("streams", v)
    BY <1>2, Zenon DEF StepRemove, Fits
  <2> QED  BY <1>0, <2>1, Zenon
<1>3. ASSUME NEW c \in Channels, NEW f \in {"key", "other"}, StepUpdate(c, f)
      PROVE  \E type \in {"channel", "stream"} : \E g, v : Writes(c, g, v, type) /\ Fits(g, v)
  <2>1. Writes(c, f, "new", "channel") /\ Fits(f, "new")
    BY <1>0, <1>3, Zenon DEF StepUpdate, Fits
  <2> QED  BY <1>0, <2>1, Zenon
<1> QED  BY <1>1, <1>2, <1>3, Zenon DEF WriteKinds

LEMMA FitsFacts ==
  ASSUME NEW f, NEW v, Fits(f, v)
  PROVE  Only(f, v) \in Payload /\ DOMAIN Only(f, v) = {f} /\ Only(f, v)[f] = v /\ f \in Fields
BY OnlyStreams, OnlyValue DEF Fits, Fields

\* Writing a payload leaves the key of a channel it is not about.
LEMMA WithKey ==
  ASSUME NEW chs \in [Channels -> Channel], NEW c \in Channels, NEW vals \in Payload, NEW d \in Channels,
         d # c \/ "key" \notin DOMAIN vals
  PROVE  With(chs, c, vals)[d].key = chs[d].key
<1> DEFINE new == With(chs, c, vals)
<1>1. new \in [Channels -> Channel] /\ \A e \in Channels : e # c => new[e] = chs[e]
  BY WithFacts
<1>2. d = c => new[c]["key"] = chs[c]["key"]
  BY WithFacts DEF Fields
<1> HIDE DEF new
<1>3. new[d] \in Channel /\ chs[d] \in Channel
  BY <1>1
<1>4. new[d].key = chs[d].key
  BY <1>1, <1>2, <1>3, FieldTypes
<1> QED  BY <1>4 DEF new

LEMMA MasterKey ==
  ASSUME TypeOK, TypeOK', Phases, RevertPhases, Lists, MastersOwn, Kinds, edits' = edits, NEW c \in Masters
  PROVE  ch'[c].key = ch[c].key
<1>c. c \in Channels /\ ch \in [Channels -> Channel]
  BY RevertAssumption DEF TypeOK
<1>1. CASE StepLoad \/ StepCapture \/ StepOther \/ StepEnd \/ StepCrash
  BY <1>1, Zenon DEF StepLoad, StepCapture, StepOther, StepEnd, StepCrash
<1>2. CASE WriteKinds
  <2>1. PICK d \in Channels, type \in {"channel", "stream"} : \E f, v : Writes(d, f, v, type) /\ Fits(f, v)
    BY <1>2, WriteFits, Zenon
  <2>2. PICK f, v : Writes(d, f, v, type) /\ Fits(f, v)
    BY <2>1, Zenon
  <2>3. ch' = With(ch, d, Only(f, v)) /\ (d \in Masters => f = "streams")
    BY <2>2, Zenon DEF Writes, Target
  <2>4. Only(f, v) \in Payload /\ DOMAIN Only(f, v) = {f}
    BY <2>2, FitsFacts
  <2>5. c # d \/ "key" \notin DOMAIN Only(f, v)
    BY <2>3, <2>4
  <2> HIDE DEF Fits
  <2> QED  BY <1>c, <2>3, <2>4, <2>5, WithKey
<1>3. ASSUME NEW d \in Channels, NEW v \in SUBSET Streams, StepPrune(d, v)
      PROVE  ch'[c].key = ch[c].key
  <2>1. ch' = With(ch, d, Only("streams", v))
    BY <1>3, Zenon DEF StepPrune
  <2>2. Only("streams", v) \in Payload /\ DOMAIN Only("streams", v) = {"streams"}
    BY OnlyStreams
  <2>3. "key" \notin DOMAIN Only("streams", v)
    BY <2>2
  <2> QED  BY <1>c, <2>1, <2>2, <2>3, WithKey
<1>4. ASSUME NEW d \in Channels, NEW vals \in Payload, StepBlind(d, vals)
      PROVE  ch'[c].key = ch[c].key
  <2>1. (ch' = ch \/ ch' = With(ch, d, vals)) /\ (d \in Masters => "key" \notin DOMAIN vals)
    BY <1>4, Zenon DEF StepBlind
  <2>2. d # c \/ "key" \notin DOMAIN vals
    BY <2>1
  <2> QED  BY <1>c, <2>1, <2>2, WithKey
<1>5. ASSUME NEW u \in Reverts, RevertKinds(u)
      PROVE  ch'[c].key = ch[c].key
  <2>1. CASE ch' = ch
    BY <2>1
  <2>2. CASE StepTake(u) /\ ch' # ch
    <3> DEFINE v == rev[u].seen \ Current(u).ss
    <3>1. ch' = With(ch, Current(u).c, Only("streams", v))
      BY <2>2, Zenon DEF StepTake
    <3>2. Current(u).c \in Channels /\ v \in SUBSET Streams
      <4>1. rev[u].at <= Len(rev[u].todo) /\ Current(u).op = "take"
        BY <2>2, Zenon DEF StepTake, Busy
      <4>2. rev[u].seen \in SUBSET Streams
        BY RevertFields DEF TypeOK
      <4> QED  BY <4>1, <4>2, CurrentFacts
    <3> HIDE DEF v
    <3>3. Only("streams", v) \in Payload /\ DOMAIN Only("streams", v) = {"streams"}
      BY <3>2, OnlyStreams
    <3>4. "key" \notin DOMAIN Only("streams", v)
      BY <3>3
    <3> QED  BY <1>c, <3>1, <3>2, <3>3, <3>4, WithKey
  <2>3. CASE StepPut(u) /\ ch' # ch
    <3>1. ch' = With(ch, Current(u).c, Current(u).vals)
      BY <2>3, Zenon DEF StepPut
    <3>2. Current(u).c \in Channels /\ Current(u).vals \in Payload
      BY <2>3, PutFacts
    <3>3. Current(u).c # c \/ "key" \notin DOMAIN Current(u).vals
      <4>1. CASE Current(u).vals = SnapshotPayload(Current(u).c)
        <5>1. Current(u).c = c => DOMAIN SnapshotPayload(Current(u).c) = {"streams"}
          BY DEF SnapshotPayload
        <5> QED  BY <4>1, <5>1
      <4>2. CASE Current(u).vals # SnapshotPayload(Current(u).c)
        <5> DEFINE k == At(rev[u].at)
        <5>1. k \in DOMAIN run.log /\ Current(u).c = run.log[k].c
              /\ Current(u).vals = Only(run.log[k].f, run.log[k].prev)
          BY <2>3, <4>2, PutFacts
        <5> HIDE DEF k
        <5>2. run.log[k].c \in Masters => run.log[k].f = "streams"
          BY <5>1, Zenon DEF MastersOwn
        <5>3. DOMAIN Only(run.log[k].f, run.log[k].prev) = {run.log[k].f}
          BY DEF Only
        <5> QED  BY <5>1, <5>2, <5>3
      <4> QED  BY <4>1, <4>2
    <3> QED  BY <1>c, <3>1, <3>2, <3>3, WithKey
  <2>4. ch' = ch \/ StepTake(u) \/ StepPut(u)
    BY <1>5, Zenon DEF RevertKinds, StepBeginSnapshot, StepBeginSurgical, StepBeginLegacy, StepBegin,
         StepDelete, StepRead, StepPass, StepMark
  <2> QED  BY <2>1, <2>2, <2>3, <2>4, Zenon
<1>6. ASSUME NEW d \in Channels, StepOutside(d) \/ StepRename(d)
      PROVE  FALSE
  BY <1>6, Zenon DEF StepOutside, StepRename
<1> QED  BY <1>1, <1>2, <1>3, <1>4, <1>5, <1>6, Zenon DEF Kinds, RunKinds, WriteKinds

\* What the run logs, in any of its steps.
LEMMA LogGrows ==
  ASSUME TypeOK, Kinds
  PROVE  \/ run'.log = run.log
         \/ /\ WriteKinds
            /\ \E c \in Channels, type \in {"channel", "stream"} :
                 \E f, v : /\ Writes(c, f, v, type) /\ Fits(f, v)
                           /\ run'.log = Append(run.log, [c |-> c, type |-> type, f |-> f, prev |-> run.cache[c][f]])
<1>1. StepLoad \/ StepCapture \/ StepOther \/ StepEnd \/ StepCrash => run'.log = run.log
  BY Zenon DEF StepLoad, StepCapture, StepOther, StepEnd, StepCrash, Books
<1>2. ASSUME NEW d \in Channels, NEW v \in SUBSET Streams, StepPrune(d, v)
      PROVE  run'.log = run.log
  BY <1>2, Zenon DEF StepPrune
<1>3. ASSUME NEW d \in Channels, NEW vals \in Payload, StepBlind(d, vals)
      PROVE  run'.log = run.log
  BY <1>3, Zenon DEF StepBlind, Books
<1>4. ASSUME NEW u \in Reverts, RevertKinds(u)
      PROVE  run'.log = run.log
  BY <1>4, RevertSummary, Zenon
<1>5. ASSUME NEW d \in Channels, StepOutside(d) \/ StepRename(d)
      PROVE  run'.log = run.log
  BY <1>5, Zenon DEF StepOutside, StepRename
<1>6. CASE WriteKinds
  <2>1. PICK d \in Channels, type \in {"channel", "stream"} : \E f, v : Writes(d, f, v, type) /\ Fits(f, v)
    BY <1>6, WriteFits, Zenon
  <2> QED  BY <1>6, <2>1, Zenon DEF Writes
<1> QED  BY <1>1, <1>2, <1>3, <1>4, <1>5, <1>6, Zenon DEF Kinds, RunKinds, WriteKinds

LEMMA MastersOwnKept ==
  ASSUME TypeOK, TypeOK', Phases, RevertPhases, Lists, MastersOwn, Kinds
  PROVE  MastersOwn'
<1>1. \A i \in DOMAIN run'.log : run'.log[i].c \in Masters => run'.log[i].f = "streams"
  <2>1. CASE run'.log = run.log
    BY <2>1, Zenon DEF MastersOwn
  <2>2. CASE run'.log # run.log
    <3>1. PICK c \in Channels, type \in {"channel", "stream"} :
                 \E f, v : /\ Writes(c, f, v, type) /\ Fits(f, v)
                           /\ run'.log = Append(run.log, [c |-> c, type |-> type, f |-> f, prev |-> run.cache[c][f]])
      BY <2>2, LogGrows, Zenon
    <3>2. PICK f, v : /\ Writes(c, f, v, type) /\ Fits(f, v)
                      /\ run'.log = Append(run.log, [c |-> c, type |-> type, f |-> f, prev |-> run.cache[c][f]])
      BY <3>1, Zenon
    <3>3. c \in Masters => f = "streams"
      BY <3>2, Zenon DEF Writes, Target
    <3>4. run.log \in Seq(Modification)
      BY RunFields DEF TypeOK
    <3> DEFINE m == [c |-> c, type |-> type, f |-> f, prev |-> run.cache[c][f]]
    <3>5. m.c = c /\ m.f = f
      OBVIOUS
    <3>6. run'.log = Append(run.log, m)
      BY <3>2
    <3> HIDE DEF m
    <3>7. \A i \in DOMAIN run'.log : (i \in DOMAIN run.log /\ run'.log[i] = run.log[i]) \/ run'.log[i] = m
      BY <3>4, <3>6
    <3> QED  BY <3>3, <3>5, <3>7 DEF MastersOwn
  <2> QED  BY <2>1, <2>2
<1>2. ASSUME edits' = 0, NEW c \in Masters
      PROVE  ch'[c].key = "old"
  <2>1. edits' = edits
    <3>1. \A d \in Channels : ~StepOutside(d) /\ ~StepRename(d)
      BY <1>2, Zenon DEF StepOutside, StepRename
    <3> QED  BY <3>1, RunSummary, RevertSummary, Zenon DEF Kinds, StepCrash
  <2>2. ch'[c].key = ch[c].key
    BY <2>1, MasterKey
  <2> QED  BY <1>2, <2>1, <2>2 DEF MastersOwn
<1> QED  BY <1>1, <1>2 DEF MastersOwn

-----------------------------------------------------------------------------
(* The snapshot, and the reverts by it *)

LEMMA EditsZero ==
  ASSUME TypeOK, Kinds, edits' = 0
  PROVE  edits = 0 /\ (RunKinds \/ StepCrash \/ \E u \in Reverts : RevertKinds(u))
<1>1. \A d \in Channels : ~StepOutside(d) /\ ~StepRename(d)
  BY Zenon DEF StepOutside, StepRename
<1>2. edits' = edits
  BY <1>1, RunSummary, RevertSummary, Zenon DEF Kinds, StepCrash
<1> QED  BY <1>1, <1>2, Zenon DEF Kinds

LEMMA SnapshotIsStartKept ==
  ASSUME TypeOK, TypeOK', Phases, SnapshotIsStart, Kinds
  PROVE  SnapshotIsStart'
<1> SUFFICES ASSUME edits' = 0
             PROVE  \A c \in DOMAIN snap'.of : snap'.of[c].streams = StartStreams[c] /\ snap'.of[c].key = "old"
  BY Zenon DEF SnapshotIsStart
<1>1. edits = 0
  BY EditsZero
<1>2. CASE snap' = snap
  BY <1>1, <1>2, Zenon DEF SnapshotIsStart
<1>3. CASE StepCapture
  <2>1. run.cache = Start
    BY <1>1, <1>3, Zenon DEF Phases, StepCapture
  <2>2. \A c \in DOMAIN snap'.of : c \in Channels /\ snap'.of[c] = run.cache[c]
    BY <1>3 DEF StepCapture
  <2>3. \A c \in Channels : Start[c].streams = StartStreams[c] /\ Start[c].key = "old"
    BY DEF Start
  <2> QED  BY <2>1, <2>2, <2>3
<1>4. snap' = snap \/ StepCapture
  <2>1. CASE RunKinds
    <3>1. StepLoad => snap' = snap
      BY Zenon DEF StepLoad
    <3>2. ~StepLoad /\ ~StepCapture => run.pc \in Working
      <4>1. \A p \in {"rules", "attach"} : p \in Working
        BY DEF Working
      <4> QED  BY <2>1, <4>1, Zenon DEF RunKinds, StepOther, StepEnd, StepAdd, StepRemove, StepUpdate, Writes, Target,
                 StepPrune, StepBlind
    <3> QED  BY <2>1, <3>1, <3>2, RunSummary, Zenon
  <2>2. CASE StepCrash
    BY <2>2, Zenon DEF StepCrash
  <2>3. CASE \E u \in Reverts : RevertKinds(u)
    BY <2>3, RevertSummary, Zenon
  <2> QED  BY <2>1, <2>2, <2>3, EditsZero
<1> QED  BY <1>2, <1>3, <1>4

\* A write by the snapshot leaves its channel exact, and spoils no other.
LEMMA SnapshotPutExact ==
  ASSUME TypeOK, TypeOK', SnapshotIsStart, edits = 0, NEW c \in DOMAIN snap.of, c \in Channels,
         ch' = With(ch, c, SnapshotPayload(c)), SnapshotPayload(c) \in Payload
  PROVE  Exact(ch', c) /\ \A d \in Channels : Exact(ch, d) => Exact(ch', d)
<1> DEFINE P == SnapshotPayload(c)
<1>0. ch \in [Channels -> Channel] /\ ch' \in [Channels -> Channel]
  BY DEF TypeOK
<1>1. /\ \A d \in Channels : d # c => ch'[d] = ch[d]
      /\ \A f \in Fields : ch'[c][f] = IF f \in DOMAIN P THEN P[f] ELSE ch[c][f]
  BY <1>0, WithFacts
<1>2. /\ "streams" \in DOMAIN P /\ P["streams"] = snap.of[c]["streams"]
      /\ c \notin Masters => "key" \in DOMAIN P /\ P["key"] = snap.of[c]["key"]
  BY DEF SnapshotPayload
<1>3. ch'[c]["streams"] = snap.of[c]["streams"] /\ (c \notin Masters => ch'[c]["key"] = snap.of[c]["key"])
  <2> HIDE DEF P
  <2> QED  BY <1>1, <1>2 DEF Fields
<1>4. snap.of[c] \in Channel /\ ch'[c] \in Channel
  BY <1>0 DEF TypeOK
<1>5. ch'[c].streams = snap.of[c].streams /\ (c \notin Masters => ch'[c].key = snap.of[c].key)
  BY <1>3, <1>4, FieldTypes
<1>6. Exact(ch', c)
  BY <1>5 DEF Exact, SnapshotIsStart
<1> QED  BY <1>1, <1>6 DEF Exact

LEMMA RestoredKept ==
  ASSUME TypeOK, TypeOK', Phases, RevertPhases, Lists, SnapshotIsStart, Restored, Kinds
  PROVE  Restored'
<1> SUFFICES ASSUME edits' = 0, NoSurgical',
                    NEW u \in Reverts, rev'[u].via = "snapshot", ~rev'[u].early, ~rev'[u].failed,
                    NEW i \in DOMAIN rev'[u].todo, i < rev'[u].at
             PROVE  Exact(ch', rev'[u].todo[i].c)
  BY Zenon DEF Restored
<1>0. edits = 0 /\ (RunKinds \/ StepCrash \/ \E w \in Reverts : RevertKinds(w))
  BY EditsZero
<1>t. rev[u] \in RevertStates /\ rev'[u] \in RevertStates
  BY DEF TypeOK
<1>1. CASE RunKinds
  <2>1. rev' = rev /\ run.pc \in {"none", "loaded"} \cup Working
    BY <1>1, RunSummary, Zenon
  <2>2. ~Over
    BY <2>1 DEF Over, Working
  <2>3. rev[u].via = "snapshot" /\ ~rev[u].early
    BY <2>1, Zenon
  <2> QED  BY <2>2, <2>3 DEF RevertPhases, Begun
<1>2. CASE StepCrash
  <2>1. ch' = ch /\ \A w \in Reverts : rev'[w].via = rev[w].via
    BY <1>2, CrashSummary, Zenon DEF StepCrash
  <2>2. /\ rev[u].via = "snapshot" /\ ~rev[u].early /\ ~rev[u].failed
        /\ rev'[u].todo = rev[u].todo /\ rev'[u].at = rev[u].at
    BY <1>2, CrashSummary
  <2>3. NoSurgical
    BY <2>1, Zenon DEF NoSurgical
  <2>4. Exact(ch, rev[u].todo[i].c)
    BY <1>0, <2>2, <2>3 DEF Restored
  <2> QED  BY <2>1, <2>2, <2>4, Zenon DEF Exact
<1>3. ASSUME NEW w \in Reverts, RevertKinds(w)
      PROVE  Exact(ch', rev'[u].todo[i].c)
  <2>1. /\ snap' = snap /\ \A v \in Reverts : v # w => rev'[v] = rev[v]
        /\ rev[w].pc # "idle" => /\ rev'[w].via = rev[w].via /\ rev'[w].early = rev[w].early
                                 /\ rev'[w].todo = rev[w].todo
    BY <1>3, RevertSummary, Zenon DEF OthersStay
  <2>2. NoSurgical
    <3>1. rev[w].pc = "idle" => rev[w].via = "none"
      BY DEF RevertPhases
    <3> QED  BY <2>1, <3>1 DEF NoSurgical
  <2>3. snap.taken
    BY <2>1, RevertPhasesKept DEF RevertPhases
  <2>4. \A v \in Reverts : rev[v].via # "legacy" /\ rev[v].via # "surgical"
    BY <2>2, <2>3, Zenon DEF NoSurgical, RevertPhases
  <2>5. ~StepTake(w)
    <3>1. StepTake(w) => rev[w].pc = "work" /\ rev[w].at <= Len(rev[w].todo) /\ Current(w).op = "take"
      BY Zenon DEF StepTake, Busy
    <3> QED  BY <2>4, <3>1, TakeFacts
  <2>6. StepPut(w) => rev[w].via = "snapshot"
    BY <2>4, PutFacts
  <2>7. CASE w # u
    <3>1. rev'[u] = rev[u]
      BY <2>1, <2>7, Zenon
    <3>2. Exact(ch, rev[u].todo[i].c) /\ rev[u].todo[i].c \in Channels
      <4>1. rev[u].via = "snapshot" /\ ~rev[u].early /\ ~rev[u].failed /\ i \in DOMAIN rev[u].todo /\ i < rev[u].at
        BY <3>1, Zenon
      <4> QED  BY <1>0, <2>2, <4>1, SnapshotItems DEF Restored
    <3>3. CASE ch' = ch
      BY <3>1, <3>2, <3>3, Zenon DEF Exact
    <3>4. CASE ch' # ch
      <4>1. StepPut(w)
        BY <1>3, <2>5, <3>4, Zenon DEF RevertKinds, StepBeginSnapshot, StepBeginSurgical, StepBeginLegacy, StepBegin,
             StepDelete, StepRead, StepPass, StepMark
      <4>2. /\ Current(w).c \in DOMAIN snap.of /\ Current(w).c \in Channels
            /\ Current(w).vals = SnapshotPayload(Current(w).c) /\ Current(w).vals \in Payload
        BY <2>6, <4>1, PutFacts
      <4>3. ch' = With(ch, Current(w).c, SnapshotPayload(Current(w).c))
        BY <3>4, <4>1, <4>2, Zenon DEF StepPut
      <4>4. \A d \in Channels : Exact(ch, d) => Exact(ch', d)
        BY <1>0, <4>2, <4>3, SnapshotPutExact
      <4> QED  BY <3>1, <3>2, <4>4, Zenon
    <3> QED  BY <3>3, <3>4
  <2>8. CASE w = u
    <3>1. CASE rev[u].pc = "idle"
      <4>1. StepBeginSnapshot(u) \/ StepBeginSurgical(u) \/ StepBeginLegacy(u)
        <5>1. rev[u].pc # "work"
          BY <3>1
        <5> QED  BY <1>3, <2>8, <5>1, Zenon DEF RevertKinds, StepDelete, StepRead, StepPass, StepTake, StepPut,
                   StepMark, Advances, Busy
      <4>2. rev'[u].at = 1
        <5>1. rev'[u].at = rev[u].at
          BY <4>1, Zenon DEF StepBeginSnapshot, StepBeginSurgical, StepBeginLegacy, StepBegin
        <5> QED  BY <3>1, <5>1 DEF RevertPhases
      <4>3. rev'[u].todo \in Seq(Item)
        BY <1>t, RevertFields
      <4> QED  BY <4>2, <4>3
    <3>2. CASE rev[u].pc # "idle"
      <4>1. rev[u].via = "snapshot" /\ ~rev[u].early /\ rev'[u].todo = rev[u].todo
        BY <2>1, <2>8, <3>2, Zenon
      <4>2. \A j \in DOMAIN rev[u].todo : rev[u].todo[j].op = "put" /\ rev[u].todo[j].c \in Channels
        BY <4>1, SnapshotItems
      <4>3. CASE StepPut(u)
        <5>1. ch' = With(ch, Current(u).c, Current(u).vals) /\ ~rev[u].failed /\ rev'[u].at = rev[u].at + 1
              /\ rev[u].at <= Len(rev[u].todo)
          BY <4>1, <4>3, Zenon DEF StepPut, Advances
        <5>2. /\ Current(u).c \in DOMAIN snap.of /\ Current(u).c \in Channels
              /\ Current(u).vals = SnapshotPayload(Current(u).c) /\ Current(u).vals \in Payload
          BY <2>6, <2>8, <4>3, PutFacts
        <5>3. Exact(ch', Current(u).c) /\ \A d \in Channels : Exact(ch, d) => Exact(ch', d)
          BY <1>0, <5>1, <5>2, SnapshotPutExact
        <5>4. rev[u].todo \in Seq(Item) /\ rev[u].at \in Nat
          BY <1>t, RevertFields
        <5>5. CASE i = rev[u].at
          <6>1. rev'[u].todo[i].c = Current(u).c
            BY <4>1, <5>5, Zenon DEF Current
          <6> QED  BY <5>3, <6>1
        <5>6. CASE i # rev[u].at
          <6>1. i < rev[u].at /\ i \in DOMAIN rev[u].todo
            BY <4>1, <5>1, <5>4, <5>6
          <6>2. Exact(ch, rev[u].todo[i].c)
            BY <1>0, <2>2, <4>1, <5>1, <6>1 DEF Restored
          <6> QED  BY <4>1, <4>2, <5>3, <6>1, <6>2
        <5> QED  BY <5>5, <5>6
      <4>4. CASE ~StepPut(u)
        <5>1. ~StepPass(u)
          <6>1. StepPass(u) => rev[u].at <= Len(rev[u].todo) /\ Current(u).op # "put"
            BY DEF StepPass, Advances
          <6> QED  BY <4>2, <6>1, AtItem
        <5>2. ~StepBeginSnapshot(u) /\ ~StepBeginSurgical(u) /\ ~StepBeginLegacy(u)
          BY <3>2, Zenon DEF StepBeginSnapshot, StepBeginSurgical, StepBeginLegacy, StepBegin
        <5>3. ch' = ch /\ rev'[u].at = rev[u].at /\ rev'[u].failed = rev[u].failed
          BY <1>3, <2>5, <2>8, <4>4, <5>1, <5>2, Zenon DEF RevertKinds, StepDelete, StepRead, StepMark
        <5>4. Exact(ch, rev[u].todo[i].c)
          BY <1>0, <2>2, <4>1, <5>3 DEF Restored
        <5> QED  BY <4>1, <5>3, <5>4, Zenon DEF Exact
      <4> QED  BY <4>3, <4>4
    <3> QED  BY <3>1, <3>2
  <2> QED  BY <2>7, <2>8
<1> QED  BY <1>0, <1>1, <1>2, <1>3

-----------------------------------------------------------------------------
(* What the run created *)

LEMMA NoFaults ==
  ASSUME TypeOK, Kinds, faults' = 0
  PROVE  faults = 0
<1>1. StepCrash => faults' = faults
  BY Zenon DEF StepCrash
<1>2. \A c \in Channels : StepOutside(c) \/ StepRename(c) => faults' = faults
  BY Zenon DEF StepOutside, StepRename
<1> QED  BY <1>1, <1>2, RunSummary, RevertSummary, Zenon DEF Kinds

\* A revert that begins.
LEMMA BeginKinds ==
  ASSUME NEW u \in Reverts, RevertKinds(u), rev[u].pc = "idle"
  PROVE  /\ StepBeginSnapshot(u) \/ StepBeginSurgical(u) \/ StepBeginLegacy(u)
         /\ \E via, todo : StepBegin(u, via, todo)
<1>1. rev[u].pc # "work"
  OBVIOUS
<1>2. StepBeginSnapshot(u) \/ StepBeginSurgical(u) \/ StepBeginLegacy(u)
  BY <1>1, Zenon DEF RevertKinds, StepDelete, StepRead, StepPass, StepTake, StepPut, StepMark, Advances, Busy
<1> QED  BY <1>2, Zenon DEF StepBeginSnapshot, StepBeginSurgical, StepBeginLegacy

LEMMA CreatedKnownKept ==
  ASSUME TypeOK, TypeOK', Phases, RevertPhases, CreatedKnown, Kinds
  PROVE  CreatedKnown'
<1> SUFFICES ASSUME faults' = 0
             PROVE  /\ made' => run'.made
                    /\ run'.pc = "saved" =>
                         \A u \in Reverts : rev'[u].pc # "idle" /\ ~rev'[u].early /\ ~rev'[u].doomed => ~made'
  BY Zenon DEF CreatedKnown, Begun
<1>0. faults = 0 /\ (made => run.made)
  BY NoFaults DEF CreatedKnown
<1>1. CASE RunKinds
  <2>1. rev' = rev /\ run.pc \in {"none", "loaded"} \cup Working
    BY <1>1, RunSummary, Zenon
  <2>2. ~Over
    BY <2>1 DEF Over, Working
  <2>3. \A u \in Reverts : rev'[u].pc # "idle" => rev'[u].early
    BY <2>1, <2>2, Zenon DEF RevertPhases, Begun
  <2>4. (made' = made /\ run'.made = run.made) \/ (made' => run'.made)
    BY <1>1, Zenon DEF RunKinds, StepLoad, StepCapture, StepOther, StepEnd, StepAdd, StepRemove, StepUpdate,
         StepPrune, StepBlind, Writes, Target
  <2>5. {made, made', run.made, run'.made} \subseteq BOOLEAN
    BY RunFields DEF TypeOK
  <2>6. made' => run'.made
    BY <1>0, <2>4, <2>5
  <2> QED  BY <2>3, <2>6, Zenon
<1>2. CASE StepCrash
  <2>1. made' = made /\ run'.made = run.made /\ (run'.pc = "saved" => run.pc = "saved")
    BY <1>2 DEF StepCrash
  <2>2. \A u \in Reverts : /\ rev'[u].pc # "idle" => rev[u].pc # "idle"
                           /\ rev'[u].early = rev[u].early /\ rev'[u].doomed = rev[u].doomed
    BY <1>2, CrashSummary
  <2> QED  BY <1>0, <2>1, <2>2, Zenon DEF CreatedKnown, Begun
<1>3. ASSUME NEW w \in Reverts, RevertKinds(w)
      PROVE  /\ made' => run'.made
             /\ run'.pc = "saved" =>
                  \A u \in Reverts : rev'[u].pc # "idle" /\ ~rev'[u].early /\ ~rev'[u].doomed => ~made'
  <2>1. /\ run' = run /\ (made' => made) /\ \A v \in Reverts : v # w => rev'[v] = rev[v]
        /\ rev[w].pc # "idle" => rev'[w].early = rev[w].early
    BY <1>3, RevertSummary, Zenon DEF OthersStay
  <2>2. ASSUME run.pc = "saved", NEW u \in Reverts, rev'[u].pc # "idle", ~rev'[u].early, ~rev'[u].doomed
        PROVE  ~made'
    <3>1. CASE u # w
      BY <1>0, <2>1, <2>2, <3>1, Zenon DEF CreatedKnown, Begun
    <3>2. CASE u = w /\ rev[u].pc = "idle"
      <4>1. rev'[u].doomed = row.created
        BY <1>3, <3>2, BeginKinds, Zenon DEF StepBegin
      <4>2. row.created = run.made
        BY <2>2, Zenon DEF Phases
      <4> QED  BY <1>0, <2>1, <2>2, <4>1, <4>2, Zenon
    <3>3. CASE u = w /\ rev[u].pc # "idle"
      <4>1. CASE StepDelete(u)
        BY <4>1, Zenon DEF StepDelete
      <4>2. CASE ~StepDelete(u)
        <5>1. ~rev[u].doomed
          BY <1>3, <3>3, <4>2, Zenon DEF RevertKinds, StepRead, StepPass, StepTake, StepPut, StepMark, Advances, Busy,
               StepBeginSnapshot, StepBeginSurgical, StepBeginLegacy, StepBegin
        <5> QED  BY <1>0, <2>1, <2>2, <3>3, <5>1, Zenon DEF CreatedKnown, Begun
      <4> QED  BY <4>1, <4>2
    <3> QED  BY <3>1, <3>2, <3>3
  <2> QED  BY <1>0, <2>1, <2>2, Zenon
<1>4. ASSUME NEW c \in Channels, StepOutside(c) \/ StepRename(c)
      PROVE  /\ made' => run'.made
             /\ run'.pc = "saved" =>
                  \A u \in Reverts : rev'[u].pc # "idle" /\ ~rev'[u].early /\ ~rev'[u].doomed => ~made'
  <2>1. UNCHANGED <<made, run, rev>>
    BY <1>4, Zenon DEF StepOutside, StepRename
  <2> QED  BY <1>0, <2>1, Zenon DEF CreatedKnown, Begun
<1> QED  BY <1>1, <1>2, <1>3, <1>4, Zenon DEF Kinds

-----------------------------------------------------------------------------
(* The journal, the buffer and the recorded modifications *)

\* Appending, and moving the buffer to the journal.
LEMMA AppendFacts ==
  ASSUME NEW T, NEW q \in Seq(T), NEW x
  PROVE  /\ Len(Append(q, x)) = Len(q) + 1 /\ Len(q) \in Nat
         /\ \A i \in DOMAIN q : i \in DOMAIN Append(q, x) /\ Append(q, x)[i] = q[i] /\ i <= Len(q)
         /\ Len(q) + 1 \in DOMAIN Append(q, x) /\ Append(q, x)[Len(q) + 1] = x
         /\ \A i \in DOMAIN Append(q, x) : i \in DOMAIN q \/ i = Len(q) + 1
         /\ \A i \in DOMAIN Append(q, x) : i \in Nat \ {0}
OBVIOUS

LEMMA MoveFacts ==
  ASSUME NEW T, NEW p \in Seq(T), NEW q \in Seq(T)
  PROVE  /\ Len(p \o q) = Len(p) + Len(q)
         /\ \A i \in DOMAIN p : i \in DOMAIN (p \o q) /\ (p \o q)[i] = p[i]
         /\ \A i \in DOMAIN q : Len(p) + i \in DOMAIN (p \o q) /\ (p \o q)[Len(p) + i] = q[i]
         /\ \A i \in DOMAIN (p \o q) : (i \in DOMAIN p /\ (p \o q)[i] = p[i])
                                       \/ \E k \in DOMAIN q : (p \o q)[i] = q[k]
<1>1. Len(p) \in Nat /\ Len(q) \in Nat /\ DOMAIN p = 1 .. Len(p) /\ DOMAIN q = 1 .. Len(q)
  OBVIOUS
<1>2. Len(p \o q) = Len(p) + Len(q) /\ DOMAIN (p \o q) = 1 .. Len(p) + Len(q)
  OBVIOUS
<1>3. \A i \in 1 .. Len(p) + Len(q) : (p \o q)[i] = IF i <= Len(p) THEN p[i] ELSE q[i - Len(p)]
  OBVIOUS
<1>4. \A i \in DOMAIN q : Len(p) + i \in DOMAIN (p \o q) /\ (p \o q)[Len(p) + i] = q[i]
  BY <1>1, <1>2, <1>3
<1>5. ASSUME NEW i \in DOMAIN (p \o q), i \notin DOMAIN p
      PROVE  \E k \in DOMAIN q : (p \o q)[i] = q[k]
  <2>1. i - Len(p) \in DOMAIN q /\ (p \o q)[i] = q[i - Len(p)]
    BY <1>1, <1>2, <1>3, <1>5
  <2> QED  BY <2>1
<1> QED  BY <1>1, <1>2, <1>3, <1>4, <1>5

LEMMA EnteredMoved ==
  ASSUME NEW p \in Seq(Entry), NEW q \in Seq(Entry), NEW c, NEW s, Entered(p, c, s) \/ Entered(q, c, s)
  PROVE  Entered(p \o q, c, s)
<1> DEFINE r == p \o q
<1>1. /\ \A i \in DOMAIN p : i \in DOMAIN r /\ r[i] = p[i]
      /\ \A i \in DOMAIN q : Len(p) + i \in DOMAIN r /\ r[Len(p) + i] = q[i]
  BY MoveFacts
<1> HIDE DEF r
<1>2. Entered(r, c, s)
  BY <1>1 DEF Entered
<1> QED  BY <1>2 DEF r

LEMMA EnteredAppended ==
  ASSUME NEW q \in Seq(Entry), NEW x \in Entry
  PROVE  /\ \A c, s : Entered(q, c, s) => Entered(Append(q, x), c, s)
         /\ Entered(Append(q, x), x.c, x.s) /\ Append(q, x) \in Seq(Entry)
<1> DEFINE r == Append(q, x)
<1>1. /\ \A i \in DOMAIN q : i \in DOMAIN r /\ r[i] = q[i]
      /\ Len(q) + 1 \in DOMAIN r /\ r[Len(q) + 1] = x
  BY AppendFacts
<1>2. r \in Seq(Entry)
  OBVIOUS
<1> HIDE DEF r
<1>3. (\A c, s : Entered(q, c, s) => Entered(r, c, s)) /\ Entered(r, x.c, x.s)
  BY <1>1 DEF Entered
<1> QED  BY <1>2, <1>3 DEF r

\* How the books change: not at all, by an entry, by another modification, by the last flush.
LEMMA BookKinds ==
  ASSUME TypeOK, Kinds
  PROVE  \/ journal' = journal /\ run'.buffer = run.buffer
         \/ \E c \in Channels, e \in Entry : StepAdd(c, e)
         \/ journal' = journal \o run.buffer /\ run'.buffer = <<>> /\ run'.log = run.log
<1>1. CASE RunKinds
  BY <1>1, Zenon DEF RunKinds, StepLoad, StepCapture, StepOther, StepEnd, StepRemove, StepUpdate, StepPrune, StepBlind,
       Books
<1>2. CASE StepCrash
  BY <1>2, Zenon DEF StepCrash, Books
<1>3. CASE \E u \in Reverts : RevertKinds(u)
  BY <1>3, RevertSummary, Zenon
<1>4. CASE \E c \in Channels : StepOutside(c) \/ StepRename(c)
  BY <1>4, Zenon DEF StepOutside, StepRename
<1> QED  BY <1>1, <1>2, <1>3, <1>4, Zenon DEF Kinds

\* What is entered stays entered.
LEMMA EnteredStays ==
  ASSUME TypeOK, Kinds
  PROVE  \A c, s : Entered(journal, c, s) \/ Entered(run.buffer, c, s) =>
                     Entered(journal', c, s) \/ Entered(run'.buffer, c, s)
<1>t. journal \in Seq(Entry) /\ run.buffer \in Seq(Entry)
  BY RunFields DEF TypeOK
<1>1. CASE journal' = journal /\ run'.buffer = run.buffer
  BY <1>1, Zenon
<1>2. CASE journal' = journal \o run.buffer
  BY <1>2, <1>t, EnteredMoved, Zenon
<1>3. ASSUME NEW d \in Channels, NEW e \in Entry, StepAdd(d, e)
      PROVE  \A c, s : Entered(journal, c, s) \/ Entered(run.buffer, c, s) =>
                         Entered(journal', c, s) \/ Entered(run'.buffer, c, s)
  <2>1. \A c, s : Entered(run.buffer, c, s) => Entered(Append(run.buffer, e), c, s)
    BY <1>t, EnteredAppended
  <2>2. Append(run.buffer, e) \in Seq(Entry)
    BY <1>t
  <2>3. CASE run'.buffer = Append(run.buffer, e) /\ journal' = journal
    BY <2>1, <2>3, Zenon
  <2>4. CASE journal' = journal \o Append(run.buffer, e)
    <3>1. \A c, s : Entered(journal, c, s) \/ Entered(Append(run.buffer, e), c, s) => Entered(journal', c, s)
      BY <1>t, <2>2, <2>4, EnteredMoved, Zenon
    <3> QED  BY <2>1, <3>1, Zenon
  <2> QED  BY <1>3, <2>3, <2>4, Zenon DEF StepAdd
<1> QED  BY <1>1, <1>2, <1>3, BookKinds, Zenon

LEMMA AddEnters ==
  ASSUME TypeOK, NEW d \in Channels, NEW e \in Entry, StepAdd(d, e)
  PROVE  Entered(journal', e.c, e.s) \/ Entered(run'.buffer, e.c, e.s)
<1>t. journal \in Seq(Entry) /\ run.buffer \in Seq(Entry)
  BY RunFields DEF TypeOK
<1>1. Entered(Append(run.buffer, e), e.c, e.s)
  BY <1>t, EnteredAppended
<1>2. Append(run.buffer, e) \in Seq(Entry)
  BY <1>t
<1>3. CASE run'.buffer = Append(run.buffer, e)
  BY <1>1, <1>3
<1>4. CASE journal' = journal \o Append(run.buffer, e)
  BY <1>t, <1>1, <1>2, <1>4, EnteredMoved
<1> QED  BY <1>3, <1>4, Zenon DEF StepAdd

LEMMA RecordedKept ==
  ASSUME TypeOK, TypeOK', Recorded, Kinds
  PROVE  Recorded'
<1>t. journal \in Seq(Entry) /\ run.buffer \in Seq(Entry) /\ run.log \in Seq(Modification)
  BY RunFields DEF TypeOK
<1>t2. journal' \in Seq(Entry) /\ run'.buffer \in Seq(Entry) /\ run'.log \in Seq(Modification)
  BY RunFields DEF TypeOK
<1> DEFINE M(c) == \E k \in DOMAIN run.log : Merging(k, c)
           M2(c) == \E k \in DOMAIN run'.log : run'.log[k].c = c /\ run'.log[k].f = "streams" /\ run'.log[k].type = "channel"
<1>l. Len(run'.log) >= Len(run.log) /\ \A c : M(c) => M2(c)
  <2>1. CASE run'.log = run.log
    BY <1>t, <2>1 DEF Merging
  <2>2. CASE \E x : run'.log = Append(run.log, x)
    <3>1. PICK x : run'.log = Append(run.log, x)
      BY <2>2
    <3>2. Len(run'.log) = Len(run.log) + 1 /\ \A i \in DOMAIN run.log : i \in DOMAIN run'.log /\ run'.log[i] = run.log[i]
      BY <1>t, <3>1, AppendFacts
    <3>3. Len(run'.log) >= Len(run.log)
      BY <1>t, <3>2
    <3>4. \A c : M(c) => M2(c)
      BY <3>2 DEF Merging
    <3> QED  BY <3>3, <3>4
  <2> QED  BY <2>1, <2>2, LogGrows, Zenon
<1>1. CASE journal' = journal /\ run'.buffer = run.buffer
  <2>1. Len(journal') + Len(run'.buffer) <= Len(run'.log)
    BY <1>1, <1>l, <1>t, <1>t2 DEF Recorded
  <2>2. /\ \A i \in DOMAIN journal' : M2(journal'[i].c)
        /\ \A i \in DOMAIN run'.buffer : M2(run'.buffer[i].c)
    BY <1>1, <1>l, Zenon DEF Recorded
  <2> QED  BY <2>1, <2>2 DEF Recorded, Merging
<1>2. CASE journal' = journal \o run.buffer /\ run'.buffer = <<>> /\ run'.log = run.log
  <2>1. Len(journal') + Len(run'.buffer) <= Len(run'.log)
    <3>1. Len(journal') = Len(journal) + Len(run.buffer) /\ Len(run'.buffer) = 0
      BY <1>2, <1>t, MoveFacts
    <3> QED  BY <1>2, <1>t, <3>1 DEF Recorded
  <2>2. \A i \in DOMAIN journal' : M(journal'[i].c)
    <3>1. \A i \in DOMAIN journal' : (i \in DOMAIN journal /\ journal'[i] = journal[i])
                                      \/ \E k \in DOMAIN run.buffer : journal'[i] = run.buffer[k]
      BY <1>2, <1>t, MoveFacts
    <3> QED  BY <3>1 DEF Recorded
  <2>3. DOMAIN run'.buffer = {}
    BY <1>2
  <2> QED  BY <1>l, <2>1, <2>2, <2>3 DEF Recorded, Merging
<1>3. ASSUME NEW d \in Channels, NEW e \in Entry, StepAdd(d, e)
      PROVE  Recorded'
  <2> DEFINE m == [c |-> d, type |-> "channel", f |-> "streams", prev |-> run.cache[d]["streams"]]
             b == Append(run.buffer, e)
  <2>1. run'.log = Append(run.log, m) /\ e.c = d
    BY <1>3, Zenon DEF StepAdd, Writes
  <2>2. m.c = d /\ m.f = "streams" /\ m.type = "channel"
    OBVIOUS
  <2> HIDE DEF m
  <2>3. Len(run'.log) = Len(run.log) + 1 /\ M2(d)
    BY <1>t, <2>1, <2>2, AppendFacts
  <2>4. b \in Seq(Entry) /\ Len(b) = Len(run.buffer) + 1 /\ \A i \in DOMAIN b : M2(b[i].c)
    <3>1. \A i \in DOMAIN b : (i \in DOMAIN run.buffer /\ b[i] = run.buffer[i]) \/ b[i] = e
      BY <1>t
    <3>2. b \in Seq(Entry) /\ Len(b) = Len(run.buffer) + 1
      BY <1>t
    <3>3. \A i \in DOMAIN run.buffer : M2(run.buffer[i].c)
      BY <1>l, Zenon DEF Recorded
    <3> HIDE DEF b
    <3> QED  BY <2>1, <2>3, <3>1, <3>2, <3>3
  <2>5. \A i \in DOMAIN journal : M2(journal[i].c)
    BY <1>l, Zenon DEF Recorded
  <2>6. CASE run'.buffer = b /\ journal' = journal
    <3>1. Len(journal') + Len(run'.buffer) <= Len(run'.log)
      BY <1>t, <2>3, <2>4, <2>6 DEF Recorded
    <3> HIDE DEF b
    <3>2. /\ \A i \in DOMAIN journal' : M2(journal'[i].c)
          /\ \A i \in DOMAIN run'.buffer : M2(run'.buffer[i].c)
      BY <2>4, <2>5, <2>6, Zenon
    <3> QED  BY <3>1, <3>2 DEF Recorded, Merging
  <2>7. CASE run'.buffer = <<>> /\ journal' = journal \o b
    <3> HIDE DEF b
    <3>1. Len(journal') = Len(journal) + Len(b) /\ Len(run'.buffer) = 0
      BY <1>t, <2>4, <2>7, MoveFacts
    <3>2. Len(journal') + Len(run'.buffer) <= Len(run'.log)
      BY <1>t, <2>3, <2>4, <3>1 DEF Recorded
    <3>3. \A i \in DOMAIN journal' : M2(journal'[i].c)
      <4>1. \A i \in DOMAIN journal' : (i \in DOMAIN journal /\ journal'[i] = journal[i])
                                        \/ \E k \in DOMAIN b : journal'[i] = b[k]
        BY <1>t, <2>4, <2>7, MoveFacts
      <4> QED  BY <2>4, <2>5, <4>1
    <3>4. DOMAIN run'.buffer = {}
      BY <2>7
    <3> QED  BY <3>2, <3>3, <3>4 DEF Recorded, Merging
  <2> QED  BY <1>3, <2>6, <2>7, Zenon DEF StepAdd
<1> QED  BY <1>1, <1>2, <1>3, BookKinds, Zenon

-----------------------------------------------------------------------------
(* Every stream is from before the run or entered *)

\* The streams after a write.
LEMMA WithList ==
  ASSUME NEW chs \in [Channels -> Channel], NEW c \in Channels, NEW vals \in Payload, NEW d \in Channels
  PROVE  With(chs, c, vals)[d].streams =
           IF d = c /\ "streams" \in DOMAIN vals THEN vals["streams"] ELSE chs[d].streams
<1> DEFINE new == With(chs, c, vals)
<1>1. new \in [Channels -> Channel] /\ \A e \in Channels : e # c => new[e] = chs[e]
  BY WithFacts
<1>2. new[c]["streams"] = IF "streams" \in DOMAIN vals THEN vals["streams"] ELSE chs[c]["streams"]
  BY WithFacts DEF Fields
<1> HIDE DEF new
<1>3. new[c] \in Channel /\ chs[c] \in Channel
  BY <1>1
<1>4. new[d].streams = IF d = c /\ "streams" \in DOMAIN vals THEN vals["streams"] ELSE chs[d].streams
  BY <1>1, <1>2, <1>3, FieldTypes
<1> QED  BY <1>4 DEF new

LEMMA WithListOnly ==
  ASSUME NEW chs \in [Channels -> Channel], NEW c \in Channels, NEW f, NEW v, Fits(f, v), NEW d \in Channels
  PROVE  With(chs, c, Only(f, v))[d].streams = IF d = c /\ f = "streams" THEN v ELSE chs[d].streams
<1>1. Only(f, v) \in Payload /\ DOMAIN Only(f, v) = {f} /\ Only(f, v)[f] = v
  BY FitsFacts
<1>2. With(chs, c, Only(f, v))[d].streams =
        IF d = c /\ "streams" \in DOMAIN Only(f, v) THEN Only(f, v)["streams"] ELSE chs[d].streams
  BY <1>1, WithList
<1> QED  BY <1>1, <1>2

LEMMA KnownStays ==
  ASSUME TypeOK, Kinds
  PROVE  \A S, c : Known(journal, run.buffer, S, c) => Known(journal', run'.buffer, S, c)
BY EnteredStays, Zenon DEF Known

LEMMA ValueKnown ==
  ASSUME TypeOK, Accounted, edits = 0, faults = 0, WriteKinds
  PROVE  \E c \in Channels, type \in {"channel", "stream"} :
           \E f, v : /\ Writes(c, f, v, type) /\ Fits(f, v)
                     /\ f = "streams" => Known(journal', run'.buffer, v, c)
<1>0. "new" \in Values /\ "channel" \in {"channel", "stream"} /\ "stream" \in {"channel", "stream"}
      /\ "streams" \notin {"key", "other"}
  BY DEF Values
<1>k. Kinds
  BY Zenon DEF WriteKinds, Kinds, RunKinds
<1>s. \A S, c : Known(journal, run.buffer, S, c) => Known(journal', run'.buffer, S, c)
  BY <1>k, KnownStays
<1>1. ASSUME NEW c \in Channels, NEW e \in Entry, StepAdd(c, e)
      PROVE  \E type \in {"channel", "stream"} :
               \E f, v : /\ Writes(c, f, v, type) /\ Fits(f, v)
                         /\ f = "streams" => Known(journal', run'.buffer, v, c)
  <2> DEFINE v == run.cache[c].streams \cup {e.s}
  <2>1. Writes(c, "streams", v, "channel") /\ e.c = c
    BY <1>1, Zenon DEF StepAdd
  <2>2. run.cache[c].streams \in SUBSET Streams /\ e.s \in Streams
    BY RunFields, FieldTypes DEF TypeOK, Entry
  <2>3. Fits("streams", v)
    BY <2>2 DEF Fits
  <2>4. Known(journal', run'.buffer, run.cache[c].streams, c)
    BY <1>s DEF Accounted
  <2>5. Entered(journal', c, e.s) \/ Entered(run'.buffer, c, e.s)
    BY <1>1, <2>1, AddEnters
  <2>6. Known(journal', run'.buffer, v, c)
    BY <2>4, <2>5 DEF Known
  <2> QED  BY <1>0, <2>1, <2>3, <2>6, Zenon
<1>2. ASSUME NEW c \in Channels, NEW v \in SUBSET Streams, StepRemove(c, v)
      PROVE  \E type \in {"channel", "stream"} :
               \E f, w : /\ Writes(c, f, w, type) /\ Fits(f, w)
                         /\ f = "streams" => Known(journal', run'.buffer, w, c)
  <2>1. Writes(c, "streams", v, "stream") /\ Fits("streams", v) /\ v \subseteq run.cache[c].streams
    BY <1>2, Zenon DEF StepRemove, Fits
  <2>2. Known(journal', run'.buffer, run.cache[c].streams, c)
    BY <1>s DEF Accounted
  <2>3. Known(journal', run'.buffer, v, c)
    BY <2>1, <2>2 DEF Known
  <2> QED  BY <1>0, <2>1, <2>3, Zenon
<1>3. ASSUME NEW c \in Channels, NEW f \in {"key", "other"}, StepUpdate(c, f)
      PROVE  \E type \in {"channel", "stream"} :
               \E g, v : /\ Writes(c, g, v, type) /\ Fits(g, v)
                         /\ g = "streams" => Known(journal', run'.buffer, v, c)
  <2>1. Writes(c, f, "new", "channel") /\ Fits(f, "new")
    BY <1>0, <1>3, Zenon DEF StepUpdate, Fits
  <2> QED  BY <1>0, <2>1, Zenon
<1> QED  BY <1>1, <1>2, <1>3, Zenon DEF WriteKinds

\* The books and channels of the run.
LEMMA RunAccounted ==
  ASSUME TypeOK, TypeOK', Accounted, edits = 0, faults = 0, RunKinds, faults' = 0
  PROVE  /\ \A c \in Channels : /\ Known(journal', run'.buffer, ch'[c].streams, c)
                                /\ Known(journal', run'.buffer, run'.cache[c].streams, c)
         /\ \A i \in DOMAIN run'.log :
              run'.log[i].f = "streams" => Known(journal', run'.buffer, run'.log[i].prev, run'.log[i].c)
<1>t. run.cache \in [Channels -> Channel] /\ ch \in [Channels -> Channel] /\ run.log \in Seq(Modification)
  BY RunFields DEF TypeOK
<1>s. \A S, c : Known(journal, run.buffer, S, c) => Known(journal', run'.buffer, S, c)
  BY KnownStays DEF Kinds
<1>1. /\ \A c \in Channels : /\ Known(journal', run'.buffer, ch[c].streams, c)
                             /\ Known(journal', run'.buffer, run.cache[c].streams, c)
      /\ \A i \in DOMAIN run.log :
           run.log[i].f = "streams" => Known(journal', run'.buffer, run.log[i].prev, run.log[i].c)
  BY <1>s DEF Accounted
<1>2. CASE ch' = ch /\ (run'.cache = run.cache \/ run'.cache = ch) /\ run'.log = run.log
  BY <1>1, <1>2, Zenon
<1>3. ASSUME NEW d \in Channels, NEW v \in SUBSET Streams, StepPrune(d, v)
      PROVE  /\ \A c \in Channels : /\ Known(journal', run'.buffer, ch'[c].streams, c)
                                    /\ Known(journal', run'.buffer, run'.cache[c].streams, c)
             /\ \A i \in DOMAIN run'.log :
                  run'.log[i].f = "streams" => Known(journal', run'.buffer, run'.log[i].prev, run'.log[i].c)
  <2>1. /\ v \subseteq run.cache[d].streams /\ run'.log = run.log
        /\ ch' = With(ch, d, Only("streams", v)) /\ run'.cache = With(run.cache, d, Only("streams", v))
    BY <1>3, Zenon DEF StepPrune
  <2>2. Known(journal', run'.buffer, v, d)
    BY <1>1, <2>1 DEF Known
  <2>3. Fits("streams", v)
    BY DEF Fits
  <2>4. \A c \in Channels : /\ ch'[c].streams = IF c = d THEN v ELSE ch[c].streams
                            /\ run'.cache[c].streams = IF c = d THEN v ELSE run.cache[c].streams
    <3> HIDE DEF Fits
    <3> QED  BY <1>t, <2>1, <2>3, WithListOnly
  <2> QED  BY <1>1, <2>1, <2>2, <2>4
<1>4. CASE WriteKinds
  <2>1. PICK d \in Channels, type \in {"channel", "stream"} :
           \E f, v : /\ Writes(d, f, v, type) /\ Fits(f, v)
                     /\ f = "streams" => Known(journal', run'.buffer, v, d)
    BY <1>4, ValueKnown, Zenon
  <2>2. PICK f, v : /\ Writes(d, f, v, type) /\ Fits(f, v)
                    /\ f = "streams" => Known(journal', run'.buffer, v, d)
    BY <2>1, Zenon
  <2> DEFINE m == [c |-> d, type |-> type, f |-> f, prev |-> run.cache[d][f]]
  <2>3. /\ ch' = With(ch, d, Only(f, v)) /\ run'.cache = With(run.cache, d, Only(f, v))
        /\ run'.log = Append(run.log, m)
    BY <2>2, Zenon DEF Writes
  <2>4. m.c = d /\ m.f = f /\ m.prev = run.cache[d][f]
    OBVIOUS
  <2> HIDE DEF m, Fits
  <2>5. \A c \in Channels :
          /\ ch'[c].streams = IF c = d /\ f = "streams" THEN v ELSE ch[c].streams
          /\ run'.cache[c].streams = IF c = d /\ f = "streams" THEN v ELSE run.cache[c].streams
    BY <1>t, <2>2, <2>3, WithListOnly
  <2>6. \A c \in Channels : /\ Known(journal', run'.buffer, ch'[c].streams, c)
                            /\ Known(journal', run'.buffer, run'.cache[c].streams, c)
    BY <1>1, <2>2, <2>5
  <2>7. f = "streams" => m.prev = run.cache[d].streams
    BY <1>t, <2>4, FieldTypes
  <2>8. \A i \in DOMAIN run'.log : (i \in DOMAIN run.log /\ run'.log[i] = run.log[i]) \/ run'.log[i] = m
    BY <1>t, <2>3
  <2>9. \A i \in DOMAIN run'.log :
          run'.log[i].f = "streams" => Known(journal', run'.buffer, run'.log[i].prev, run'.log[i].c)
    BY <1>1, <2>4, <2>7, <2>8
  <2> QED  BY <2>6, <2>9
<1>5. StepLoad \/ StepCapture \/ StepOther \/ StepEnd
      => ch' = ch /\ (run'.cache = run.cache \/ run'.cache = ch) /\ run'.log = run.log
  BY Zenon DEF StepLoad, StepCapture, StepOther, StepEnd, Books
<1>6. ASSUME NEW c \in Channels, NEW vals \in Payload, StepBlind(c, vals)
      PROVE  FALSE
  BY <1>6, Zenon DEF StepBlind
<1> QED  BY <1>2, <1>3, <1>4, <1>5, <1>6, Zenon DEF RunKinds, WriteKinds

\* What a revert puts back is known too.
LEMMA PutKnown ==
  ASSUME TypeOK, Phases, RevertPhases, Lists, SnapshotIsStart, Accounted, edits = 0, faults = 0,
         NEW u \in Reverts, StepPut(u), "streams" \in DOMAIN Current(u).vals
  PROVE  Known(journal, run.buffer, Current(u).vals["streams"], Current(u).c)
<1>1. CASE rev[u].via = "snapshot"
  <2>1. Current(u).c \in DOMAIN snap.of /\ Current(u).vals = SnapshotPayload(Current(u).c)
    BY <1>1, PutFacts
  <2>2. Current(u).vals["streams"] = snap.of[Current(u).c]["streams"]
    BY <2>1 DEF SnapshotPayload
  <2>3. snap.of[Current(u).c] \in Channel
    BY <2>1 DEF TypeOK
  <2>4. Current(u).vals["streams"] = StartStreams[Current(u).c]
    BY <2>1, <2>2, <2>3, FieldTypes DEF SnapshotIsStart
  <2> QED  BY <2>4 DEF Known
<1>2. CASE rev[u].via # "snapshot"
  <2> DEFINE k == At(rev[u].at)
  <2>1. /\ k \in DOMAIN run.log /\ Current(u).c = run.log[k].c
        /\ Current(u).vals = Only(run.log[k].f, run.log[k].prev)
    BY <1>2, PutFacts
  <2> HIDE DEF k
  <2>2. run.log[k].f = "streams" /\ Current(u).vals["streams"] = run.log[k].prev
    BY <2>1 DEF Only
  <2> QED  BY <2>1, <2>2 DEF Accounted
<1> QED  BY <1>1, <1>2

LEMMA AccountedKept ==
  ASSUME TypeOK, TypeOK', Phases, RevertPhases, Lists, SnapshotIsStart, Accounted, Kinds
  PROVE  Accounted'
<1> SUFFICES ASSUME edits' = 0, faults' = 0
             PROVE  /\ \A c \in Channels : /\ Known(journal', run'.buffer, ch'[c].streams, c)
                                           /\ Known(journal', run'.buffer, run'.cache[c].streams, c)
                    /\ \A i \in DOMAIN run'.log :
                         run'.log[i].f = "streams" => Known(journal', run'.buffer, run'.log[i].prev, run'.log[i].c)
                    /\ \A u \in Reverts :
                         Busy(u, "take")' /\ rev'[u].holds => Known(journal', run'.buffer, rev'[u].seen, Current(u)'.c)
  BY Zenon DEF Accounted
<1>0. edits = 0 /\ faults = 0 /\ (RunKinds \/ StepCrash \/ \E w \in Reverts : RevertKinds(w))
  BY EditsZero, NoFaults
<1>t. ch \in [Channels -> Channel] /\ rev \in [Reverts -> RevertStates]
  BY DEF TypeOK
<1>a. /\ \A c \in Channels : /\ Known(journal, run.buffer, ch[c].streams, c)
                             /\ Known(journal, run.buffer, run.cache[c].streams, c)
      /\ \A i \in DOMAIN run.log :
           run.log[i].f = "streams" => Known(journal, run.buffer, run.log[i].prev, run.log[i].c)
      /\ \A u \in Reverts :
           Busy(u, "take") /\ rev[u].holds => Known(journal, run.buffer, rev[u].seen, Current(u).c)
  BY <1>0, Zenon DEF Accounted
<1>s. \A S, c : Known(journal, run.buffer, S, c) => Known(journal', run'.buffer, S, c)
  BY KnownStays
<1>1. CASE RunKinds
  <2>1. rev' = rev
    BY <1>1, RunSummary, Zenon
  <2>2. \A u \in Reverts : Busy(u, "take")' = Busy(u, "take") /\ Current(u)' = Current(u)
    BY <2>1, Zenon DEF Busy, Current
  <2>3. \A u \in Reverts :
           Busy(u, "take")' /\ rev'[u].holds => Known(journal', run'.buffer, rev'[u].seen, Current(u)'.c)
    BY <1>a, <1>s, <2>1, <2>2, Zenon
  <2> QED  BY <1>0, <1>1, <2>3, RunAccounted, Zenon
<1>2. CASE StepCrash
  <2>1. ch' = ch /\ run'.cache = run.cache /\ run'.log = run.log
    BY <1>2, Zenon DEF StepCrash, Books
  <2>2. ASSUME NEW u \in Reverts, Busy(u, "take")', rev'[u].holds
        PROVE  Known(journal', run'.buffer, rev'[u].seen, Current(u)'.c)
    <3>1. /\ rev'[u].todo = rev[u].todo /\ rev'[u].at = rev[u].at /\ rev'[u].doomed = rev[u].doomed
          /\ rev'[u].holds = rev[u].holds /\ rev'[u].seen = rev[u].seen
          /\ rev'[u].pc = "work" => rev[u].pc = "work"
      BY <1>2, CrashSummary
    <3>2. Busy(u, "take") /\ Current(u)' = Current(u)
      BY <2>2, <3>1, Zenon DEF Busy, Current
    <3> QED  BY <1>a, <1>s, <2>2, <3>1, <3>2, Zenon
  <2> QED  BY <1>a, <1>s, <2>1, <2>2, Zenon
<1>3. ASSUME NEW w \in Reverts, RevertKinds(w)
      PROVE  /\ \A c \in Channels : /\ Known(journal', run'.buffer, ch'[c].streams, c)
                                    /\ Known(journal', run'.buffer, run'.cache[c].streams, c)
             /\ \A i \in DOMAIN run'.log :
                  run'.log[i].f = "streams" => Known(journal', run'.buffer, run'.log[i].prev, run'.log[i].c)
             /\ \A u \in Reverts :
                  Busy(u, "take")' /\ rev'[u].holds => Known(journal', run'.buffer, rev'[u].seen, Current(u)'.c)
  <2>1. run' = run /\ journal' = journal /\ \A v \in Reverts : v # w => rev'[v] = rev[v]
    BY <1>3, RevertSummary, Zenon DEF OthersStay
  <2>2. \A c \in Channels : Known(journal, run.buffer, ch'[c].streams, c)
    <3>1. CASE ch' = ch
      BY <1>a, <3>1, Zenon
    <3>2. CASE ch' # ch /\ StepTake(w)
      <4> DEFINE v == rev[w].seen \ Current(w).ss
      <4>1. ch' = With(ch, Current(w).c, Only("streams", v)) /\ Busy(w, "take") /\ rev[w].holds
        BY <3>2, Zenon DEF StepTake
      <4>2. Current(w).c \in Channels /\ v \in SUBSET Streams
        <5>1. rev[w].at <= Len(rev[w].todo) /\ Current(w).op = "take"
          BY <4>1, Zenon DEF Busy
        <5>2. rev[w].seen \in SUBSET Streams
          BY <1>t, RevertFields
        <5> QED  BY <5>1, <5>2, CurrentFacts
      <4>3. Known(journal, run.buffer, v, Current(w).c)
        BY <1>a, <4>1 DEF Known
      <4> HIDE DEF v
      <4>4. Fits("streams", v)
        BY <4>2 DEF Fits
      <4>5. \A c \in Channels : ch'[c].streams = IF c = Current(w).c THEN v ELSE ch[c].streams
        BY <1>t, <4>1, <4>2, <4>4, WithListOnly
      <4> QED  BY <1>a, <4>3, <4>5
    <3>3. CASE ch' # ch /\ StepPut(w)
      <4>1. ch' = With(ch, Current(w).c, Current(w).vals)
        BY <3>3, Zenon DEF StepPut
      <4>2. Current(w).c \in Channels /\ Current(w).vals \in Payload
        BY <3>3, PutFacts
      <4>3. \A c \in Channels : ch'[c].streams =
              IF c = Current(w).c /\ "streams" \in DOMAIN Current(w).vals THEN Current(w).vals["streams"]
              ELSE ch[c].streams
        BY <1>t, <4>1, <4>2, WithList
      <4>4. "streams" \in DOMAIN Current(w).vals =>
              Known(journal, run.buffer, Current(w).vals["streams"], Current(w).c)
        BY <1>0, <3>3, PutKnown
      <4> QED  BY <1>a, <4>3, <4>4
    <3>4. ch' = ch \/ StepTake(w) \/ StepPut(w)
      BY <1>3, Zenon DEF RevertKinds, StepBeginSnapshot, StepBeginSurgical, StepBeginLegacy, StepBegin,
           StepDelete, StepRead, StepPass, StepMark
    <3> QED  BY <3>1, <3>2, <3>3, <3>4, Zenon
  <2>3. ASSUME NEW u \in Reverts, Busy(u, "take")', rev'[u].holds
        PROVE  Known(journal, run.buffer, rev'[u].seen, Current(u)'.c)
    <3>1. CASE u # w
      <4>1. rev'[u] = rev[u]
        BY <2>1, <3>1, Zenon
      <4>2. Busy(u, "take") /\ Current(u)' = Current(u)
        BY <2>3, <4>1, Zenon DEF Busy, Current
      <4> QED  BY <1>a, <2>3, <4>1, <4>2, Zenon
    <3>2. CASE u = w
      <4>1. rev[u].pc # "idle"
        <5>1. rev[u].pc = "idle" => ~rev[u].holds /\ rev'[u].holds = rev[u].holds
          BY <1>3, <3>2, RevertSummary DEF RevertPhases
        <5> QED  BY <2>3, <5>1, Zenon
      <4>2. StepRead(u)
        <5>1. ~StepDelete(u)
          <6>1. StepDelete(u) => rev[u].doomed /\ rev[u].holds = rev'[u].holds
            BY Zenon DEF StepDelete
          <6>2. ~(rev[u].doomed /\ rev[u].holds)
            BY Zenon DEF RevertPhases
          <6> QED  BY <2>3, <6>1, <6>2, Zenon
        <5>2. ~StepMark(u)
          <6>1. rev'[u].pc = "work" /\ "work" # "done"
            BY <2>3 DEF Busy
          <6> QED  BY <6>1, Zenon DEF StepMark
        <5> QED  BY <1>3, <2>3, <3>2, <4>1, <5>1, <5>2, Zenon DEF RevertKinds, StepBeginSnapshot, StepBeginSurgical,
                   StepBeginLegacy, StepBegin, StepPass, StepTake, StepPut, Advances
      <4>3. /\ rev'[u].seen = ch[Current(u).c].streams /\ rev'[u].todo = rev[u].todo /\ rev'[u].at = rev[u].at
            /\ Busy(u, "take")
        BY <4>2, Zenon DEF StepRead, Stays
      <4>4. Current(u)' = Current(u)
        BY <4>3, Zenon DEF Current
      <4>5. Current(u).c \in Channels
        BY <4>3, CurrentFacts DEF Busy
      <4> QED  BY <1>a, <4>3, <4>4, <4>5, Zenon
    <3> QED  BY <3>1, <3>2
  <2> QED  BY <1>a, <2>1, <2>2, <2>3, Zenon
<1> QED  BY <1>0, <1>1, <1>2, <1>3, Zenon

-----------------------------------------------------------------------------
(* A channel worked off has no stream of the run left *)

Clean(chs, c) == chs[c].streams \subseteq StartStreams[c]
\* The reverts Cleared is about.
Clears(u) == rev[u].pc # "idle" /\ ~rev[u].early /\ (rev[u].via = "legacy" => journal # <<>> /\ Whole)

\* A surgical unmerge was judged by a journal that is there as a whole.
LEMMA SurgicalWhole ==
  ASSUME TypeOK, Phases, RevertPhases, Lists, Recorded, NEW u \in Reverts, rev[u].via = "surgical"
  PROVE  Whole
<1>1. Len(journal) <= PageSize /\ Len(journal) = Len(row.modified) /\ row.modified = run.log
  BY DEF Lists, RevertPhases, Phases
<1>2. journal \in Seq(Entry) /\ run.buffer \in Seq(Entry) /\ run.log \in Seq(Modification)
  BY RunFields DEF TypeOK
<1>3. Len(run.buffer) = 0
  <2>1. Len(journal) = Len(run.log) /\ Len(journal) + Len(run.buffer) <= Len(run.log)
    BY <1>1, Zenon DEF Recorded
  <2>2. Len(journal) \in Nat /\ Len(run.buffer) \in Nat
    BY <1>2
  <2>3. \A j, b \in Nat : j + b <= j => b = 0
    OBVIOUS
  <2> QED  BY <2>1, <2>2, <2>3, Zenon
<1> QED  BY <1>1, <1>2, <1>3 DEF Whole

\* Taking the entries of the whole journal out of a known list leaves what was there before.
LEMMA TakenIsClean ==
  ASSUME TypeOK, Whole, NEW c \in Channels, NEW S, Known(journal, run.buffer, S, c)
  PROVE  S \ Added(c) \subseteq StartStreams[c]
<1>1. Page = journal
  BY PageFacts DEF Whole
<1>2. \A s : ~Entered(run.buffer, c, s)
  <2>1. DOMAIN run.buffer = {}
    BY DEF Whole
  <2> QED  BY <2>1 DEF Entered
<1>3. \A s : Entered(journal, c, s) => s \in Added(c)
  BY <1>1 DEF Entered, Added
<1> QED  BY <1>2, <1>3 DEF Known

LEMMA CleanSteps ==
  ASSUME TypeOK, TypeOK', Phases, RevertPhases, Lists, SnapshotIsStart, Accounted, Recorded,
         edits = 0, faults = 0, faults' = 0, NEW w \in Reverts, RevertKinds(w),
         NEW u \in Reverts, Clears(u)
  PROVE  /\ \A d \in Channels : Clean(ch, d) => Clean(ch', d)
         /\ Advances(w) => Current(w).c \in Channels /\ Clean(ch', Current(w).c)
<1>t. ch \in [Channels -> Channel] /\ rev \in [Reverts -> RevertStates]
  BY DEF TypeOK
<1>a. /\ \A c \in Channels : Known(journal, run.buffer, ch[c].streams, c)
      /\ Busy(w, "take") /\ rev[w].holds => Known(journal, run.buffer, rev[w].seen, Current(w).c)
  BY Zenon DEF Accounted
<1>v. rev[u].via \in {"snapshot", "surgical", "legacy"}
  <2>1. rev[u].via \in Via
    BY <1>t, RevertFields
  <2> QED  BY <2>1 DEF RevertPhases, Via, Clears
<1>w. /\ rev[w].via = "surgical" => Whole
      /\ rev[w].via = "legacy" => Whole /\ journal # <<>>
  <2>1. rev[w].via = "legacy" => ~snap.taken
    BY Zenon DEF RevertPhases
  <2>2. rev[u].via \in {"snapshot", "surgical"} => snap.taken
    BY Zenon DEF RevertPhases
  <2> QED  BY <1>v, <2>1, <2>2, SurgicalWhole DEF Clears
<1>1. CASE StepTake(w)
  <2> DEFINE v == rev[w].seen \ Current(w).ss
  <2>1. ch' = With(ch, Current(w).c, Only("streams", v)) /\ Busy(w, "take") /\ rev[w].holds
    BY <1>1, Zenon DEF StepTake
  <2>2. rev[w].pc = "work" /\ rev[w].at <= Len(rev[w].todo) /\ Current(w).op = "take"
    BY <2>1, Zenon DEF Busy
  <2>3. Current(w).c \in Channels /\ v \in SUBSET Streams
    <3>1. rev[w].seen \in SUBSET Streams
      BY <1>t, RevertFields
    <3> QED  BY <2>2, <3>1, CurrentFacts
  <2>4. Whole /\ Current(w).ss = Added(Current(w).c)
    BY <1>w, <2>2, TakeFacts
  <2>5. v \subseteq StartStreams[Current(w).c]
    <3>1. Known(journal, run.buffer, rev[w].seen, Current(w).c)
      BY <1>a, <2>1, Zenon
    <3> QED  BY <2>3, <2>4, <3>1, TakenIsClean
  <2> HIDE DEF v
  <2>6. Fits("streams", v)
    BY <2>3 DEF Fits
  <2>7. \A c \in Channels : ch'[c].streams = IF c = Current(w).c THEN v ELSE ch[c].streams
    BY <1>t, <2>1, <2>3, <2>6, WithListOnly
  <2> QED  BY <2>3, <2>5, <2>7 DEF Clean
<1>2. CASE StepPass(w)
  <2>1. ch' = ch /\ rev[w].pc = "work" /\ rev[w].at <= Len(rev[w].todo)
    BY <1>2, Zenon DEF StepPass, Advances
  <2>2. Current(w).op # "skip"
    <3>1. rev[w].via \in Via
      BY <1>t, RevertFields
    <3>2. rev[w].via \in {"snapshot", "surgical", "legacy"}
      BY <2>1, <3>1 DEF RevertPhases, Via
    <3>3. rev[w].at \in DOMAIN rev[w].todo /\ Current(w) = rev[w].todo[rev[w].at]
      BY <2>1, AtItem
    <3>4. CASE rev[w].via = "snapshot"
      BY <3>3, <3>4, SnapshotItems
    <3>5. CASE rev[w].via # "snapshot"
      BY <1>w, <3>2, <3>3, <3>5, UnmergeItems
    <3> QED  BY <3>4, <3>5
  <2>3. Current(w).op = "take" /\ ch[Current(w).c].streams \cap Current(w).ss = {}
    BY <1>2, <2>2, Zenon DEF StepPass
  <2>4. Whole /\ Current(w).ss = Added(Current(w).c) /\ Current(w).c \in Channels
    BY <1>w, <2>1, <2>3, TakeFacts
  <2>5. ch[Current(w).c].streams \ Added(Current(w).c) \subseteq StartStreams[Current(w).c]
    BY <1>a, <2>4, TakenIsClean
  <2> QED  BY <2>1, <2>3, <2>4, <2>5 DEF Clean
<1>3. CASE StepPut(w)
  <2>1. ch' = With(ch, Current(w).c, Current(w).vals)
    BY <1>3, Zenon DEF StepPut
  <2>2. /\ rev[w].via = "snapshot" /\ Current(w).c \in DOMAIN snap.of /\ Current(w).c \in Channels
        /\ Current(w).vals = SnapshotPayload(Current(w).c) /\ Current(w).vals \in Payload
    BY <1>w, <1>3, PutFacts
  <2>3. /\ "streams" \in DOMAIN Current(w).vals
        /\ Current(w).vals["streams"] = snap.of[Current(w).c]["streams"]
    BY <2>2 DEF SnapshotPayload
  <2>4. snap.of[Current(w).c] \in Channel
    BY <2>2 DEF TypeOK
  <2>5. Current(w).vals["streams"] = StartStreams[Current(w).c]
    BY <2>2, <2>3, <2>4, FieldTypes DEF SnapshotIsStart
  <2>6. \A c \in Channels : ch'[c].streams = IF c = Current(w).c THEN StartStreams[c] ELSE ch[c].streams
    BY <1>t, <2>1, <2>2, <2>3, <2>5, WithList
  <2> QED  BY <2>2, <2>6 DEF Clean
<1>4. CASE ~StepTake(w) /\ ~StepPass(w) /\ ~StepPut(w)
  <2>1. ch' = ch /\ ~Advances(w)
    <3>1. CASE rev[w].pc = "idle"
      <4>1. rev[w].pc # "work"
        BY <3>1
      <4> QED  BY <3>1, <4>1, BeginKinds, Zenon DEF StepBegin, Advances
    <3>2. CASE rev[w].pc # "idle"
      <4>1. StepDelete(w) => ~Advances(w)
        BY Zenon DEF StepDelete, Advances
      <4>2. StepMark(w) => ~Advances(w)
        <5>1. "done" # "work"
          OBVIOUS
        <5> QED  BY <5>1, Zenon DEF StepMark, Advances
      <4>3. StepRead(w) => ~Advances(w)
        BY Zenon DEF StepRead, Advances
      <4> QED  BY <1>4, <3>2, <4>1, <4>2, <4>3, Zenon DEF RevertKinds, StepBeginSnapshot, StepBeginSurgical,
                 StepBeginLegacy, StepBegin, StepDelete, StepMark, StepRead
    <3> QED  BY <3>1, <3>2
  <2> QED  BY <2>1
<1> QED  BY <1>1, <1>2, <1>3, <1>4, Zenon

LEMMA ClearedKept ==
  ASSUME TypeOK, TypeOK', Phases, RevertPhases, Lists, SnapshotIsStart, Accounted, Recorded, Cleared, Kinds
  PROVE  Cleared'
<1> SUFFICES ASSUME edits' = 0, faults' = 0, NEW u \in Reverts, Clears(u)',
                    NEW i \in DOMAIN rev'[u].todo, i < rev'[u].at
             PROVE  Clean(ch', rev'[u].todo[i].c)
  BY Zenon DEF Cleared, Clears, Clean, Begun
<1>0. edits = 0 /\ faults = 0 /\ (RunKinds \/ StepCrash \/ \E w \in Reverts : RevertKinds(w))
  BY EditsZero, NoFaults
<1>t. rev[u] \in RevertStates /\ rev'[u] \in RevertStates
  BY DEF TypeOK
<1>c. ASSUME Clears(u), NEW j \in DOMAIN rev[u].todo, j < rev[u].at
      PROVE  Clean(ch, rev[u].todo[j].c)
  BY <1>0, <1>c, Zenon DEF Cleared, Clears, Clean, Begun
<1>1. CASE RunKinds
  <2>1. rev' = rev /\ run.pc \in {"none", "loaded"} \cup Working
    BY <1>1, RunSummary, Zenon
  <2>2. ~Over
    BY <2>1 DEF Over, Working
  <2>3. rev[u].pc # "idle" /\ ~rev[u].early
    BY <2>1, Zenon DEF Clears
  <2> QED  BY <2>2, <2>3, Zenon DEF RevertPhases, Begun
<1>2. CASE StepCrash
  <2>1. ch' = ch /\ journal' = journal /\ run'.buffer = run.buffer
    BY <1>2, Zenon DEF StepCrash, Books
  <2>2. /\ rev'[u].via = rev[u].via /\ rev'[u].early = rev[u].early
        /\ rev'[u].todo = rev[u].todo /\ rev'[u].at = rev[u].at
        /\ rev'[u].pc # "idle" => rev[u].pc # "idle"
    BY <1>2, CrashSummary
  <2>3. Clears(u)
    BY <2>1, <2>2, Zenon DEF Clears, Whole
  <2>4. Clean(ch, rev[u].todo[i].c)
    BY <1>c, <2>2, <2>3
  <2> QED  BY <2>1, <2>2, <2>4, Zenon
<1>3. ASSUME NEW w \in Reverts, RevertKinds(w)
      PROVE  Clean(ch', rev'[u].todo[i].c)
  <2>1. /\ journal' = journal /\ run' = run /\ \A v \in Reverts : v # w => rev'[v] = rev[v]
        /\ rev[w].pc # "idle" => /\ rev'[w].via = rev[w].via /\ rev'[w].early = rev[w].early
                                 /\ rev'[w].todo = rev[w].todo
    BY <1>3, RevertSummary, Zenon DEF OthersStay
  <2>2. CASE rev[u].pc = "idle"
    <3>1. u = w
      BY <2>1, <2>2, Zenon DEF Clears
    <3>2. rev'[u].at = rev[u].at
      BY <1>3, <2>2, <3>1, BeginKinds, Zenon DEF StepBegin
    <3>3. rev'[u].at = 1
      BY <2>2, <3>2 DEF RevertPhases
    <3>4. rev'[u].todo \in Seq(Item)
      BY <1>t, RevertFields
    <3> QED  BY <3>3, <3>4
  <2>3. CASE rev[u].pc # "idle"
    <3>1. rev'[u].via = rev[u].via /\ rev'[u].early = rev[u].early /\ rev'[u].todo = rev[u].todo
      BY <2>1, <2>3, Zenon
    <3>2. Clears(u)
      BY <2>1, <2>3, <3>1, Zenon DEF Clears, Whole
    <3>3. /\ \A d \in Channels : Clean(ch, d) => Clean(ch', d)
          /\ Advances(w) => Current(w).c \in Channels /\ Clean(ch', Current(w).c)
      BY <1>0, <1>3, <3>2, CleanSteps
    <3>4. rev[u].todo \in Seq(Item) /\ rev[u].at \in Nat
      BY <1>t, RevertFields
    <3>5. CASE i < rev[u].at
      <4>1. Clean(ch, rev[u].todo[i].c)
        BY <1>c, <3>1, <3>2, <3>5
      <4>2. rev[u].todo[i].c \in Channels
        <5>1. CASE rev[u].via = "snapshot"
          BY <3>1, <5>1, SnapshotItems
        <5>2. CASE rev[u].via # "snapshot"
          <6>1. rev[u].via = "surgical" \/ (rev[u].via = "legacy" /\ journal # <<>>)
            <7>1. rev[u].via \in Via /\ rev[u].via # "none"
              BY <1>t, <2>3, RevertFields DEF RevertPhases
            <7> QED  BY <3>2, <5>2, <7>1 DEF Clears, Via
          <6> QED  BY <3>1, <6>1, UnmergeItems
        <5> QED  BY <5>1, <5>2
      <4> QED  BY <3>1, <3>3, <4>1, <4>2
    <3>6. CASE ~(i < rev[u].at)
      <4>1. rev'[u].at # rev[u].at
        BY <3>6
      <4>2. u = w /\ Advances(u)
        <5>1. u = w
          BY <2>1, <4>1, Zenon
        <5> QED  BY <1>3, <2>3, <4>1, <5>1, Zenon DEF RevertKinds, StepBeginSnapshot, StepBeginSurgical,
                   StepBeginLegacy, StepBegin, StepDelete, StepRead, StepPass, StepTake, StepPut, StepMark
      <4>3. i = rev[u].at
        <5>1. rev'[u].at = rev[u].at + 1
          BY <4>2, Zenon DEF Advances
        <5> QED  BY <3>1, <3>4, <3>6, <5>1
      <4>4. rev'[u].todo[i].c = Current(u).c
        BY <3>1, <4>3, Zenon DEF Current
      <4> QED  BY <3>3, <4>2, <4>4, Zenon
    <3> QED  BY <3>5, <3>6
  <2> QED  BY <2>2, <2>3
<1> QED  BY <1>0, <1>1, <1>2, <1>3

-----------------------------------------------------------------------------
(* The first modification of a field *)

\* A log with one more modification.
LEMMA LogAppended ==
  ASSUME TypeOK, NEW m, run'.log = Append(run.log, m)
  PROVE  /\ \A i \in DOMAIN run.log : i \in DOMAIN run'.log /\ run'.log[i] = run.log[i] /\ i < Len(run.log) + 1
         /\ Len(run.log) + 1 \in DOMAIN run'.log /\ run'.log[Len(run.log) + 1] = m
         /\ \A i \in DOMAIN run'.log : i \in DOMAIN run.log \/ i = Len(run.log) + 1
         /\ \A i \in DOMAIN run'.log : i \in Nat
<1>1. run.log \in Seq(Modification)
  BY RunFields DEF TypeOK
<1> QED  BY <1>1, AppendFacts

\* What is the oldest in the longer log was so before.
LEMMA OldestBefore ==
  ASSUME TypeOK, NEW m, run'.log = Append(run.log, m), NEW o \in DOMAIN run.log
  PROVE  Oldest(o)' <=> Oldest(o)
<1>1. \A i \in DOMAIN run.log : i \in DOMAIN run'.log /\ run'.log[i] = run.log[i]
  BY LogAppended
<1>2. \A j \in DOMAIN run'.log : j < o => j \in DOMAIN run.log
  <2>1. run.log \in Seq(Modification)
    BY RunFields DEF TypeOK
  <2> QED  BY <2>1
<1> QED  BY <1>1, <1>2 DEF Oldest, Same

LEMMA HasOldestKept ==
  ASSUME TypeOK, TypeOK', HasOldest, Kinds
  PROVE  HasOldest'
<1>1. CASE run'.log = run.log
  <2>1. \A o : Oldest(o)' <=> Oldest(o)
    BY <1>1, Zenon DEF Oldest, Same
  <2>2. \A i, j : Same(i, j)' <=> Same(i, j)
    BY <1>1, Zenon DEF Same
  <2> QED  BY <1>1, <2>1, <2>2 DEF HasOldest
<1>2. CASE \E m : run'.log = Append(run.log, m)
  <2>1. PICK m : run'.log = Append(run.log, m)
    BY <1>2
  <2>n. PICK n : n = Len(run.log) + 1
    OBVIOUS
  <2>2. /\ \A i \in DOMAIN run.log : i \in DOMAIN run'.log /\ run'.log[i] = run.log[i] /\ i < n
        /\ n \in DOMAIN run'.log /\ run'.log[n] = m
        /\ \A i \in DOMAIN run'.log : i \in DOMAIN run.log \/ i = n
        /\ \A i \in DOMAIN run'.log : i \in Nat
    BY <2>1, <2>n, LogAppended
  <2>3. \A o \in DOMAIN run.log : Oldest(o) => Oldest(o)'
    BY <2>1, OldestBefore
  <2>4. ASSUME NEW i \in DOMAIN run.log, run.log[i].type = "channel"
        PROVE  \E o \in DOMAIN run.log : o <= i /\ Oldest(o)' /\ Same(o, i)
    BY <2>3, <2>4 DEF HasOldest
  <2>5. \A i, j \in DOMAIN run.log : Same(i, j) => Same(i, j)'
    BY <2>2 DEF Same
  <2>6. ASSUME NEW i \in DOMAIN run.log, run'.log[i].type = "channel"
        PROVE  \E o \in DOMAIN run'.log : o <= i /\ Oldest(o)' /\ Same(o, i)'
    <3>1. run.log[i].type = "channel"
      BY <2>2, <2>6
    <3>2. PICK o \in DOMAIN run.log : o <= i /\ Oldest(o)' /\ Same(o, i)
      BY <2>4, <3>1
    <3> QED  BY <2>2, <2>5, <3>2
  <2>7. ASSUME m.type = "channel"
        PROVE  \E o \in DOMAIN run'.log : o <= n /\ Oldest(o)' /\ Same(o, n)'
    <3>1. CASE \E j \in DOMAIN run.log : run.log[j].type = "channel" /\ run.log[j].c = m.c /\ run.log[j].f = m.f
      <4>1. PICK j \in DOMAIN run.log : run.log[j].type = "channel" /\ run.log[j].c = m.c /\ run.log[j].f = m.f
        BY <3>1
      <4>2. PICK o \in DOMAIN run.log : o <= j /\ Oldest(o)' /\ Same(o, j)
        BY <2>4, <4>1
      <4>3. o \in DOMAIN run'.log /\ o <= n
        BY <2>2, <4>2
      <4>4. Same(o, n)'
        BY <2>2, <4>1, <4>2 DEF Same
      <4> QED  BY <4>2, <4>3, <4>4
    <3>2. CASE ~\E j \in DOMAIN run.log : run.log[j].type = "channel" /\ run.log[j].c = m.c /\ run.log[j].f = m.f
      <4>1. Oldest(n)'
        BY <2>2, <2>7, <3>2 DEF Oldest, Same
      <4>2. n <= n /\ Same(n, n)'
        BY <2>2 DEF Same
      <4> QED  BY <2>2, <4>1, <4>2
    <3> QED  BY <3>1, <3>2
  <2> QED  BY <2>2, <2>6, <2>7 DEF HasOldest
<1> QED  BY <1>1, <1>2, LogGrows, Zenon

\* The fields after a write.
LEMMA WithFields ==
  ASSUME NEW chs \in [Channels -> Channel], NEW c \in Channels, NEW f, NEW v, Fits(f, v)
  PROVE  /\ \A d \in Channels, g \in Fields :
              (d # c \/ g # f) => With(chs, c, Only(f, v))[d][g] = chs[d][g]
         /\ With(chs, c, Only(f, v))[c][f] = v
<1>1. Only(f, v) \in Payload /\ DOMAIN Only(f, v) = {f} /\ Only(f, v)[f] = v /\ f \in Fields
  BY FitsFacts
<1> DEFINE vals == Only(f, v)
           new == With(chs, c, vals)
<1>2. /\ \A d \in Channels : d # c => new[d] = chs[d]
      /\ \A g \in Fields : new[c][g] = IF g \in DOMAIN vals THEN vals[g] ELSE chs[c][g]
  BY <1>1, WithFacts
<1>3. DOMAIN vals = {f} /\ vals[f] = v
  BY <1>1
<1> HIDE DEF new, vals
<1>4. /\ \A d \in Channels, g \in Fields : (d # c \/ g # f) => new[d][g] = chs[d][g]
      /\ new[c][f] = v
  BY <1>1, <1>2, <1>3
<1> QED  BY <1>4 DEF new, vals

\* The value a write of the run to a list gives: a merge, or less than before.
LEMMA ListWrites ==
  ASSUME TypeOK, WriteKinds
  PROVE  \E c \in Channels, type \in {"channel", "stream"} :
           \E f, v : /\ Writes(c, f, v, type) /\ Fits(f, v)
                     /\ f = "streams" => type = "channel" \/ v \subseteq run.cache[c].streams
<1>0. "new" \in Values /\ "channel" \in {"channel", "stream"} /\ "stream" \in {"channel", "stream"}
      /\ "streams" \notin {"key", "other"}
  BY DEF Values
<1>1. ASSUME NEW c \in Channels, NEW e \in Entry, StepAdd(c, e)
      PROVE  \E type \in {"channel", "stream"} :
               \E f, v : /\ Writes(c, f, v, type) /\ Fits(f, v)
                         /\ f = "streams" => type = "channel" \/ v \subseteq run.cache[c].streams
  <2>1. Writes(c, "streams", run.cache[c].streams \cup {e.s}, "channel")
    BY <1>1, Zenon DEF StepAdd
  <2>2. run.cache[c].streams \in SUBSET Streams /\ e.s \in Streams
    BY RunFields, FieldTypes DEF TypeOK, Entry
  <2>3. Fits("streams", run.cache[c].streams \cup {e.s})
    BY <2>2 DEF Fits
  <2> QED  BY <1>0, <2>1, <2>3, Zenon
<1>2. ASSUME NEW c \in Channels, NEW v \in SUBSET Streams, StepRemove(c, v)
      PROVE  \E type \in {"channel", "stream"} :
               \E f, w : /\ Writes(c, f, w, type) /\ Fits(f, w)
                         /\ f = "streams" => type = "channel" \/ w \subseteq run.cache[c].streams
  <2>1. Writes(c, "streams", v, "stream") /\ Fits("streams", v) /\ v \subseteq run.cache[c].streams
    BY <1>2, Zenon DEF StepRemove, Fits
  <2> QED  BY <1>0, <2>1, Zenon
<1>3. ASSUME NEW c \in Channels, NEW f \in {"key", "other"}, StepUpdate(c, f)
      PROVE  \E type \in {"channel", "stream"} :
               \E g, v : /\ Writes(c, g, v, type) /\ Fits(g, v)
                         /\ g = "streams" => type = "channel" \/ v \subseteq run.cache[c].streams
  <2>1. Writes(c, f, "new", "channel") /\ Fits(f, "new")
    BY <1>0, <1>3, Zenon DEF StepUpdate, Fits
  <2> QED  BY <1>0, <2>1, Zenon
<1> QED  BY <1>1, <1>2, <1>3, Zenon DEF WriteKinds

\* FirstIsStart, by its parts.
FirstLogged == \A i \in DOMAIN run.log :
  (\A j \in DOMAIN run.log : j < i => ~Same(j, i)) => run.log[i].prev = Start[run.log[i].c][run.log[i].f]
FirstMerged == \A o \in DOMAIN run.log :
  Oldest(o) /\ run.log[o].f = "streams" => run.log[o].prev \subseteq StartStreams[run.log[o].c]
Untouched == run.pc \in {"rules", "attach"} => \A c \in Channels, f \in Fields :
  (\A j \in DOMAIN run.log : ~(run.log[j].c = c /\ run.log[j].f = f)) => run.cache[c][f] = Start[c][f]
Unmerged == run.pc \in Working => \A c \in Channels :
  (\A j \in DOMAIN run.log : ~Merging(j, c)) => run.cache[c].streams \subseteq StartStreams[c]

LEMMA FirstParts ==
  FirstIsStart <=> (edits = 0 => FirstLogged /\ FirstMerged /\ Untouched /\ Unmerged)
BY Zenon DEF FirstIsStart, FirstLogged, FirstMerged, Untouched, Unmerged

LEMMA FirstPartsNext ==
  FirstIsStart' <=> (edits' = 0 => FirstLogged' /\ FirstMerged' /\ Untouched' /\ Unmerged')
BY Zenon DEF FirstIsStart, FirstLogged, FirstMerged, Untouched, Unmerged

\* A write of the run keeps them.
LEMMA WriteKeepsFirst ==
  ASSUME TypeOK, TypeOK', FirstLogged, FirstMerged, Untouched, Unmerged, WriteKinds
  PROVE  FirstLogged' /\ FirstMerged' /\ Untouched' /\ Unmerged'
<1>1. PICK d \in Channels, type \in {"channel", "stream"} :
         \E f, v : /\ Writes(d, f, v, type) /\ Fits(f, v)
                   /\ f = "streams" => type = "channel" \/ v \subseteq run.cache[d].streams
  BY ListWrites, Zenon
<1>2. PICK f, v : /\ Writes(d, f, v, type) /\ Fits(f, v)
                  /\ f = "streams" => type = "channel" \/ v \subseteq run.cache[d].streams
  BY <1>1, Zenon
<1> DEFINE m == [c |-> d, type |-> type, f |-> f, prev |-> run.cache[d][f]]
<1>n. PICK n : n = Len(run.log) + 1
  OBVIOUS
<1>3. /\ run'.cache = With(run.cache, d, Only(f, v)) /\ run'.log = Append(run.log, m)
      /\ run.pc \in {"rules", "attach"}
  BY <1>2, Zenon DEF Writes, Target
<1>4. m.c = d /\ m.f = f /\ m.prev = run.cache[d][f] /\ m.type = type
  OBVIOUS
<1> HIDE DEF m, Fits
<1>5. /\ \A i \in DOMAIN run.log : i \in DOMAIN run'.log /\ run'.log[i] = run.log[i] /\ i < n
      /\ n \in DOMAIN run'.log /\ run'.log[n] = m
      /\ \A i \in DOMAIN run'.log : i \in DOMAIN run.log \/ i = n
      /\ \A i \in DOMAIN run'.log : i \in Nat
  BY <1>3, <1>n, LogAppended
<1>6. run.cache \in [Channels -> Channel] /\ f \in Fields
  BY <1>2, FitsFacts, RunFields DEF TypeOK
<1>7. /\ \A c \in Channels, g \in Fields : (c # d \/ g # f) => run'.cache[c][g] = run.cache[c][g]
      /\ \A c \in Channels : run'.cache[c].streams = IF c = d /\ f = "streams" THEN v ELSE run.cache[c].streams
  BY <1>2, <1>3, <1>6, WithFields, WithListOnly
<1>8. run.pc \in Working
  BY <1>3 DEF Working
<1>9. FirstLogged'
  <2>1. ASSUME NEW i \in DOMAIN run.log, \A j \in DOMAIN run'.log : j < i => ~Same(j, i)'
        PROVE  run'.log[i].prev = Start[run'.log[i].c][run'.log[i].f]
    <3>1. \A j \in DOMAIN run.log : j < i => ~Same(j, i)
      BY <1>5, <2>1 DEF Same
    <3> QED  BY <1>5, <3>1 DEF FirstLogged
  <2>2. ASSUME \A j \in DOMAIN run'.log : j < n => ~Same(j, n)'
        PROVE  m.prev = Start[m.c][m.f]
    <3>1. \A j \in DOMAIN run.log : ~(run.log[j].c = d /\ run.log[j].f = f)
      BY <1>4, <1>5, <2>2 DEF Same
    <3> QED  BY <1>3, <1>4, <1>6, <3>1 DEF Untouched
  <2> QED  BY <1>5, <2>1, <2>2 DEF FirstLogged
<1>10. FirstMerged'
  <2>1. ASSUME NEW o \in DOMAIN run.log, Oldest(o)', run'.log[o].f = "streams"
        PROVE  run'.log[o].prev \subseteq StartStreams[run'.log[o].c]
    <3>1. Oldest(o)
      BY <1>3, <2>1, OldestBefore
    <3> QED  BY <1>5, <2>1, <3>1 DEF FirstMerged
  <2>2. ASSUME Oldest(n)', f = "streams"
        PROVE  m.prev \subseteq StartStreams[d]
    <3>1. \A j \in DOMAIN run.log : ~Merging(j, d)
      BY <1>4, <1>5, <2>2 DEF Oldest, Same, Merging
    <3>2. run.cache[d].streams \subseteq StartStreams[d]
      BY <1>8, <3>1 DEF Unmerged
    <3>3. m.prev = run.cache[d].streams
      BY <1>4, <1>6, <2>2, FieldTypes
    <3> QED  BY <3>2, <3>3
  <2> QED  BY <1>4, <1>5, <2>1, <2>2 DEF FirstMerged
<1>11. Untouched'
  <2>1. ASSUME NEW c \in Channels, NEW g \in Fields,
               \A j \in DOMAIN run'.log : ~(run'.log[j].c = c /\ run'.log[j].f = g)
        PROVE  run'.cache[c][g] = Start[c][g]
    <3>1. c # d \/ g # f
      BY <1>4, <1>5, <2>1
    <3>2. \A j \in DOMAIN run.log : ~(run.log[j].c = c /\ run.log[j].f = g)
      BY <1>5, <2>1
    <3>3. run.cache[c][g] = Start[c][g]
      BY <1>3, <3>2 DEF Untouched
    <3> QED  BY <1>7, <3>1, <3>3
  <2> QED  BY <2>1 DEF Untouched
<1>12. Unmerged'
  <2>1. ASSUME NEW c \in Channels, \A j \in DOMAIN run'.log : ~Merging(j, c)'
        PROVE  run'.cache[c].streams \subseteq StartStreams[c]
    <3>1. \A j \in DOMAIN run.log : ~Merging(j, c)
      BY <1>5, <2>1 DEF Merging
    <3>2. run.cache[c].streams \subseteq StartStreams[c]
      BY <1>8, <3>1 DEF Unmerged
    <3>3. c = d /\ f = "streams" => v \subseteq run.cache[d].streams
      BY <1>2, <1>4, <1>5, <2>1 DEF Merging
    <3> QED  BY <1>7, <3>2, <3>3
  <2> QED  BY <2>1 DEF Unmerged
<1> QED  BY <1>9, <1>10, <1>11, <1>12

LEMMA FirstIsStartKept ==
  ASSUME TypeOK, TypeOK', Phases, FirstIsStart, Kinds
  PROVE  FirstIsStart'
<1> SUFFICES ASSUME edits' = 0
             PROVE  FirstLogged' /\ FirstMerged' /\ Untouched' /\ Unmerged'
  BY FirstPartsNext, Zenon
<1>0. edits = 0 /\ FirstLogged /\ FirstMerged /\ Untouched /\ Unmerged
  BY EditsZero, FirstParts, Zenon
<1>k. RunKinds \/ StepCrash \/ \E u \in Reverts : RevertKinds(u)
  BY EditsZero
<1>1. CASE WriteKinds
  BY <1>0, <1>1, WriteKeepsFirst
<1>l. ASSUME run'.log = run.log
      PROVE  FirstLogged' /\ FirstMerged'
  BY <1>0, <1>l, Zenon DEF FirstLogged, FirstMerged, Oldest, Same
<1>2. ASSUME run'.log = run.log, run'.cache = run.cache, run'.pc \in {"rules", "attach"} => run.pc \in {"rules", "attach"},
             run'.pc \in Working => run.pc \in Working
      PROVE  FirstLogged' /\ FirstMerged' /\ Untouched' /\ Unmerged'
  <2>1. Untouched'
    BY <1>0, <1>2, Zenon DEF Untouched
  <2>2. Unmerged'
    BY <1>0, <1>2, Zenon DEF Unmerged, Merging
  <2> QED  BY <1>2, <1>l, <2>1, <2>2
<1>3. CASE StepLoad
  <2>1. run'.log = run.log /\ run'.pc = "loaded"
    BY <1>3, Zenon DEF StepLoad
  <2>2. run'.pc \notin {"rules", "attach"} /\ run'.pc \notin Working
    BY <2>1 DEF Working
  <2> QED  BY <1>l, <2>1, <2>2, Zenon DEF Untouched, Unmerged
<1>4. CASE StepCapture
  <2>1. run'.log = run.log /\ run'.cache = run.cache /\ run.cache = Start
    BY <1>0, <1>4, Zenon DEF StepCapture, Phases
  <2>2. \A c \in Channels : Start[c].streams \subseteq StartStreams[c]
    BY DEF Start
  <2>3. Untouched'
    BY <2>1, Zenon DEF Untouched
  <2>4. Unmerged'
    BY <2>1, <2>2, Zenon DEF Unmerged
  <2> QED  BY <1>l, <2>1, <2>3, <2>4
<1>5. CASE StepOther
  BY <1>2, <1>5, Zenon DEF StepOther, Books
<1>6. CASE StepEnd
  <2>1. run'.log = run.log /\ run'.cache = run.cache /\ run'.pc \in {"saved", "raised"}
    BY <1>6, Zenon DEF StepEnd
  <2>2. run'.pc \notin {"rules", "attach"} /\ run'.pc \notin Working
    BY <2>1 DEF Working
  <2> QED  BY <1>2, <2>1, <2>2
<1>7. ASSUME NEW d \in Channels, NEW v \in SUBSET Streams, StepPrune(d, v)
      PROVE  FirstLogged' /\ FirstMerged' /\ Untouched' /\ Unmerged'
  <2>1. /\ run'.log = run.log /\ run.pc \in Working /\ run'.pc = "prune" /\ v \subseteq run.cache[d].streams
        /\ run'.cache = With(run.cache, d, Only("streams", v))
    BY <1>7, Zenon DEF StepPrune
  <2>2. run.cache \in [Channels -> Channel] /\ Fits("streams", v)
    BY RunFields DEF TypeOK, Fits
  <2>3. \A c \in Channels : run'.cache[c].streams = IF c = d THEN v ELSE run.cache[c].streams
    <3> HIDE DEF Fits
    <3> QED  BY <2>1, <2>2, WithListOnly
  <2>4. Unmerged'
    BY <1>0, <2>1, <2>3 DEF Unmerged, Merging
  <2>5. Untouched'
    BY <2>1 DEF Untouched
  <2> QED  BY <1>l, <2>1, <2>4, <2>5
<1>8. ASSUME NEW d \in Channels, NEW vals \in Payload, StepBlind(d, vals)
      PROVE  FirstLogged' /\ FirstMerged' /\ Untouched' /\ Unmerged'
  <2>1. /\ run'.log = run.log /\ run'.cache = run.cache /\ run.pc \in Working
        /\ run.pc = "prune" => run'.pc = "prune"
    BY <1>8, Zenon DEF StepBlind, Books
  <2>2. run'.pc \in {"rules", "attach"} => run.pc \in {"rules", "attach"}
    BY <2>1 DEF Working
  <2> QED  BY <1>2, <2>1, <2>2
<1>9. CASE StepCrash
  <2>1. run'.log = run.log /\ run'.cache = run.cache /\ run'.pc = (IF RunAlive THEN "dead" ELSE run.pc)
    BY <1>9, Zenon DEF StepCrash, Books
  <2>2. run'.pc \in Working => run'.pc = run.pc
    BY <2>1 DEF Working
  <2>3. {"rules", "attach"} \subseteq Working
    BY DEF Working
  <2> QED  BY <1>2, <2>1, <2>2, <2>3
<1>10. ASSUME NEW u \in Reverts, RevertKinds(u)
       PROVE  FirstLogged' /\ FirstMerged' /\ Untouched' /\ Unmerged'
  <2>1. run' = run
    BY <1>10, RevertSummary, Zenon
  <2> QED  BY <1>2, <2>1
<1> QED  BY <1>k, <1>1, <1>3, <1>4, <1>5, <1>6, <1>7, <1>8, <1>9, <1>10, Zenon DEF RunKinds, WriteKinds

-----------------------------------------------------------------------------
(* Putting back the modifications *)

\* A rollback that writes the modification it is at: the field it writes.
LEMMA PutField ==
  ASSUME TypeOK, TypeOK', NEW k \in DOMAIN run.log, NEW o \in DOMAIN run.log,
         ch' = With(ch, run.log[k].c, Only(run.log[k].f, run.log[k].prev))
  PROVE  /\ ~Same(o, k) => ch'[run.log[o].c][run.log[o].f] = ch[run.log[o].c][run.log[o].f]
         /\ ch'[run.log[k].c][run.log[k].f] = run.log[k].prev
<1>1. run.log \in Seq(Modification) /\ ch \in [Channels -> Channel]
  BY RunFields DEF TypeOK
<1>2. run.log[k] \in Modification /\ run.log[o] \in Modification
  BY <1>1
<1>3. /\ run.log[k].c \in Channels /\ run.log[o].c \in Channels /\ run.log[o].f \in Fields
      /\ Fits(run.log[k].f, run.log[k].prev)
  BY <1>2, PutBackFacts DEF Fits, Fields
<1> HIDE DEF Fits
<1>4. /\ \A d \in Channels, g \in Fields :
           (d # run.log[k].c \/ g # run.log[k].f) => ch'[d][g] = ch[d][g]
      /\ ch'[run.log[k].c][run.log[k].f] = run.log[k].prev
  BY <1>1, <1>3, WithFields
<1> QED  BY <1>3, <1>4 DEF Same

\* The oldest modification of a field is the last a rollback puts back.
LEMMA OldestIsLast ==
  ASSUME TypeOK, NEW k \in DOMAIN run.log, NEW o \in DOMAIN run.log, Oldest(o),
         run.log[k].type = "channel", Same(o, k), k # o
  PROVE  At(k) + 1 <= At(o)
<1>1. run.log \in Seq(Modification)
  BY RunFields DEF TypeOK
<1>2. Same(k, o)
  BY DEF Same
<1>3. ~(k < o)
  BY <1>2 DEF Oldest
<1> QED  BY <1>1, <1>3 DEF At

LEMMA PutBackLastKept ==
  ASSUME TypeOK, TypeOK', Phases, RevertPhases, Lists, PutBackLast, Kinds
  PROVE  PutBackLast'
<1> SUFFICES ASSUME edits' = 0, faults' = 0, journal' = <<>>,
                    NEW u \in Reverts, rev'[u].via = "legacy", NEW o \in DOMAIN run'.log, Oldest(o)',
                    NEW i \in DOMAIN run'.log, run'.log[i].type = "channel", Same(o, i)', At(i)' < rev'[u].at
             PROVE  \/ ch'[run'.log[o].c][run'.log[o].f] = run'.log[o].prev
                    \/ \E v \in Reverts : rev'[v].via = "legacy" /\ rev'[v].at <= At(o)'
  BY Zenon DEF PutBackLast
<1>0. edits = 0 /\ faults = 0 /\ (RunKinds \/ StepCrash \/ \E w \in Reverts : RevertKinds(w))
  BY EditsZero, NoFaults
<1>t. rev \in [Reverts -> RevertStates]
  BY DEF TypeOK
<1>1. CASE RunKinds
  <2>1. rev' = rev /\ run.pc \in {"none", "loaded"} \cup Working
    BY <1>1, RunSummary, Zenon
  <2>2. run.pc # "saved"
    BY <2>1 DEF Working
  <2> QED  BY <2>1, <2>2 DEF RevertPhases
<1>b. ASSUME run'.log = run.log, journal' = journal
      PROVE  /\ Oldest(o) /\ Same(o, i) /\ At(i)' = At(i) /\ At(o)' = At(o) /\ journal = <<>>
             /\ o \in DOMAIN run.log /\ i \in DOMAIN run.log /\ run.log[i].type = "channel"
  BY <1>b, Zenon DEF Oldest, Same, At
<1>p. ASSUME run'.log = run.log, journal' = journal, rev[u].via = "legacy", At(i) < rev[u].at
      PROVE  \/ ch[run.log[o].c][run.log[o].f] = run.log[o].prev
             \/ \E v \in Reverts : rev[v].via = "legacy" /\ rev[v].at <= At(o)
  BY <1>0, <1>b, <1>p, Zenon DEF PutBackLast
<1>2. CASE StepCrash
  <2>1. ch' = ch /\ journal' = journal /\ run'.log = run.log
    BY <1>2, Zenon DEF StepCrash, Books
  <2>2. \A v \in Reverts : rev'[v].via = rev[v].via /\ rev'[v].at = rev[v].at
    BY <1>2, CrashSummary
  <2>3. rev[u].via = "legacy" /\ At(i) < rev[u].at
    BY <1>b, <2>1, <2>2
  <2> QED  BY <1>b, <1>p, <2>1, <2>2, <2>3, Zenon
<1>3. ASSUME NEW w \in Reverts, RevertKinds(w)
      PROVE  \/ ch'[run'.log[o].c][run'.log[o].f] = run'.log[o].prev
             \/ \E v \in Reverts : rev'[v].via = "legacy" /\ rev'[v].at <= At(o)'
  <2>1. /\ journal' = journal /\ run' = run /\ snap' = snap /\ \A v \in Reverts : v # w => rev'[v] = rev[v]
        /\ rev[w].pc # "idle" => rev'[w].via = rev[w].via /\ rev'[w].todo = rev[w].todo
    BY <1>3, RevertSummary, Zenon DEF OthersStay
  <2>2. /\ Oldest(o) /\ Same(o, i) /\ At(i)' = At(i) /\ At(o)' = At(o) /\ journal = <<>>
        /\ o \in DOMAIN run.log /\ i \in DOMAIN run.log /\ run.log[i].type = "channel"
    BY <1>b, <2>1, Zenon
  <2>l. run.log \in Seq(Modification)
    BY RunFields DEF TypeOK
  <2>a. At(i) \in Nat \ {0} /\ At(o) \in Nat \ {0}
    BY <2>2, <2>l DEF At
  <2>3. CASE rev[w].pc = "idle"
    <3>1. ch' = ch /\ rev'[w].at = rev[w].at
      BY <1>3, <2>3, BeginKinds, Zenon DEF StepBegin
    <3>2. rev[w].at = 1 /\ rev[w].via = "none"
      BY <2>3 DEF RevertPhases
    <3>3. u # w
      BY <2>2, <2>a, <3>1, <3>2
    <3>4. rev[u].via = "legacy" /\ At(i) < rev[u].at
      BY <2>1, <2>2, <3>3
    <3>5. \A v \in Reverts : rev[v].via = "legacy" => rev'[v] = rev[v]
      BY <2>1, <3>2
    <3>6. \/ ch[run.log[o].c][run.log[o].f] = run.log[o].prev
          \/ \E v \in Reverts : rev[v].via = "legacy" /\ rev[v].at <= At(o)
      BY <1>p, <2>1, <3>4
    <3> QED  BY <2>1, <2>2, <3>1, <3>5, <3>6, Zenon
  <2>4. CASE rev[w].pc # "idle"
    <3>1. \A v \in Reverts : rev'[v].via = rev[v].via
      BY <2>1, <2>4, Zenon
    <3>2. CASE ~Advances(w)
      <4>1. ch' = ch /\ rev'[w].at = rev[w].at
        BY <1>3, <2>4, <3>2, Zenon DEF RevertKinds, StepBeginSnapshot, StepBeginSurgical, StepBeginLegacy, StepBegin,
             StepDelete, StepRead, StepPass, StepTake, StepPut, StepMark
      <4>2. \A v \in Reverts : rev'[v].at = rev[v].at
        BY <2>1, <4>1, Zenon
      <4>3. rev[u].via = "legacy" /\ At(i) < rev[u].at
        BY <2>2, <3>1, <4>2
      <4> QED  BY <1>p, <2>1, <2>2, <3>1, <4>1, <4>2, <4>3, Zenon
    <3>3. CASE Advances(w)
      <4>1. rev[w].pc = "work" /\ rev[w].at <= Len(rev[w].todo) /\ rev'[w].at = rev[w].at + 1
        BY <3>3, Zenon DEF Advances
      <4>2. rev[w].via = "legacy"
        <5>1. ~snap.taken
          BY <3>1, Zenon DEF RevertPhases
        <5>2. rev[w].via \in Via
          BY <1>t, RevertFields
        <5> QED  BY <2>4, <5>1, <5>2 DEF RevertPhases, Via
      <4>k. PICK k : k = At(rev[w].at)
        OBVIOUS
      <4>3. k \in DOMAIN run.log /\ Current(w) = PutBackOf(run.log[k]) /\ At(k) = rev[w].at /\ rev[w].at \in Nat
        <5>1. rev[w].at \in DOMAIN rev[w].todo /\ Current(w) = rev[w].todo[rev[w].at]
          BY <4>1, AtItem
        <5>2. k \in DOMAIN run.log /\ Current(w) = PutBackOf(run.log[k])
          BY <2>2, <4>2, <4>k, <5>1, RestoreItems
        <5>3. rev[w].at \in Nat /\ Len(run.log) \in Nat
          BY <1>t, <2>l, RevertFields
        <5> QED  BY <4>k, <5>2, <5>3 DEF At
      <4>m. run.log[k] \in Modification
        BY <2>l, <4>3
      <4>4. \A v \in Reverts : rev[v].at \in Nat /\ (v # w => rev'[v].at = rev[v].at)
        BY <1>t, <2>1, RevertFields
      <4>5. CASE run.log[k].type = "channel" /\ Same(o, k)
        <5>1. ch' = With(ch, run.log[k].c, Only(run.log[k].f, run.log[k].prev))
          <6>1. /\ Current(w).op = "put" /\ Current(w).c = run.log[k].c
                /\ Current(w).vals = Only(run.log[k].f, run.log[k].prev)
            BY <4>3, <4>5, <4>m, PutBackFacts
          <6>2. StepPut(w)
            <7>1. ~StepTake(w) /\ ~StepPass(w) /\ ~StepRead(w)
              BY <6>1 DEF StepTake, StepPass, StepRead, Busy
            <7>2. ~StepDelete(w)
              BY <3>3, Zenon DEF StepDelete, Advances
            <7>3. ~StepMark(w)
              <8>1. "work" # "done"
                OBVIOUS
              <8> QED  BY <3>3, <8>1, Zenon DEF StepMark, Advances
            <7> QED  BY <1>3, <2>4, <7>1, <7>2, <7>3, Zenon DEF RevertKinds, StepBeginSnapshot, StepBeginSurgical,
                       StepBeginLegacy, StepBegin
          <6>3. ch' = With(ch, Current(w).c, Current(w).vals)
            BY <6>2, Zenon DEF StepPut
          <6> QED  BY <6>1, <6>3, Zenon
        <5>2. CASE k = o
          BY <2>1, <2>2, <4>3, <5>1, <5>2, PutField
        <5>3. CASE k # o
          <6>1. At(k) + 1 <= At(o)
            BY <2>2, <4>3, <4>5, <5>3, OldestIsLast
          <6> QED  BY <2>2, <3>1, <4>1, <4>2, <4>3, <6>1
        <5> QED  BY <5>2, <5>3
      <4>6. CASE ~(run.log[k].type = "channel" /\ Same(o, k))
        <5>1. k # o /\ k # i
          <6>1. run.log[o].type = "channel" /\ Same(o, o)
            BY <2>2 DEF Oldest, Same
          <6> QED  BY <2>2, <4>6, <6>1
        <5>2. ch'[run.log[o].c][run.log[o].f] = ch[run.log[o].c][run.log[o].f]
          <6>1. CASE ch' = ch
            BY <6>1
          <6>2. CASE ch' # ch
            <7>1. StepPut(w) /\ ch' = With(ch, Current(w).c, Current(w).vals)
              <8>1. ~StepTake(w)
                <9>1. StepTake(w) => Current(w).op = "take"
                  BY Zenon DEF StepTake, Busy
                <9> QED  BY <2>2, <4>1, <4>2, <9>1, TakeFacts
              <8> QED  BY <1>3, <6>2, <8>1, Zenon DEF RevertKinds, StepBeginSnapshot, StepBeginSurgical,
                         StepBeginLegacy, StepBegin, StepDelete, StepRead, StepPass, StepPut, StepMark
            <7>2. /\ run.log[k].type = "channel" /\ Current(w).c = run.log[k].c
                  /\ Current(w).vals = Only(run.log[k].f, run.log[k].prev)
              BY <4>2, <4>k, <7>1, PutFacts
            <7>3. ch' = With(ch, run.log[k].c, Only(run.log[k].f, run.log[k].prev)) /\ ~Same(o, k)
              BY <4>6, <7>1, <7>2, Zenon
            <7> QED  BY <2>2, <4>3, <7>3, PutField
          <6> QED  BY <6>1, <6>2
        <5>3. At(o) # rev[w].at /\ At(i) # rev[w].at
          BY <2>2, <2>l, <4>3, <5>1 DEF At
        <5>4. rev[u].via = "legacy" /\ At(i) < rev[u].at
          BY <2>2, <2>a, <3>1, <4>1, <4>3, <4>4, <5>3
        <5>5. \A v \in Reverts : rev[v].at <= At(o) => rev'[v].at <= At(o)
          BY <2>a, <4>1, <4>3, <4>4, <5>3
        <5>6. \/ ch[run.log[o].c][run.log[o].f] = run.log[o].prev
              \/ \E v \in Reverts : rev[v].via = "legacy" /\ rev[v].at <= At(o)
          BY <1>p, <2>1, <5>4
        <5> QED  BY <2>1, <2>2, <3>1, <5>2, <5>5, <5>6, Zenon
      <4> QED  BY <4>5, <4>6
    <3> QED  BY <3>2, <3>3
  <2> QED  BY <2>3, <2>4
<1> QED  BY <1>0, <1>1, <1>2, <1>3

-----------------------------------------------------------------------------
(* What others added *)

LEMMA OutsideKeptKept ==
  ASSUME TypeOK, TypeOK', Phases, RevertPhases, Lists, OutsideKept, Kinds
  PROVE  OutsideKept'
<1>t. /\ ch \in [Channels -> Channel] /\ rev \in [Reverts -> RevertStates] /\ outside \in [Channels -> SUBSET Streams]
      /\ ch' \in [Channels -> Channel]
  BY DEF TypeOK
<1>1. CASE RunKinds
  <2>1. outside' = outside /\ run.pc \in {"none", "loaded"} \cup Working
    BY <1>1, RunSummary, Zenon
  <2>2. ~Over
    BY <2>1 DEF Over, Working
  <2>3. \A c \in Channels : outside'[c] = {}
    BY <2>1, <2>2, Zenon DEF OutsideKept
  <2>4. \A u \in Reverts : Busy(u, "take")' => Current(u)'.c \in Channels
    <3>1. \A u \in Reverts : Busy(u, "take")' => rev'[u].at <= Len(rev'[u].todo) /\ Current(u)'.op = "take"
      BY Zenon DEF Busy
    <3>2. ASSUME NEW u \in Reverts, rev'[u].at <= Len(rev'[u].todo), Current(u)'.op = "take"
          PROVE  Current(u)'.c \in Channels
      <4>1. rev'[u].todo \in Seq(Item) /\ rev'[u].at \in Nat \ {0}
        BY RevertFields DEF TypeOK
      <4>2. Current(u)' \in Item
        BY <3>2, <4>1 DEF Current
      <4> QED  BY <3>2, <4>2 DEF Item
    <3> QED  BY <3>1, <3>2
  <2> QED  BY <2>3, <2>4 DEF OutsideKept
<1>2. CASE StepCrash
  <2>1. outside' = outside /\ ch' = ch /\ journal' = journal /\ (Over => Over')
    BY <1>2 DEF StepCrash, Books, Over, RunAlive, Working
  <2>2. \A u \in Reverts :
          /\ rev'[u].via = rev[u].via /\ rev'[u].todo = rev[u].todo /\ rev'[u].at = rev[u].at
          /\ rev'[u].doomed = rev[u].doomed /\ rev'[u].holds = rev[u].holds /\ rev'[u].seen = rev[u].seen
          /\ rev'[u].pc = "work" => rev[u].pc = "work"
    BY <1>2, CrashSummary
  <2>3. \A u \in Reverts : (Busy(u, "take")' => Busy(u, "take")) /\ Current(u)' = Current(u)
    BY <2>2, Zenon DEF Busy, Current
  <2>4. ByJournal' => ByJournal
    BY <2>1, <2>2, Zenon DEF ByJournal
  <2> HIDE DEF Over
  <2> QED  BY <2>1, <2>2, <2>3, <2>4, Zenon DEF OutsideKept
<1>3. ASSUME NEW w \in Reverts, RevertKinds(w)
      PROVE  OutsideKept'
  <2>1. /\ journal' = journal /\ run' = run /\ outside' = outside /\ \A v \in Reverts : v # w => rev'[v] = rev[v]
        /\ rev[w].pc # "idle" => rev'[w].via = rev[w].via
    BY <1>3, RevertSummary, Zenon DEF OthersStay
  <2>2. Over' <=> Over
    BY <2>1, Zenon DEF Over
  <2>3. ByJournal' => ByJournal
    <3>1. rev[w].pc = "idle" => rev[w].via = "none"
      BY DEF RevertPhases
    <3> QED  BY <2>1, <3>1 DEF ByJournal
  <2>4. ASSUME ByJournal, NEW c \in Channels
        PROVE  outside[c] \subseteq ch'[c].streams
    <3>1. outside[c] \subseteq ch[c].streams
      BY <2>4, Zenon DEF OutsideKept
    <3>2. CASE ch' = ch
      BY <3>1, <3>2, Zenon
    <3>3. CASE ch' # ch
      <4>1. ~StepPut(w)
        BY <2>4, PutFacts DEF ByJournal
      <4>2. StepTake(w)
        BY <1>3, <3>3, <4>1, Zenon DEF RevertKinds, StepBeginSnapshot, StepBeginSurgical, StepBeginLegacy, StepBegin,
             StepDelete, StepRead, StepPass, StepMark
      <4> DEFINE v == rev[w].seen \ Current(w).ss
      <4>3. ch' = With(ch, Current(w).c, Only("streams", v)) /\ Busy(w, "take") /\ rev[w].holds
        BY <3>3, <4>2, Zenon DEF StepTake
      <4>4. rev[w].pc = "work" /\ rev[w].at <= Len(rev[w].todo) /\ Current(w).op = "take"
        BY <4>3, Zenon DEF Busy
      <4>5. Current(w).c \in Channels /\ Current(w).ss = Added(Current(w).c)
        BY <4>4, TakeFacts
      <4>6. outside[Current(w).c] \subseteq rev[w].seen
        BY <2>4, <4>3, Zenon DEF OutsideKept
      <4>7. \A s \in outside[Current(w).c] : s \notin Added(Current(w).c)
        <5>1. \A s \in Added(Current(w).c) : \E j \in DOMAIN journal : journal[j].c = Current(w).c /\ journal[j].s = s
          BY <4>5, PageFacts
        <5>2. \A s \in outside[Current(w).c] : \A j \in DOMAIN journal :
                journal[j].c = Current(w).c => journal[j].s # s
          BY <4>5, Zenon DEF OutsideKept
        <5> QED  BY <5>1, <5>2
      <4>8. outside[Current(w).c] \subseteq v
        BY <4>5, <4>6, <4>7
      <4>9. v \in SUBSET Streams
        BY <1>t, RevertFields
      <4> HIDE DEF v
      <4>10. Fits("streams", v)
        BY <4>9 DEF Fits
      <4>11. ch'[c].streams = IF c = Current(w).c THEN v ELSE ch[c].streams
        BY <1>t, <4>3, <4>5, <4>10, WithListOnly
      <4> QED  BY <3>1, <4>8, <4>11
    <3> QED  BY <3>2, <3>3
  <2>5. ASSUME ByJournal, NEW u \in Reverts, Busy(u, "take")', rev'[u].holds
        PROVE  outside[Current(u)'.c] \subseteq rev'[u].seen
    <3>1. CASE u # w
      <4>1. rev'[u] = rev[u]
        BY <2>1, <3>1, Zenon
      <4>2. Busy(u, "take") /\ Current(u)' = Current(u)
        BY <2>5, <4>1, Zenon DEF Busy, Current
      <4> QED  BY <2>5, <4>1, <4>2, Zenon DEF OutsideKept
    <3>2. CASE u = w
      <4>1. rev[u].pc # "idle"
        <5>1. rev[u].pc = "idle" => ~rev[u].holds /\ rev'[u].holds = rev[u].holds
          BY <1>3, <3>2, RevertSummary DEF RevertPhases
        <5> QED  BY <2>5, <5>1, Zenon
      <4>2. StepRead(u)
        <5>1. ~StepDelete(u)
          <6>1. StepDelete(u) => rev[u].doomed /\ rev[u].holds = rev'[u].holds
            BY Zenon DEF StepDelete
          <6>2. ~(rev[u].doomed /\ rev[u].holds)
            BY Zenon DEF RevertPhases
          <6> QED  BY <2>5, <6>1, <6>2, Zenon
        <5>2. ~StepMark(u)
          <6>1. rev'[u].pc = "work" /\ "work" # "done"
            BY <2>5 DEF Busy
          <6> QED  BY <6>1, Zenon DEF StepMark
        <5> QED  BY <1>3, <2>5, <3>2, <4>1, <5>1, <5>2, Zenon DEF RevertKinds, StepBeginSnapshot, StepBeginSurgical,
                   StepBeginLegacy, StepBegin, StepPass, StepTake, StepPut, Advances
      <4>3. /\ rev'[u].seen = ch[Current(u).c].streams /\ rev'[u].todo = rev[u].todo /\ rev'[u].at = rev[u].at
            /\ Busy(u, "take")
        BY <4>2, Zenon DEF StepRead, Stays
      <4>4. Current(u)' = Current(u)
        BY <4>3, Zenon DEF Current
      <4>5. Current(u).c \in Channels
        BY <4>3, CurrentFacts DEF Busy
      <4> QED  BY <2>5, <4>3, <4>4, <4>5, Zenon DEF OutsideKept
    <3> QED  BY <3>1, <3>2
  <2> QED  BY <2>1, <2>2, <2>3, <2>4, <2>5, Zenon DEF OutsideKept
<1>4. ASSUME NEW d \in Channels, StepOutside(d)
      PROVE  OutsideKept'
  <2>1. PICK s \in Streams :
          /\ ch' = With(ch, d, Only("streams", ch[d].streams \cup {s}))
          /\ \/ outside' = outside
             \/ /\ outside' = [outside EXCEPT ![d] = outside[d] \cup {s}]
                /\ Over
                /\ \A i \in DOMAIN journal : journal[i].c = d => journal[i].s # s
                /\ \A u \in Reverts : rev[u].pc = "work" => ~rev[u].holds
          /\ UNCHANGED <<journal, run, rev>>
    BY <1>4, Zenon DEF StepOutside
  <2>2. /\ \A u \in Reverts : (Busy(u, "take")' <=> Busy(u, "take")) /\ Current(u)' = Current(u)
        /\ (Over' <=> Over) /\ (ByJournal' <=> ByJournal)
    BY <2>1, Zenon DEF Busy, Current, Over, ByJournal
  <2>3. \A c \in Channels : ch'[c].streams = IF c = d THEN ch[d].streams \cup {s} ELSE ch[c].streams
    <3> DEFINE v == ch[d].streams \cup {s}
    <3>1. ch[d].streams \in SUBSET Streams
      BY <1>t, FieldTypes
    <3>2. v \in SUBSET Streams /\ ch' = With(ch, d, Only("streams", v))
      BY <2>1, <3>1
    <3> HIDE DEF v
    <3>3. Fits("streams", v)
      BY <3>2 DEF Fits
    <3>4. \A c \in Channels : ch'[c].streams = IF c = d THEN v ELSE ch[c].streams
      BY <1>t, <3>2, <3>3, WithListOnly
    <3> QED  BY <3>4 DEF v
  <2>4. CASE outside' = outside
    <3>1. ByJournal => \A c \in Channels : outside[c] \subseteq ch'[c].streams
      BY <2>3 DEF OutsideKept
    <3>2. journal' = journal /\ rev' = rev
      BY <2>1
    <3>3. ByJournal => \A u \in Reverts :
            Busy(u, "take")' /\ rev'[u].holds => outside'[Current(u)'.c] \subseteq rev'[u].seen
      BY <2>2, <2>4, <3>2, Zenon DEF OutsideKept
    <3>4. /\ ~Over => \A c \in Channels : outside[c] = {}
          /\ \A c \in Channels : \A x \in outside[c] : \A i \in DOMAIN journal : journal[i].c = c => journal[i].s # x
      BY Zenon DEF OutsideKept
    <3> HIDE DEF Over
    <3> QED  BY <2>2, <2>4, <3>1, <3>2, <3>3, <3>4, Zenon DEF OutsideKept
  <2>5. CASE /\ outside' = [outside EXCEPT ![d] = outside[d] \cup {s}]
             /\ Over
             /\ \A i \in DOMAIN journal : journal[i].c = d => journal[i].s # s
             /\ \A u \in Reverts : rev[u].pc = "work" => ~rev[u].holds
    <3>1. \A c \in Channels : outside'[c] = IF c = d THEN outside[d] \cup {s} ELSE outside[c]
      BY <1>t, <2>5
    <3>2. \A u \in Reverts : ~(Busy(u, "take") /\ rev[u].holds)
      BY <2>5, Zenon DEF Busy
    <3>3. \A c \in Channels : \A x \in outside'[c] : \A i \in DOMAIN journal : journal[i].c = c => journal[i].s # x
      BY <2>5, <3>1 DEF OutsideKept
    <3>4. ByJournal => \A c \in Channels : outside'[c] \subseteq ch'[c].streams
      BY <2>3, <3>1 DEF OutsideKept
    <3>5. ~Over' => \A c \in Channels : outside'[c] = {}
      BY <2>2, <2>5
    <3>6. journal' = journal /\ rev' = rev
      BY <2>1
    <3>7. \A u \in Reverts : ~(Busy(u, "take")' /\ rev'[u].holds)
      BY <2>2, <3>2, <3>6, Zenon
    <3> QED  BY <2>2, <3>3, <3>4, <3>5, <3>6, <3>7 DEF OutsideKept
  <2> QED  BY <2>1, <2>4, <2>5
<1>5. ASSUME NEW d \in Channels, StepRename(d)
      PROVE  OutsideKept'
  <2>1. ch' = With(ch, d, Only("key", "edited")) /\ UNCHANGED <<outside, journal, run, rev>>
    BY <1>5, Zenon DEF StepRename
  <2>2. /\ \A u \in Reverts : (Busy(u, "take")' <=> Busy(u, "take")) /\ Current(u)' = Current(u)
        /\ (Over' <=> Over) /\ (ByJournal' <=> ByJournal)
    BY <2>1, Zenon DEF Busy, Current, Over, ByJournal
  <2>3. \A c \in Channels : ch'[c].streams = ch[c].streams
    <3>1. Fits("key", "edited")
      BY DEF Fits, Values
    <3> HIDE DEF Fits
    <3> QED  BY <1>t, <2>1, <3>1, WithListOnly
  <2> QED  BY <2>1, <2>2, <2>3, Zenon DEF OutsideKept
<1> QED  BY <1>1, <1>2, <1>3, <1>4, <1>5, Zenon DEF Kinds

-----------------------------------------------------------------------------
(* The invariant holds, and says what it should *)

LEMMA InitInvariant ==
  ASSUME Init
  PROVE  IInv
<1>1. TypeOK
  BY InitTypes
<1>2. /\ ch = Start /\ made = FALSE /\ journal = <<>> /\ mark = [via |-> "none", early |-> FALSE]
      /\ outside = [c \in Channels |-> {}] /\ edits = 0 /\ faults = 0
  BY Zenon DEF Init
<1>3. row.status = "none" /\ row.created = FALSE /\ row.modified = <<>>
  BY DEF Init
<1>4. snap.taken = FALSE /\ DOMAIN snap.of = {}
  BY DEF Init, NoSnap
<1>5. run.pc = "none" /\ run.made = FALSE /\ run.cache = Start /\ run.log = <<>> /\ run.buffer = <<>>
  BY DEF Init
<1>6. \A u \in Reverts : /\ rev[u].pc = "idle" /\ rev[u].via = "none" /\ ~rev[u].doomed /\ rev[u].todo = <<>>
                         /\ rev[u].at = 1 /\ ~rev[u].holds
  BY DEF Init
<1>7. DOMAIN run.log = {} /\ DOMAIN journal = {} /\ DOMAIN run.buffer = {}
  BY <1>2, <1>5
<1>8. \A c \in Channels : Start[c].streams = StartStreams[c] /\ Start[c].key = "old"
  BY DEF Start
<1>9. Masters \subseteq Channels
  BY RevertAssumption
<1>10. Phases
  BY <1>2, <1>3, <1>4, <1>5, <1>6 DEF Phases
<1>11. RevertPhases
  BY <1>6 DEF RevertPhases, Begun
<1>12. Lists /\ Marked
  BY <1>3, <1>6 DEF Lists, Marked
<1>13. MastersOwn /\ SnapshotIsStart
  BY <1>2, <1>4, <1>7, <1>8, <1>9 DEF MastersOwn, SnapshotIsStart
<1>14. Restored
  BY <1>6 DEF Restored
<1>15. CreatedKnown
  BY <1>2, <1>6 DEF CreatedKnown, Begun
<1>16. Recorded
  BY <1>2, <1>5, <1>7 DEF Recorded
<1>17. Accounted
  <2>1. \A c \in Channels : Known(journal, run.buffer, Start[c].streams, c)
    BY <1>8 DEF Known
  <2>2. \A u \in Reverts : ~rev[u].holds
    BY <1>6, Zenon
  <2> QED  BY <1>2, <1>5, <1>7, <2>1, <2>2 DEF Accounted
<1>18. Cleared
  BY <1>6 DEF Cleared, Begun
<1>19. FirstIsStart /\ HasOldest
  <2>1. run.pc \notin {"rules", "attach"} /\ run.pc \notin Working
    BY <1>5 DEF Working
  <2> QED  BY <1>7, <2>1 DEF FirstIsStart, HasOldest
<1>20. PutBackLast
  BY <1>6 DEF PutBackLast
<1>21. OutsideKept
  <2>1. \A c \in Channels : outside[c] = {}
    BY <1>2
  <2>2. \A u \in Reverts : ~rev[u].holds
    BY <1>6, Zenon
  <2> QED  BY <2>1, <2>2 DEF OutsideKept
<1> QED  BY <1>1, <1>10, <1>11, <1>12, <1>13, <1>14, <1>15, <1>16, <1>17, <1>18, <1>19, <1>20, <1>21 DEF IInv

LEMMA StepInvariant ==
  ASSUME IInv, Next
  PROVE  IInv'
<1>1. /\ TypeOK /\ Phases /\ RevertPhases /\ Lists /\ Marked
      /\ MastersOwn /\ SnapshotIsStart /\ Restored /\ CreatedKnown
      /\ Recorded /\ Accounted /\ Cleared
      /\ FirstIsStart /\ HasOldest /\ PutBackLast /\ OutsideKept
  BY Zenon DEF IInv
<1>2. TypeOK' /\ Kinds
  BY <1>1, NextSteps, Zenon DEF Kinds
<1>3. Phases' /\ RevertPhases' /\ Lists' /\ Marked'
  BY <1>1, <1>2, PhasesKept, RevertPhasesKept, ListsKept, MarkedKept
<1>4. MastersOwn' /\ SnapshotIsStart' /\ Restored' /\ CreatedKnown'
  BY <1>1, <1>2, MastersOwnKept, SnapshotIsStartKept, RestoredKept, CreatedKnownKept
<1>5. Recorded' /\ Accounted' /\ Cleared'
  BY <1>1, <1>2, RecordedKept, AccountedKept, ClearedKept
<1>6. FirstIsStart' /\ HasOldest' /\ PutBackLast' /\ OutsideKept'
  BY <1>1, <1>2, FirstIsStartKept, HasOldestKept, PutBackLastKept, OutsideKeptKept
<1> QED  BY <1>2, <1>3, <1>4, <1>5, <1>6, Zenon DEF IInv

\* Nor does a step that changes nothing disturb it.
LEMMA StutterInvariant ==
  ASSUME IInv, UNCHANGED vars
  PROVE  IInv'
<1>1. /\ ch' = ch /\ made' = made /\ row' = row /\ snap' = snap /\ journal' = journal
      /\ run' = run /\ rev' = rev /\ mark' = mark /\ outside' = outside
      /\ ops' = ops /\ edits' = edits /\ faults' = faults /\ lapses' = lapses /\ crashes' = crashes
  BY DEF vars
<1>2. TypeOK' /\ Phases' /\ Marked'
  BY <1>1 DEF IInv, TypeOK, Phases, Marked
<1>3. RevertPhases'
  BY <1>1 DEF IInv, RevertPhases, Begun, Over
<1>4. Lists'
  <2>1. Lists
    BY DEF IInv
  <2>2. /\ Merged' = Merged
        /\ \A q : SnapshotWrites(q)' = SnapshotWrites(q)
        /\ \A q : Unmerges(q)' = Unmerges(q)
        /\ Restores' = Restores
    BY <1>1 DEF Merged, Page, SnapshotWrites, SnapshotPayload, Unmerges, Added, Restores, ModifiedBackward
  <2> QED  BY <1>1, <2>1, <2>2 DEF Lists
<1>5. MastersOwn' /\ SnapshotIsStart'
  BY <1>1 DEF IInv, MastersOwn, SnapshotIsStart
<1>6. Restored'
  BY <1>1 DEF IInv, Restored, NoSurgical
<1>7. CreatedKnown'
  BY <1>1 DEF IInv, CreatedKnown, Begun
<1>8. Recorded'
  BY <1>1 DEF IInv, Recorded, Merging
<1>9. Accounted'
  BY <1>1 DEF IInv, Accounted, Busy, Current
<1>10. Cleared'
  BY <1>1 DEF IInv, Cleared, Begun, Whole
<1>11. FirstIsStart'
  BY <1>1 DEF IInv, FirstIsStart, Oldest, Same, Merging
<1>12. HasOldest'
  BY <1>1 DEF IInv, HasOldest, Oldest, Same
<1>13. PutBackLast'
  BY <1>1 DEF IInv, PutBackLast, Oldest, Same, At
<1>14. OutsideKept'
  BY <1>1 DEF IInv, OutsideKept, Over, ByJournal, Busy, Current
<1> QED  BY <1>2, <1>3, <1>4, <1>5, <1>6, <1>7, <1>8, <1>9, <1>10, <1>11, <1>12, <1>13, <1>14 DEF IInv

\* The invariant is inductive.
THEOREM Invariance == Spec => []IInv
<1>1. IInv /\ UNCHANGED vars => IInv'
  BY StutterInvariant
<1> QED  BY <1>1, InitInvariant, StepInvariant, PTL DEF Spec

\* The revert that made the row rolled_back.
LEMMA MarkingRevert ==
  ASSUME IInv, row.status = "rolled_back", ~mark.early
  PROVE  \E u \in Reverts :
           /\ rev[u].pc = "done" /\ ~rev[u].doomed /\ ~rev[u].failed /\ ~rev[u].early
           /\ mark.via = rev[u].via /\ rev[u].via \in {"snapshot", "surgical", "legacy"}
           /\ \A i \in DOMAIN rev[u].todo : i < rev[u].at
<1>1. PICK u \in Reverts :
        /\ rev[u].pc = "done" /\ ~rev[u].doomed /\ ~rev[u].failed /\ rev[u].at > Len(rev[u].todo)
        /\ mark.via = rev[u].via /\ mark.early = rev[u].early
  BY Zenon DEF IInv, Marked
<1>2. rev[u].todo \in Seq(Item) /\ rev[u].at \in Nat /\ rev[u].via \in Via
  BY RevertFields DEF IInv, TypeOK
<1>3. rev[u].via # "none"
  BY <1>1 DEF IInv, RevertPhases
<1>4. rev[u].via \in {"snapshot", "surgical", "legacy"}
  BY <1>2, <1>3 DEF Via
<1>5. \A i \in DOMAIN rev[u].todo : i < rev[u].at
  BY <1>1, <1>2
<1> QED  BY <1>1, <1>4, <1>5, Zenon

LEMMA ExactFromInvariant ==
  ASSUME IInv
  PROVE  SnapshotRevertIsExact
<1> SUFFICES ASSUME Reverted("snapshot"), edits = 0, \A u \in Reverts : rev[u].via # "surgical",
                    NEW c \in DOMAIN snap.of
             PROVE  ch[c].streams = StartStreams[c] /\ ch[c].key = "old"
  BY Zenon DEF SnapshotRevertIsExact
<1>1. PICK u \in Reverts :
        /\ ~rev[u].failed /\ ~rev[u].early /\ mark.via = rev[u].via
        /\ \A i \in DOMAIN rev[u].todo : i < rev[u].at
  BY MarkingRevert, Zenon DEF Reverted
<1>2. rev[u].via = "snapshot"
  BY <1>1, Zenon DEF Reverted
<1>3. PICK i \in DOMAIN rev[u].todo : rev[u].todo[i].c = c
  BY <1>2, SnapshotItems, Zenon DEF IInv
<1>4. Exact(ch, c)
  BY <1>1, <1>2, <1>3 DEF IInv, Restored, NoSurgical
<1>5. c \in Masters => ch[c].key = "old"
  BY DEF IInv, MastersOwn
<1> QED  BY <1>4, <1>5 DEF Exact

\* Without an entry, a stream was there before.
LEMMA UnenteredIsClean ==
  ASSUME IInv, edits = 0, faults = 0, NEW c \in Channels,
         \A i \in DOMAIN journal : journal[i].c # c, \A i \in DOMAIN run.buffer : run.buffer[i].c # c
  PROVE  Clean(ch, c)
<1>1. Known(journal, run.buffer, ch[c].streams, c)
  BY Zenon DEF IInv, Accounted
<1>2. \A s : ~Entered(journal, c, s) /\ ~Entered(run.buffer, c, s)
  BY Zenon DEF Entered
<1> QED  BY <1>1, <1>2 DEF Known, Clean

\* An unmerge by a whole journal clears every channel.
LEMMA UnmergedIsClean ==
  ASSUME IInv, edits = 0, faults = 0, Whole, NEW u \in Reverts, rev[u].pc = "done", ~rev[u].early,
         rev[u].via = "surgical" \/ (rev[u].via = "legacy" /\ journal # <<>>),
         \A i \in DOMAIN rev[u].todo : i < rev[u].at, NEW c \in Channels
  PROVE  Clean(ch, c)
<1>t. TypeOK /\ Lists
  BY DEF IInv
<1>1. CASE c \in Merged
  <2>1. PICK i \in DOMAIN rev[u].todo : rev[u].todo[i].c = c
    BY <1>1, <1>t, UnmergeItems, Zenon
  <2>2. Begun(u) /\ (rev[u].via = "legacy" => journal # <<>> /\ Whole)
    BY DEF Begun
  <2>3. ch[rev[u].todo[i].c].streams \subseteq StartStreams[rev[u].todo[i].c]
    BY <2>1, <2>2, Zenon DEF IInv, Cleared
  <2> QED  BY <2>1, <2>3 DEF Clean
<1>2. CASE c \notin Merged
  <2>1. Page = journal
    BY <1>t, PageFacts DEF Whole
  <2>2. \A i \in DOMAIN journal : journal[i].c # c
    BY <1>2, <2>1 DEF Merged
  <2>3. DOMAIN run.buffer = {}
    BY DEF Whole
  <2> QED  BY <2>2, <2>3, UnenteredIsClean
<1> QED  BY <1>1, <1>2

\* When every rollback has finished, every field has its oldest value.
LEMMA OldestIsBack ==
  ASSUME IInv, edits = 0, faults = 0, journal = <<>>, \A v \in Reverts : Worked(v),
         NEW u \in Reverts, rev[u].via = "legacy", NEW i \in DOMAIN run.log, run.log[i].type = "channel"
  PROVE  \E o \in DOMAIN run.log :
           Oldest(o) /\ Same(o, i) /\ ch[run.log[o].c][run.log[o].f] = run.log[o].prev
<1>t. TypeOK /\ Phases /\ RevertPhases /\ Lists /\ PutBackLast /\ HasOldest
  BY DEF IInv
<1>1. PICK o \in DOMAIN run.log : Oldest(o) /\ Same(o, i)
  BY <1>t DEF HasOldest
<1>2. ASSUME NEW v \in Reverts, rev[v].via = "legacy"
      PROVE  \A j \in DOMAIN run.log : At(j) < rev[v].at /\ At(j) \in Nat
  <2>1. Begun(v)
    BY <1>2, <1>t DEF RevertPhases, Begun
  <2>2. rev[v].at > Len(rev[v].todo) /\ rev[v].at \in Nat
    BY <1>t, <2>1, RevertFields DEF Worked, TypeOK
  <2>3. Len(rev[v].todo) = Len(run.log) /\ run.log \in Seq(Modification)
    BY <1>2, <1>t, RestoreItems
  <2> QED  BY <2>2, <2>3 DEF At
<1>3. ~\E v \in Reverts : rev[v].via = "legacy" /\ rev[v].at <= At(o)
  <2>1. \A v \in Reverts : rev[v].at \in Nat
    BY <1>t, RevertFields DEF TypeOK
  <2> QED  BY <1>1, <1>2, <2>1
<1>4. At(i) < rev[u].at
  BY <1>2
<1>5. ch[run.log[o].c][run.log[o].f] = run.log[o].prev
  BY <1>t, <1>1, <1>3, <1>4 DEF PutBackLast
<1> QED  BY <1>1, <1>5

\* A snapshot that is missing failed to be written, and so did entries that are
\* still in the buffer of a run that was saved.
FlushCounted ==
  /\ run.pc \in Working \cup {"saved"} /\ ~snap.taken => lapses >= 1
  /\ run.pc = "saved" /\ ~snap.taken /\ run.buffer # <<>> => lapses >= 2

LEMMA FlushCountedKept ==
  ASSUME TypeOK, FlushCounted, Next
  PROVE  FlushCounted'
<1>t. lapses \in Nat /\ run \in Runs
  BY DEF TypeOK
<1>f. run.pc \in {"none", "loaded", "saved", "raised", "dead"} \cup Working /\ "saved" \notin Working
  BY <1>t, RunFields DEF Working
<1>1. ASSUME lapses' >= lapses, lapses' \in Nat, snap' = snap, run'.pc \notin Working \cup {"saved"}
             \/ run' = run \/ (run.pc \in Working /\ run'.pc \in Working)
      PROVE  FlushCounted'
  BY <1>t, <1>f, <1>1 DEF FlushCounted
<1>2. CASE RunStep
  <2>1. CASE \E a \in {"ok", "refused"} \cap Answers : LoadExistingData(a)
    BY <1>1, <1>t, <2>1 DEF LoadExistingData, Runs, Working
  <2>2. CASE \E ok \in Works : CaptureSnapshot(ok)
    BY <1>t, <2>2 DEF CaptureSnapshot, WriteCost, Count, Runs, Working, FlushCounted
  <2>3. CASE \E c \in Channels, s \in Streams, a \in Answers :
               \E flushed \in (IF a = "ok" THEN Works ELSE {TRUE}) :
                 MergeStream(c, s, a, flushed) \/ Attach(c, s, a, flushed)
    <3>1. PICK c \in Channels, s \in Streams, a \in Answers, flushed \in BOOLEAN :
            MergeStream(c, s, a, flushed) \/ Attach(c, s, a, flushed)
      BY <2>3 DEF Works
    <3>2. snap' = snap /\ lapses' = Count(lapses, ~flushed)
      BY <3>1 DEF MergeStream, Attach, AddStream, WriteCost
    <3>3. run.pc \in Working /\ run'.pc \in Working
      BY <1>t, <3>1 DEF MergeStream, Attach, AddStream, Runs, Working
    <3> QED  BY <1>1, <1>t, <3>2, <3>3 DEF Count
  <2>4. CASE \/ \E c \in Channels, s \in Streams, a \in Answers : RemoveFromChannel(c, s, a)
             \/ \E c \in Channels, s \in Streams : MergeSkipped(c, s)
             \/ \E c \in Channels, f \in Fields \ {"streams"}, a \in Answers : UpdateChannel(c, f, a)
             \/ \E c \in Channels, a \in Answers : PruneMergeStreams(c, a)
             \/ \E a \in Answers : CreateChannel(a)
    <3>1. snap' = snap /\ lapses' = lapses
      BY <2>4 DEF RemoveFromChannel, MergeSkipped, UpdateChannel, PruneMergeStreams, CreateChannel
    <3>2. run.pc \in Working
      BY <2>4 DEF RemoveFromChannel, MergeSkipped, UpdateChannel, PruneMergeStreams, CreateChannel, Working
    <3>3. run'.pc \in Working
      BY <1>t, <2>4 DEF RemoveFromChannel, MergeSkipped, UpdateChannel, PruneMergeStreams, CreateChannel,
         Runs, Working
    <3> QED  BY <1>1, <1>t, <3>1, <3>2, <3>3
  <2>5. CASE \E flushed \in Works : SaveExecution(flushed)
    BY <1>t, <1>f, <2>5 DEF SaveExecution, FinalFlush, WriteCost, Count, Runs, FlushCounted
  <2>6. CASE \E flushed \in Works : RunRaises(flushed)
    BY <1>t, <2>6 DEF RunRaises, FinalFlush, Runs, FlushCounted, Working
  <2> QED  BY <1>2, <2>1, <2>2, <2>3, <2>4, <2>5, <2>6 DEF RunStep
<1>3. CASE CrashAndRestart
  BY <1>1, <1>t, <1>3 DEF CrashAndRestart, Runs, Working
<1>4. CASE \E u \in Reverts : RevertStep(u)
  <2>1. snap' = snap /\ lapses' = lapses /\ run' = run
    BY <1>4 DEF RevertStep, RollbackSurgical, RollbackLegacy, RollbackBySnapshot,
       RestoreSnapshot, Revert, DeleteCreated, WriteRemaining, PutBack, ReadCurrent, PassOver, MarkRolledBack
  <2> QED  BY <1>1, <1>t, <2>1
<1>5. CASE \/ \E c \in Channels, s \in Streams : OutsideAdds(c, s)
           \/ \E c \in Channels : MasterRenamed(c)
  <2>1. snap' = snap /\ lapses' = lapses /\ run' = run
    BY <1>5 DEF OutsideAdds, MasterRenamed
  <2> QED  BY <1>1, <1>t, <2>1
<1> QED  BY <1>2, <1>3, <1>4, <1>5 DEF Next

LEMMA GoneFromInvariant ==
  ASSUME IInv, FlushCounted
  PROVE  CreatedAndMergedGone
<1> SUFFICES ASSUME row.status = "rolled_back", ~mark.early, edits = 0, faults = 0, run.pc = "saved"
             PROVE  /\ ~made
                    /\ snap.taken => \A c \in DOMAIN snap.of : ch[c].streams \subseteq StartStreams[c]
                    /\ /\ ~snap.taken /\ \A u \in Reverts : Worked(u)
                       /\ journal # <<>> => (run.buffer = <<>> \/ lapses <= 1) /\ Len(journal) <= PageSize
                       => \A c \in Channels : ch[c].streams \subseteq StartStreams[c]
  BY Zenon DEF CreatedAndMergedGone
<1>t. TypeOK /\ Phases /\ RevertPhases /\ Lists /\ Recorded
  BY DEF IInv
<1>1. PICK u \in Reverts :
        /\ rev[u].pc = "done" /\ ~rev[u].doomed /\ ~rev[u].failed /\ ~rev[u].early
        /\ rev[u].via \in {"snapshot", "surgical", "legacy"}
        /\ \A i \in DOMAIN rev[u].todo : i < rev[u].at
  BY MarkingRevert, Zenon
<1>2. Begun(u)
  BY <1>1 DEF Begun
<1>3. ~made
  BY <1>1, <1>2, Zenon DEF IInv, CreatedKnown
<1>4. ASSUME snap.taken, NEW c \in DOMAIN snap.of
      PROVE  ch[c].streams \subseteq StartStreams[c]
  <2>1. rev[u].via # "legacy" /\ c \in Channels
    BY <1>4, <1>t, Zenon DEF RevertPhases, TypeOK
  <2>2. CASE rev[u].via = "snapshot"
    <3>1. PICK i \in DOMAIN rev[u].todo : rev[u].todo[i].c = c
      BY <1>t, <2>2, SnapshotItems, Zenon
    <3>2. ch[rev[u].todo[i].c].streams \subseteq StartStreams[rev[u].todo[i].c]
      BY <1>1, <1>2, <2>1, <3>1, Zenon DEF IInv, Cleared
    <3> QED  BY <3>1, <3>2
  <2>3. CASE rev[u].via = "surgical"
    <3>1. Whole
      BY <1>t, <2>3, SurgicalWhole
    <3> QED  BY <1>1, <2>1, <2>3, <3>1, UnmergedIsClean DEF Clean
  <2> QED  BY <1>1, <2>1, <2>2, <2>3
<1>5. ASSUME ~snap.taken, \A v \in Reverts : Worked(v),
             journal # <<>> => (run.buffer = <<>> \/ lapses <= 1) /\ Len(journal) <= PageSize, NEW c \in Channels
      PROVE  ch[c].streams \subseteq StartStreams[c]
  <2>1. rev[u].via = "legacy"
    BY <1>1, <1>5, <1>t DEF RevertPhases
  <2>2. CASE journal # <<>>
    <3>1. run.buffer = <<>>
      <4>1. lapses \in Nat
        BY <1>t DEF TypeOK
      <4> QED  BY <1>5, <2>2, <4>1 DEF FlushCounted
    <3>2. Whole
      BY <1>5, <2>2, <3>1 DEF Whole
    <3> QED  BY <1>1, <2>1, <2>2, <3>2, UnmergedIsClean DEF Clean
  <2>3. CASE journal = <<>> /\ \E k \in DOMAIN run.log : Merging(k, c)
    <3>1. PICK k \in DOMAIN run.log : run.log[k].c = c /\ run.log[k].f = "streams" /\ run.log[k].type = "channel"
      BY <2>3, Zenon DEF Merging
    <3>2. PICK o \in DOMAIN run.log :
            Oldest(o) /\ Same(o, k) /\ ch[run.log[o].c][run.log[o].f] = run.log[o].prev
      BY <1>5, <2>1, <2>3, <3>1, OldestIsBack
    <3>3. run.log[o].c = c /\ run.log[o].f = "streams"
      BY <3>1, <3>2 DEF Same
    <3>4. run.log[o].prev \subseteq StartStreams[c]
      BY <3>2, <3>3 DEF IInv, FirstIsStart
    <3>5. ch[c]["streams"] = ch[c].streams
      BY <1>t, FieldTypes DEF TypeOK
    <3> QED  BY <3>2, <3>3, <3>4, <3>5
  <2>4. CASE journal = <<>> /\ ~\E k \in DOMAIN run.log : Merging(k, c)
    <3>1. DOMAIN journal = {}
      BY <2>4
    <3>2. \A i \in DOMAIN run.buffer : run.buffer[i].c # c
      BY <1>t, <2>4, Zenon DEF Recorded
    <3> QED  BY <3>1, <3>2, UnenteredIsClean DEF Clean
  <2> QED  BY <2>2, <2>3, <2>4
<1> QED  BY <1>3, <1>4, <1>5

LEMMA PutBackFromInvariant ==
  ASSUME IInv
  PROVE  ModificationsPutBack
<1> SUFFICES ASSUME Reverted("legacy"), edits = 0, faults = 0, journal = <<>>, \A v \in Reverts : Worked(v),
                    NEW i \in DOMAIN row.modified,
                    ~\E j \in DOMAIN row.modified : row.modified[j].c = row.modified[i].c /\ row.modified[j].type = "stream"
             PROVE  ch[row.modified[i].c][row.modified[i].f] = Start[row.modified[i].c][row.modified[i].f]
  BY Zenon DEF ModificationsPutBack
<1>t. TypeOK /\ Phases /\ RevertPhases
  BY DEF IInv
<1>1. PICK u \in Reverts : mark.via = rev[u].via
  BY MarkingRevert, Zenon DEF Reverted
<1>2. rev[u].via = "legacy"
  BY <1>1, Zenon DEF Reverted
<1>3. row.modified = run.log /\ run.log \in Seq(Modification)
  BY <1>2, <1>t, RunFields DEF RevertPhases, Phases, TypeOK
<1>4. run.log[i].type = "channel"
  <2>1. run.log[i] \in Modification
    BY <1>3
  <2> QED  BY <1>3, <2>1, PutBackFacts
<1>5. PICK o \in DOMAIN run.log : Oldest(o) /\ Same(o, i) /\ ch[run.log[o].c][run.log[o].f] = run.log[o].prev
  BY <1>2, <1>3, <1>4, OldestIsBack
<1>6. \A j \in DOMAIN run.log : j < o => ~Same(j, o)
  <2>1. ASSUME NEW j \in DOMAIN run.log, j < o, Same(j, o)
        PROVE  FALSE
    <3>1. run.log[j] \in Modification
      BY <1>3
    <3>2. run.log[j].type # "channel"
      BY <1>5, <2>1, Zenon DEF Oldest
    <3>3. run.log[j].type = "stream" /\ run.log[j].c = run.log[i].c
      BY <1>5, <2>1, <3>1, <3>2, PutBackFacts DEF Same
    <3> QED  BY <1>3, <3>3, Zenon
  <2> QED  BY <2>1
<1>7. run.log[o].prev = Start[run.log[o].c][run.log[o].f]
  BY <1>5, <1>6, Zenon DEF IInv, FirstIsStart
<1> QED  BY <1>3, <1>5, <1>7 DEF Same

\* A revert that says rolled_back is complete, for any number of channels, streams,
\* reverts and failures: what the snapshot covers is exactly as before the run,
\* nothing created or merged is left, every recorded modification is put back.
THEOREM RevertCompleteness == Spec => []RevertIsComplete
<1>1. IInv /\ FlushCounted => RevertIsComplete
  <2>1. IInv => TypeOK
    BY DEF IInv
  <2> QED  BY <2>1, ExactFromInvariant, GoneFromInvariant, PutBackFromInvariant DEF RevertIsComplete
<1>2. Init => FlushCounted
  BY DEF Init, FlushCounted, Working
<1>3. IInv /\ FlushCounted /\ [Next]_vars => FlushCounted'
  <2>1. IInv => TypeOK
    BY DEF IInv
  <2>2. FlushCounted /\ UNCHANGED vars => FlushCounted'
    BY DEF FlushCounted, vars
  <2> QED  BY <2>1, <2>2, FlushCountedKept
<1> QED  BY <1>1, <1>2, <1>3, Invariance, PTL DEF Spec

\* What others added to a channel after the run survives every unmerge by the
\* journal, unless it falls between the unmerge's read and its write.
THEOREM OthersEditsSurvive == Spec => []EditsOutsideWindowSurvive
<1>1. IInv => EditsOutsideWindowSurvive
  BY Zenon DEF IInv, OutsideKept, ByJournal, EditsOutsideWindowSurvive
<1> QED  BY <1>1, Invariance, PTL

\* Neither the run nor a revert writes the metadata of an event_sync master.
THEOREM MastersKeepTheirMetadata == Spec => MasterMetadataKept
<1>1. ASSUME IInv, [Next]_vars
      PROVE  [\A c \in Masters : ch'[c].key # ch[c].key => edits' # edits]_vars
  <2>1. CASE Next
    <3>1. TypeOK /\ Phases /\ RevertPhases /\ Lists /\ MastersOwn
      BY <1>1 DEF IInv
    <3>2. TypeOK' /\ Kinds
      BY <2>1, <3>1, NextSteps, Zenon DEF Kinds
    <3>3. \A c \in Masters : edits' = edits => ch'[c].key = ch[c].key
      BY <3>1, <3>2, MasterKey
    <3> QED  BY <3>3
  <2>2. CASE UNCHANGED vars
    BY <2>2
  <2> QED  BY <1>1, <2>1, <2>2
<1> QED  BY <1>1, Invariance, PTL DEF Spec, MasterMetadataKept
=============================================================================
