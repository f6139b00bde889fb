------------------------- MODULE OrphanReconcileProofs -------------------------
(***************************************************************************)
(* Proofs about OrphanReconcile: any number of runs at once, any rules and *)
(* orphan actions, failed calls, crashes, edits of the rules between the   *)
(* load and the save of a run, and channels that others delete.            *)
(*                                                                         *)
(* A hand-built channel is lost to a run only if its id gets into what the *)
(* orphan pass works from, and that comes a long way: a rule row is read,  *)
(* kept in memory through a whole run, met ids are added to it, and it is  *)
(* written back over whatever others wrote, then read by the next run.     *)
(* The invariant therefore follows the ids through every place they pass.  *)
(***************************************************************************)
EXTENDS OrphanReconcile, WellFoundedInduction, TLAPS

Phases == {"idle", "load", "fetch", "execute", "reconcile", "stats"}
Channel == [id : Ids, name : Names, by : Rules \cup {Hand}]
Row == [state : {"on", "off", "gone"}, takes : SUBSET Streams,
        managed : SUBSET Ids]
RunRec ==
    [phase : Phases, asked : SUBSET Rules, scope : SUBSET Accounts,
     loaded : UNION {[S -> Row] : S \in SUBSET Rules},
     known : SUBSET Channel, accounts : SUBSET Accounts,
     seen : SUBSET Streams, entries : SUBSET Streams, made : SUBSET Ids, capped : BOOLEAN,
     order : UNION {[S -> SUBSET Ids] : S \in SUBSET Rules},
     orphans : SUBSET (Rules \X Ids)]

(* Every field of every run in progress, with the rows it holds.           *)
Typed ==
    /\ channels \subseteq Channel /\ nextId \in Nat
    /\ playlist \subseteq Streams
    /\ rows \in [Rules -> Row]
    /\ run \in [Runners -> RunRec]

(* What a run R holds fits together: it works only on streams it fetched   *)
(* and one of its rules takes.                                             *)
Taken(R, s) == \E i \in DOMAIN RuleOrder :
    /\ RuleOrder[i] \in DOMAIN R.loaded
    /\ RuleAccount[RuleOrder[i]] \in {AllOf, AccountOf[s]}
    /\ s \in R.loaded[RuleOrder[i]].takes

Shape(R) ==
    /\ DOMAIN R.order = DOMAIN R.loaded
    /\ DOMAIN R.loaded \subseteq R.asked
    /\ R.entries \subseteq R.seen
    /\ R.phase # "execute" => R.entries = {}
    /\ \A s \in R.entries : Taken(R, s)

(* None of the ids is the id of a hand-built channel among C.              *)
Ours(C, ids) == \A c \in C : c.by = Hand => c.id \notin ids

RunOurs(C, R) ==
    /\ Ours(C, R.made)
    /\ \A r \in DOMAIN R.loaded : Ours(C, R.loaded[r].managed)
    /\ \A r \in DOMAIN R.loaded : Ours(C, R.order[r])
    /\ \A r \in Rules, id \in Ids : <<r, id>> \in R.orphans => Ours(C, {id})

(* Ids are not reused; no ledger, in the table or in the memory of a run,  *)
(* and no list of orphans names a hand-built channel.                      *)
OrphanInv ==
    /\ Typed
    /\ \A w \in Runners : Shape(run[w])
    /\ \A c \in channels : c.id < nextId
    /\ \A r \in Rules : Ours(channels, rows[r].managed)
    /\ \A w \in Runners : RunOurs(channels, run[w])

(* A step that brings no hand-built channel into being.                    *)
NoNewHand == \A c \in channels' : c.by = Hand => c \in channels

-----------------------------------------------------------------------------
(* The empty function, which an idle run holds as ledger and order.        *)
LEMMA EmptyFunction ==
  ASSUME NEW T
  PROVE  <<>> \in [{} -> T] /\ DOMAIN <<>> = {}
  OBVIOUS

LEMMA IdleTyped == Idle \in RunRec
<1>1. <<>> \in [{} -> Row] /\ <<>> \in [{} -> SUBSET Ids]
  BY EmptyFunction
<1>2. {} \in SUBSET Rules
  OBVIOUS
<1>3. <<>> \in UNION {[S -> Row] : S \in SUBSET Rules}
  BY <1>1, <1>2
<1>4. <<>> \in UNION {[S -> SUBSET Ids] : S \in SUBSET Rules}
  BY <1>1, <1>2
<1>. QED
  BY <1>3, <1>4 DEF Idle, RunRec, Phases

LEMMA IdleOurs ==
  ASSUME NEW C
  PROVE  Shape(Idle) /\ RunOurs(C, Idle)
  BY EmptyFunction DEF Idle, Shape, RunOurs, Ours

LEMMA InitInv == Init => OrphanInv
<1>. SUFFICES ASSUME Init PROVE OrphanInv
  OBVIOUS
<1>. DEFINE n == CHOOSE m \in Names : TRUE
<1>0. n \in Names
  BY OrphanAssumption
<1>1. channels = {[id |-> 1, name |-> n, by |-> Hand]}
  BY DEF Init
<1>2. channels \subseteq Channel /\ \A c \in channels : c.id < nextId
  BY <1>0, <1>1, OrphanAssumption DEF Init, Channel, Ids
<1>3. rows \in [Rules -> Row] /\ \A r \in Rules : rows[r].managed = {}
  BY OrphanAssumption DEF Init, Row
<1>4. run \in [Runners -> RunRec] /\ \A w \in Runners : run[w] = Idle
  BY IdleTyped DEF Init
<1>5. \A r \in Rules : Ours(channels, rows[r].managed)
  BY <1>3 DEF Ours
<1>6. \A w \in Runners : Shape(run[w]) /\ RunOurs(channels, run[w])
  BY <1>4, IdleOurs
<1>. QED
  BY <1>2, <1>3, <1>4, <1>5, <1>6 DEF Init, OrphanInv, Typed

(* What is ours stays ours while no channel is built by hand.              *)
LEMMA OursKept ==
  ASSUME NEW ids, NoNewHand, Ours(channels, ids)
  PROVE  Ours(channels', ids)
  BY DEF NoNewHand, Ours

LEMMA RunOursKept ==
  ASSUME NEW R, NoNewHand, RunOurs(channels, R)
  PROVE  RunOurs(channels', R)
  BY OursKept DEF RunOurs

(* A step of one run, which takes it to R, and of what is outside it.      *)
LEMMA RunStepKeeps ==
  ASSUME OrphanInv, NEW w \in Runners, NEW R \in RunRec,
         run' = [run EXCEPT ![w] = R], NoNewHand,
         Shape(R), RunOurs(channels', R),
         channels' \subseteq Channel, nextId' \in Nat,
         \A c \in channels' : c.id < nextId',
         playlist' = playlist, rows' \in [Rules -> Row],
         \A r \in Rules : Ours(channels', rows'[r].managed)
  PROVE  OrphanInv'
<1>1. run' \in [Runners -> RunRec]
  BY DEF OrphanInv, Typed
<1>2. \A v \in Runners : run'[v] = IF v = w THEN R ELSE run[v]
  BY DEF OrphanInv, Typed
<1>3. \A v \in Runners : RunOurs(channels', run'[v])
  BY <1>2, RunOursKept DEF OrphanInv
<1>4. \A v \in Runners : Shape(run'[v])
  BY <1>2 DEF OrphanInv
<1>. QED
  BY <1>1, <1>3, <1>4 DEF OrphanInv, Typed

(* A step of one run that changes neither the channels nor the rules.      *)
LEMMA InnerStepKeeps ==
  ASSUME OrphanInv, NEW w \in Runners, NEW R \in RunRec,
         run' = [run EXCEPT ![w] = R],
         Shape(R), RunOurs(channels, R),
         UNCHANGED <<channels, nextId, playlist, rows>>
  PROVE  OrphanInv'
<1>1. NoNewHand
  BY DEF NoNewHand
<1>. QED
  BY <1>1, RunStepKeeps DEF OrphanInv, Typed

LEMMA StartKeeps ==
  ASSUME OrphanInv, NEW w \in Runners, NEW asked \in RuleSets,
         NEW scope \in Scopes, Start(w, asked, scope)
  PROVE  OrphanInv'
<1>. DEFINE R == [Idle EXCEPT !.phase = "load", !.asked = asked, !.scope = scope]
<1>1. R \in RunRec
  <2>1. asked \subseteq Rules /\ scope \subseteq Accounts
    BY OrphanAssumption
  <2>. QED
    BY <2>1, IdleTyped DEF RunRec, Phases
<1>2. Shape(R) /\ RunOurs(channels, R)
  BY EmptyFunction DEF Idle, Shape, RunOurs, Ours
<1>. QED
  BY <1>1, <1>2, InnerStepKeeps DEF Start

LEMMA LoadKeeps ==
  ASSUME OrphanInv, NEW w \in Runners, LoadExistingData(w)
  PROVE  OrphanInv'
<1>. DEFINE on == {r \in run[w].asked : rows[r].state = "on"}
<1>1. PICK found \in {channels, {}} :
         run' = [run EXCEPT
                  ![w].phase = "fetch", ![w].known = found,
                  ![w].loaded = [r \in on |-> rows[r]],
                  ![w].order = [r \in on |-> {}],
                  ![w].accounts = IF on = {} THEN {}
                                  ELSE AccountsToFetch(run[w].scope, on)]
  BY DEF LoadExistingData
<1>. DEFINE R == [run[w] EXCEPT !.phase = "fetch", !.known = found,
                  !.loaded = [r \in on |-> rows[r]],
                  !.order = [r \in on |-> {}],
                  !.accounts = IF on = {} THEN {}
                               ELSE AccountsToFetch(run[w].scope, on)]
<1>2. run[w] \in RunRec /\ Shape(run[w]) /\ RunOurs(channels, run[w])
  BY DEF OrphanInv, Typed
<1>3. on \subseteq Rules /\ found \subseteq Channel
  BY <1>2 DEF OrphanInv, Typed, RunRec
<1>4. [r \in on |-> rows[r]] \in [on -> Row] /\ [r \in on |-> {}] \in [on -> SUBSET Ids]
  BY <1>3 DEF OrphanInv, Typed
<1>5. AccountsToFetch(run[w].scope, on) \subseteq Accounts
  <2>1. RuleAccount \in [Rules -> Accounts \cup {AllOf}]
    BY OrphanAssumption
  <2>2. {RuleAccount[r] : r \in on} \ {AllOf} \subseteq Accounts
    BY <1>3, <2>1
  <2>. QED
    BY <1>2, <2>2 DEF AccountsToFetch, RunRec
<1>6. R \in RunRec
  <2>1. [r \in on |-> rows[r]] \in UNION {[S -> Row] : S \in SUBSET Rules}
    BY <1>3, <1>4
  <2>2. [r \in on |-> {}] \in UNION {[S -> SUBSET Ids] : S \in SUBSET Rules}
    BY <1>3, <1>4
  <2>. QED
    BY <1>2, <1>3, <1>5, <2>1, <2>2 DEF RunRec, Phases
<1>7. Shape(R)
  <2>1. run[w].entries = {}
    BY <1>2 DEF Shape, LoadExistingData
  <2>. QED
    BY <1>2, <2>1 DEF Shape, RunRec
<1>8. RunOurs(channels, R)
  <2>1. \A r \in on : Ours(channels, rows[r].managed) /\ Ours(channels, {})
    BY <1>3 DEF OrphanInv, Ours
  <2>. QED
    BY <1>2, <2>1 DEF RunOurs, RunRec
<1>9. run' = [run EXCEPT ![w] = R]
  BY <1>1 DEF OrphanInv, Typed
<1>. QED
  BY <1>6, <1>7, <1>8, <1>9, InnerStepKeeps DEF LoadExistingData

(* A set of numbers has a least one.                                       *)
LEMMA Least ==
  ASSUME NEW S, S \subseteq Nat, S # {}
  PROVE  \E i \in S : \A j \in S : i <= j
<1>. DEFINE Rel == OpToRel(<, Nat)
<1>1. \A i, j \in Nat : i < j => <<i, j>> \in Rel
  BY DEF OpToRel
<1>2. IsWellFoundedOn(Rel, Nat)
  BY NatLessThanWellFounded
<1>. HIDE DEF Rel
<1>3. PICK i \in S : \A j \in S : ~ (<<j, i>> \in Rel)
  BY <1>2, WFMin
<1>4. \A j \in S : ~ (j < i)
  BY <1>1, <1>3
<1>5. \A j \in S : i <= j
  BY <1>4
<1>. QED
  BY <1>5

(* Every stream still to be executed has a rule of the run to go to.       *)
LEMMA WinnerIsRule ==
  ASSUME OrphanInv, NEW w \in Runners, NEW s \in run[w].entries
  PROVE  Winner(w, s) \in Loaded(w) /\ Winner(w, s) \in Rules
<1>1. Candidates(w, s) # {} /\ Candidates(w, s) \subseteq DOMAIN RuleOrder
  BY DEF OrphanInv, Shape, Taken, Candidates, Loaded
<1>2. DOMAIN RuleOrder \subseteq Nat
  BY OrphanAssumption
<1>3. \E i \in Candidates(w, s) : \A j \in Candidates(w, s) : i <= j
  BY <1>1, <1>2, Least
<1>4. PICK i \in Candidates(w, s) : Winner(w, s) = RuleOrder[i]
  BY <1>3 DEF Winner
<1>. QED
  BY <1>4 DEF Candidates, Rules

LEMMA HeldTyped ==
  ASSUME NEW R \in RunRec
  PROVE  /\ R.loaded \in [DOMAIN R.loaded -> Row] /\ DOMAIN R.loaded \subseteq Rules
         /\ R.order \in [DOMAIN R.order -> SUBSET Ids] /\ DOMAIN R.order \subseteq Rules
<1>1. PICK S \in SUBSET Rules : R.loaded \in [S -> Row]
  BY DEF RunRec
<1>2. PICK T \in SUBSET Rules : R.order \in [T -> SUBSET Ids]
  BY DEF RunRec
<1>. QED
  BY <1>1, <1>2

(* What the invariant says of the run that takes a step.                   *)
LEMMA OfRun ==
  ASSUME OrphanInv, NEW w \in Runners
  PROVE  run[w] \in RunRec /\ Shape(run[w]) /\ RunOurs(channels, run[w])
  BY DEF OrphanInv, Typed

LEMMA FetchKeeps ==
  ASSUME OrphanInv, NEW w \in Runners, NEW a \in Accounts, FetchAccount(w, a)
  PROVE  OrphanInv'
<1>. DEFINE more == {s \in playlist : AccountOf[s] = a}
<1>1. PICK S \in {more, {}} :
        run' = [run EXCEPT ![w] = [run[w] EXCEPT !.accounts = run[w].accounts \ {a},
                                                 !.seen = run[w].seen \cup S]]
  <2>1. CASE run' = [run EXCEPT ![w].accounts = @ \ {a}, ![w].seen = @ \cup more]
    BY <2>1, OfRun DEF RunRec
  <2>2. CASE run' = [run EXCEPT ![w].accounts = @ \ {a}]
    <3>1. run[w].seen \cup {} = run[w].seen
      OBVIOUS
    <3>2. [run[w] EXCEPT !.accounts = @ \ {a}]
            = [run[w] EXCEPT !.accounts = run[w].accounts \ {a},
                             !.seen = run[w].seen \cup {}]
      BY <3>1, OfRun DEF RunRec
    <3>. QED
      BY <2>2, <3>2, OfRun DEF RunRec
  <2>. QED
    BY <2>1, <2>2 DEF FetchAccount
<1>. DEFINE R == [run[w] EXCEPT !.accounts = run[w].accounts \ {a},
                               !.seen = run[w].seen \cup S]
<1>2. R \in RunRec
  <2>1. S \subseteq Streams
    BY DEF OrphanInv, Typed
  <2>. QED
    BY <2>1, OfRun DEF RunRec
<1>3. Shape(R) /\ RunOurs(channels, R)
  BY OfRun DEF FetchAccount, RunRec, Shape, Taken, RunOurs
<1>. QED
  BY <1>1, <1>2, <1>3, InnerStepKeeps DEF FetchAccount

LEMMA ListFailsKeeps ==
  ASSUME OrphanInv, NEW w \in Runners, AccountListFails(w)
  PROVE  OrphanInv'
  BY IdleTyped, IdleOurs, InnerStepKeeps DEF AccountListFails

LEMMA EvaluateKeeps ==
  ASSUME OrphanInv, NEW w \in Runners, Evaluate(w)
  PROVE  OrphanInv'
<1>. DEFINE R == [run[w] EXCEPT !.phase = "execute", !.entries = Matched(w)]
<1>1. run' = [run EXCEPT ![w] = R]
  BY OfRun DEF Evaluate, RunRec
<1>2. Matched(w) \subseteq run[w].seen
  BY DEF Matched
<1>3. R \in RunRec
  BY <1>2, OfRun DEF RunRec, Phases
<1>4. Shape(R) /\ RunOurs(channels, R)
  <2>1. \A s \in Matched(w) : Taken(R, s)
    BY OfRun DEF Matched, Candidates, Loaded, Taken, RunRec
  <2>. QED
    BY <1>2, <2>1, OfRun DEF RunRec, Shape, RunOurs
<1>. QED
  BY <1>1, <1>3, <1>4, InnerStepKeeps DEF Evaluate, counters

(* owned_by_this_rule: a met id enters the order of a rule only when it is *)
(* ours already.                                                           *)
LEMMA SkipKeeps ==
  ASSUME OrphanInv, NEW w \in Runners, NEW s \in Streams, SkipExisting(w, s)
  PROVE  OrphanInv'
<1>. DEFINE r == Winner(w, s)
<1>1. PICK c \in FindChannel(w, NameOf[s]) :
        run' = [run EXCEPT ![w].entries = @ \ {s}, ![w].order = Meet(w, r, c.id)]
  BY DEF SkipExisting
<1>. DEFINE R == [run[w] EXCEPT !.entries = @ \ {s}, !.order = Meet(w, r, c.id)]
<1>2. run' = [run EXCEPT ![w] = R]
  BY <1>1, OfRun DEF RunRec
<1>3. c.id \in Ids
  BY OfRun DEF FindChannel, RunRec, Channel
<1>. HIDE DEF r
<1>4. /\ Meet(w, r, c.id) \in [DOMAIN run[w].order -> SUBSET Ids]
      /\ DOMAIN run[w].order \subseteq Rules
  BY <1>3, OfRun, HeldTyped DEF Meet
<1>5. \A q \in Loaded(w) : Ours(channels, Meet(w, r, c.id)[q])
  <2>. SUFFICES ASSUME NEW q \in Loaded(w)
                PROVE  Ours(channels, Meet(w, r, c.id)[q])
    OBVIOUS
  <2>1. Ours(channels, run[w].order[q]) /\ Ours(channels, run[w].made)
        /\ Ours(channels, run[w].loaded[q].managed)
    BY OfRun DEF RunOurs, Loaded
  <2>2. q \in DOMAIN run[w].order
    BY OfRun DEF Shape, Loaded
  <2>3. CASE q = r /\ Owned(w, r, c.id)
    <3>1. Meet(w, r, c.id)[q] = run[w].order[q] \cup {c.id}
      BY <2>2, <2>3 DEF Meet
    <3>. QED
      BY <2>1, <2>3, <3>1 DEF Owned, Ours
  <2>4. CASE ~(q = r /\ Owned(w, r, c.id))
    BY <2>1, <2>2, <2>4 DEF Meet
  <2>. QED
    BY <2>3, <2>4
<1>6. R \in RunRec
  <2>1. Meet(w, r, c.id) \in UNION {[S -> SUBSET Ids] : S \in SUBSET Rules}
    BY <1>4
  <2>. QED
    BY <2>1, OfRun DEF RunRec
<1>7. Shape(R)
  <2>1. \A q \in R.entries : Taken(R, q)
    BY OfRun DEF Shape, Taken, RunRec
  <2>. QED
    BY <1>4, <2>1, OfRun DEF Shape, RunRec
<1>8. RunOurs(channels, R)
  BY <1>5, OfRun DEF RunOurs, RunRec, Loaded
<1>. QED
  BY <1>2, <1>6, <1>7, <1>8, InnerStepKeeps DEF SkipExisting, counters

LEMMA CapKeeps ==
  ASSUME OrphanInv, NEW w \in Runners, StopAtCap(w)
  PROVE  OrphanInv'
<1>. DEFINE R == [run[w] EXCEPT !.entries = {}, !.capped = TRUE]
<1>1. run' = [run EXCEPT ![w] = R]
  BY OfRun DEF StopAtCap, RunRec
<1>2. R \in RunRec /\ Shape(R) /\ RunOurs(channels, R)
  BY OfRun DEF RunRec, Shape, RunOurs
<1>. QED
  BY <1>1, <1>2, InnerStepKeeps DEF StopAtCap, counters

(* A stream leaves the list of a run that is otherwise as it was.          *)
LEMMA EntryDone ==
  ASSUME OrphanInv, NEW w \in Runners, NEW s
  PROVE  LET R == [run[w] EXCEPT !.entries = @ \ {s}]
         IN  R \in RunRec /\ Shape(R) /\ RunOurs(channels, R)
<1>. DEFINE R == [run[w] EXCEPT !.entries = @ \ {s}]
<1>1. \A q \in R.entries : Taken(R, q)
  BY OfRun DEF Shape, Taken, RunRec
<1>2. R \in RunRec /\ Shape(R) /\ RunOurs(channels, R)
  BY <1>1, OfRun DEF RunRec, Shape, RunOurs
<1>. QED
  BY <1>2

LEMMA CreateKeeps ==
  ASSUME OrphanInv, NEW w \in Runners, NEW s \in Streams, CreateChannel(w, s)
  PROVE  OrphanInv'
<1>. DEFINE r == Winner(w, s)
            c == [id |-> nextId, name |-> NameOf[s], by |-> r]
            D == [run[w] EXCEPT !.entries = @ \ {s}]
            R == [run[w] EXCEPT !.entries = @ \ {s}, !.known = @ \cup {c},
                    !.made = @ \cup {c.id}, !.order[r] = @ \cup {c.id}]
<1>1. r \in Loaded(w) /\ r \in Rules /\ r # Hand
  BY WinnerIsRule, OrphanAssumption DEF CreateChannel
<1>2. D \in RunRec /\ Shape(D) /\ RunOurs(channels, D)
  BY EntryDone
<1>. HIDE DEF r
<1>3. nextId \in Ids /\ c \in Channel
  BY <1>1, OrphanAssumption DEF CreateChannel, Channel
<1>4. Ours(channels, {nextId})
  <2>1. \A x \in channels : x.id < nextId /\ x.id \in Nat /\ nextId \in Nat
    BY DEF OrphanInv, Typed, Channel, Ids
  <2>. QED
    BY <2>1 DEF Ours
<1>5. CASE UNCHANGED <<channels, nextId>> /\ run' = [run EXCEPT ![w].entries = @ \ {s}]
  <2>1. run' = [run EXCEPT ![w] = D]
    BY <1>5, OfRun DEF RunRec
  <2>. QED
    BY <1>2, <1>5, <2>1, InnerStepKeeps DEF CreateChannel
<1>6. ASSUME channels' = channels \cup {c}, nextId' = nextId + 1
      PROVE  /\ NoNewHand /\ channels' \subseteq Channel /\ nextId' \in Nat
             /\ \A x \in channels' : x.id < nextId'
             /\ rows' \in [Rules -> Row]
             /\ \A q \in Rules : Ours(channels', rows'[q].managed)
  <2>1. NoNewHand
    BY <1>1, <1>6 DEF NoNewHand
  <2>2. channels' \subseteq Channel /\ nextId' \in Nat
    BY <1>3, <1>6 DEF OrphanInv, Typed
  <2>3. \A x \in channels' : x.id < nextId'
    BY <1>3, <1>6 DEF OrphanInv, Typed, Channel, Ids
  <2>4. rows' \in [Rules -> Row]
    BY DEF CreateChannel, OrphanInv, Typed
  <2>5. \A q \in Rules : Ours(channels', rows'[q].managed)
    BY <2>1, OursKept DEF CreateChannel, OrphanInv
  <2>. QED
    BY <2>1, <2>2, <2>3, <2>4, <2>5
<1>7. CASE /\ channels' = channels \cup {c} /\ nextId' = nextId + 1
           /\ run' = [run EXCEPT ![w].entries = @ \ {s}]
  <2>1. run' = [run EXCEPT ![w] = D]
    BY <1>7, OfRun DEF RunRec
  <2>2. RunOurs(channels', D)
    BY <1>2, <1>6, <1>7, RunOursKept
  <2>. QED
    BY <1>2, <1>6, <1>7, <2>1, <2>2, RunStepKeeps DEF CreateChannel
<1>8. CASE /\ channels' = channels \cup {c} /\ nextId' = nextId + 1
           /\ run' = [run EXCEPT ![w].entries = @ \ {s}, ![w].known = @ \cup {c},
                    ![w].made = @ \cup {c.id}, ![w].order[r] = @ \cup {c.id}]
  <2>1. run' = [run EXCEPT ![w] = R]
    BY <1>8, OfRun DEF RunRec
  <2>2. r \in DOMAIN run[w].order
    BY <1>1, OfRun DEF Shape, Loaded
  <2>3. [run[w].order EXCEPT ![r] = @ \cup {c.id}] \in [DOMAIN run[w].order -> SUBSET Ids]
    BY <1>3, <2>2, OfRun, HeldTyped
  <2>4. [run[w].order EXCEPT ![r] = @ \cup {c.id}]
           \in UNION {[S -> SUBSET Ids] : S \in SUBSET Rules}
    BY <2>3, OfRun, HeldTyped
  <2>5. R \in RunRec
    BY <1>3, <2>4, OfRun DEF RunRec
  <2>6. Shape(R)
    <3>1. \A q \in R.entries : Taken(R, q)
      BY OfRun DEF Shape, Taken, RunRec
    <3>. QED
      BY <3>1, OfRun DEF Shape, RunRec
  <2>7. RunOurs(channels, R)
    <3>1. Ours(channels, R.made)
      BY <1>4, OfRun DEF Ours, RunOurs, RunRec
    <3>2. \A q \in DOMAIN R.loaded : Ours(channels, R.order[q])
      <4>. SUFFICES ASSUME NEW q \in DOMAIN R.loaded
                    PROVE  Ours(channels, R.order[q])
        OBVIOUS
      <4>1. Ours(channels, run[w].order[q]) /\ q \in DOMAIN run[w].order
        BY OfRun DEF RunOurs, RunRec, Shape
      <4>2. R.order[q] = IF q = r THEN run[w].order[q] \cup {nextId} ELSE run[w].order[q]
        BY <4>1, OfRun DEF RunRec
      <4>. QED
        BY <1>4, <4>1, <4>2 DEF Ours
    <3>3. R.loaded = run[w].loaded /\ R.orphans = run[w].orphans
      BY OfRun DEF RunRec
    <3>. QED
      BY <3>1, <3>2, <3>3, OfRun DEF RunOurs
  <2>8. RunOurs(channels', R)
    BY <1>6, <1>8, <2>7, RunOursKept
  <2>. QED
    BY <1>6, <1>8, <2>1, <2>5, <2>6, <2>8, RunStepKeeps DEF CreateChannel
<1>. QED
  BY <1>5, <1>7, <1>8 DEF CreateChannel, r

LEMMA BeginKeeps ==
  ASSUME OrphanInv, NEW w \in Runners, BeginReconcile(w)
  PROVE  OrphanInv'
<1>. DEFINE O == UNION {{<<r, id>> : id \in Orphans(w, r)} :
                          r \in {q \in Loaded(w) : OrphanAction[q] # "none"}}
            R == [run[w] EXCEPT !.phase = "reconcile", !.orphans = O]
<1>1. run' = [run EXCEPT ![w] = R]
  BY OfRun DEF BeginReconcile, RunRec
<1>2. \A r \in Loaded(w) : Orphans(w, r) \subseteq Ids /\ Ours(channels, Orphans(w, r))
  BY OfRun, HeldTyped DEF Orphans, Loaded, RunOurs, Ours, Row
<1>3. O \subseteq Rules \X Ids
  BY <1>2, OfRun, HeldTyped DEF Loaded
<1>4. \A r \in Rules, id \in Ids : <<r, id>> \in O => Ours(channels, {id})
  BY <1>2 DEF Ours
<1>. HIDE DEF O
<1>5. R \in RunRec
  BY <1>3, OfRun DEF RunRec, Phases
<1>6. Shape(R)
  <2>1. run[w].entries = {}
    BY DEF BeginReconcile
  <2>. QED
    BY <2>1, OfRun DEF Shape, RunRec
<1>7. RunOurs(channels, R)
  BY <1>4, OfRun DEF RunOurs, RunRec
<1>. QED
  BY <1>1, <1>5, <1>6, <1>7, InnerStepKeeps DEF BeginReconcile, counters

(* What the orphan pass removes is ours.                                   *)
LEMMA OrphanIsOurs ==
  ASSUME OrphanInv, NEW w \in Runners, NEW r \in Rules, NEW id \in Ids,
         HandleOrphan(w, r, id)
  PROVE  Ours(channels, {id})
  BY OfRun DEF HandleOrphan, RunOurs

LEMMA HandleKeeps ==
  ASSUME OrphanInv, NEW w \in Runners, NEW r \in Rules, NEW id \in Ids,
         HandleOrphan(w, r, id)
  PROVE  OrphanInv'
<1>. DEFINE R == [run[w] EXCEPT !.orphans = @ \ {<<r, id>>}]
<1>1. run' = [run EXCEPT ![w] = R]
  BY OfRun DEF HandleOrphan, RunRec
<1>2. channels' \subseteq channels
  BY DEF HandleOrphan
<1>3. NoNewHand
  BY <1>2 DEF NoNewHand
<1>4. R \in RunRec
  BY OfRun DEF RunRec
<1>5. Shape(R)
  BY OfRun DEF HandleOrphan, Shape, RunRec
<1>6. RunOurs(channels, R)
  BY OfRun DEF RunOurs, RunRec
<1>7. RunOurs(channels', R)
  BY <1>3, <1>6, RunOursKept
<1>8. \A q \in Rules : Ours(channels', rows'[q].managed)
  BY <1>3, OursKept DEF HandleOrphan, OrphanInv
<1>. QED
  BY <1>1, <1>2, <1>3, <1>4, <1>5, <1>7, <1>8, RunStepKeeps DEF HandleOrphan, OrphanInv, Typed

(* The ledger a rule is left with is its old one or what it met.           *)
LEMMA NewLedgerOurs ==
  ASSUME OrphanInv, NEW w \in Runners, NEW r \in Loaded(w)
  PROVE  NewLedger(w, r) \subseteq Ids /\ Ours(channels, NewLedger(w, r))
<1>1. /\ run[w].loaded[r].managed \subseteq Ids /\ run[w].order[r] \subseteq Ids
      /\ Ours(channels, run[w].loaded[r].managed) /\ Ours(channels, run[w].order[r])
  BY OfRun, HeldTyped DEF Loaded, Shape, RunOurs, Row
<1>. QED
  BY <1>1 DEF NewLedger

LEMMA SaveKeeps ==
  ASSUME OrphanInv, NEW w \in Runners, SaveLedgers(w)
  PROVE  OrphanInv'
<1>. DEFINE now == [r \in Loaded(w) |->
                      [run[w].loaded[r] EXCEPT !.managed = NewLedger(w, r)]]
            merged == {r \in Loaded(w) : now[r] # run[w].loaded[r] \/ Orphans(w, r) # {}}
            R == [run[w] EXCEPT !.phase = "stats", !.loaded = now]
<1>1. /\ rows' = [r \in Rules |-> IF r \in merged THEN now[r] ELSE rows[r]]
      /\ run' = [run EXCEPT ![w] = R]
  <2>1. /\ rows' = [r \in Rules |-> IF r \in merged THEN now[r] ELSE rows[r]]
        /\ run' = [run EXCEPT ![w].phase = "stats", ![w].loaded = now]
    BY DEF SaveLedgers
  <2>. QED
    BY <2>1, OfRun DEF RunRec
<1>2. \A r \in Loaded(w) : now[r] \in Row /\ Ours(channels, now[r].managed)
  <2>. SUFFICES ASSUME NEW r \in Loaded(w)
                PROVE  now[r] \in Row /\ Ours(channels, now[r].managed)
    OBVIOUS
  <2>1. run[w].loaded[r] \in Row
    BY OfRun, HeldTyped DEF Loaded
  <2>2. now[r] = [run[w].loaded[r] EXCEPT !.managed = NewLedger(w, r)]
    OBVIOUS
  <2>. QED
    BY <2>1, <2>2, NewLedgerOurs DEF Row
<1>3. now \in [Loaded(w) -> Row] /\ Loaded(w) \subseteq Rules /\ DOMAIN now = Loaded(w)
  BY <1>2, OfRun, HeldTyped DEF Loaded
<1>4. merged \subseteq Loaded(w)
  OBVIOUS
<1>. HIDE DEF now, merged
<1>5. R \in RunRec
  <2>1. now \in UNION {[S -> Row] : S \in SUBSET Rules}
    BY <1>3
  <2>. QED
    BY <2>1, OfRun DEF RunRec, Phases
<1>6. Shape(R)
  <2>1. run[w].entries = {}
    BY OfRun DEF Shape, SaveLedgers
  <2>. QED
    BY <1>3, <2>1, OfRun DEF Shape, RunRec, Loaded
<1>7. RunOurs(channels, R)
  <2>1. R.loaded = now /\ R.made = run[w].made /\ R.order = run[w].order
        /\ R.orphans = run[w].orphans
    BY OfRun DEF RunRec
  <2>. QED
    BY <1>2, <1>3, <2>1, OfRun DEF RunOurs, Loaded
<1>8. rows' \in [Rules -> Row] /\ \A r \in Rules : Ours(channels, rows'[r].managed)
  BY <1>1, <1>2, <1>4 DEF OrphanInv, Typed
<1>9. NoNewHand
  BY DEF NoNewHand, SaveLedgers
<1>. QED
  BY <1>1, <1>5, <1>6, <1>7, <1>8, <1>9, RunStepKeeps
     DEF SaveLedgers, counters, OrphanInv, Typed

LEMMA StatsKeeps ==
  ASSUME OrphanInv, NEW w \in Runners, UpdateRuleStats(w)
  PROVE  OrphanInv'
<1>1. \A r \in Loaded(w) : run[w].loaded[r] \in Row
                           /\ Ours(channels, run[w].loaded[r].managed)
  BY OfRun, HeldTyped DEF Loaded, RunOurs
<1>2. rows' \in [Rules -> Row] /\ \A r \in Rules : Ours(channels, rows'[r].managed)
  BY <1>1 DEF UpdateRuleStats, OrphanInv, Typed
<1>3. NoNewHand
  BY DEF NoNewHand, UpdateRuleStats
<1>. QED
  BY <1>2, <1>3, IdleTyped, IdleOurs, RunStepKeeps
     DEF UpdateRuleStats, counters, OrphanInv, Typed

(* The operator's edits leave the ledger, or empty it with the rule.       *)
LEMMA SaveRuleKeeps ==
  ASSUME OrphanInv, NEW r \in Rules, NEW row \in Row, SaveRule(r, row),
         Ours(channels, row.managed)
  PROVE  OrphanInv'
<1>1. rows' \in [Rules -> Row] /\ \A q \in Rules : Ours(channels, rows'[q].managed)
  BY DEF SaveRule, OrphanInv, Typed
<1>. QED
  BY <1>1 DEF SaveRule, OrphanInv, Typed

LEMMA EditKeeps ==
  ASSUME OrphanInv, NEW r \in Rules, UpdateRule(r) \/ ToggleRule(r) \/ DeleteRule(r)
  PROVE  OrphanInv'
<1>1. rows[r] \in Row /\ Ours(channels, rows[r].managed)
  BY DEF OrphanInv, Typed
<1>2. CASE UpdateRule(r)
  <2>1. PICK T \in SUBSET Streams : SaveRule(r, [rows[r] EXCEPT !.takes = T])
    BY <1>2 DEF UpdateRule
  <2>2. /\ [rows[r] EXCEPT !.takes = T] \in Row
        /\ Ours(channels, [rows[r] EXCEPT !.takes = T].managed)
    BY <1>1 DEF Row
  <2>. QED
    BY <2>1, <2>2, SaveRuleKeeps
<1>3. CASE ToggleRule(r)
  <2>. DEFINE row == [rows[r] EXCEPT !.state = IF @ = "on" THEN "off" ELSE "on"]
  <2>1. row \in Row /\ Ours(channels, row.managed)
    BY <1>1 DEF Row
  <2>. QED
    BY <1>3, <2>1, SaveRuleKeeps DEF ToggleRule
<1>4. CASE DeleteRule(r)
  <2>. DEFINE row == [state |-> "gone", takes |-> {}, managed |-> {}]
  <2>1. row \in Row /\ Ours(channels, row.managed)
    BY DEF Row, Ours
  <2>. QED
    BY <1>4, <2>1, SaveRuleKeeps DEF DeleteRule
<1>. QED
  BY <1>2, <1>3, <1>4

LEMMA OutsideKeeps ==
  ASSUME OrphanInv,
         \/ \E s \in Streams : PlaylistChanges(s)
         \/ \E c \in channels : OutsideDelete(c)
         \/ Crash
         \/ UNCHANGED vars
  PROVE  OrphanInv'
<1>1. CASE \E s \in Streams : PlaylistChanges(s)
  BY <1>1 DEF PlaylistChanges, OrphanInv, Typed
<1>2. CASE \E c \in channels : OutsideDelete(c)
  <2>1. NoNewHand /\ channels' \subseteq channels
    BY <1>2 DEF OutsideDelete, NoNewHand
  <2>2. UNCHANGED <<playlist, rows, run, nextId>>
    BY <1>2 DEF OutsideDelete
  <2>3. /\ \A r \in Rules : Ours(channels', rows[r].managed)
        /\ \A w \in Runners : RunOurs(channels', run[w])
    BY <2>1, OursKept, RunOursKept DEF OrphanInv
  <2>. QED
    BY <2>1, <2>2, <2>3 DEF OrphanInv, Typed
<1>3. CASE Crash
  <2>1. run' \in [Runners -> RunRec] /\ \A w \in Runners : run'[w] = Idle
    BY <1>3, IdleTyped DEF Crash
  <2>2. \A w \in Runners : Shape(run'[w]) /\ RunOurs(channels, run'[w])
    BY <2>1, IdleOurs
  <2>. QED
    BY <1>3, <2>1, <2>2 DEF Crash, OrphanInv, Typed
<1>4. CASE UNCHANGED vars
  BY <1>4 DEF vars, OrphanInv, Typed
<1>. QED
  BY <1>1, <1>2, <1>3, <1>4

LEMMA RunStepsKeep ==
  ASSUME OrphanInv, NEW w \in Runners, RunStep(w)
  PROVE  OrphanInv'
  BY StartKeeps, LoadKeeps, FetchKeeps, ListFailsKeeps, EvaluateKeeps, SkipKeeps,
     CreateKeeps, CapKeeps, BeginKeeps, HandleKeeps, SaveKeeps, StatsKeeps
     DEF RunStep

LEMMA NextKeeps == OrphanInv /\ [Next]_vars => OrphanInv'
<1>. SUFFICES ASSUME OrphanInv, [Next]_vars PROVE OrphanInv'
  OBVIOUS
<1>1. [Step]_vars
  BY DEF Next
<1>. QED
  BY <1>1, RunStepsKeep, EditKeeps, OutsideKeeps DEF Step

(***************************************************************************)
(* No ledger, in the rule table or in the memory of any run, and no list   *)
(* of orphans ever names a channel that was built by hand, and ids are not *)
(* reused (_reconcile_orphans and session.merge of the rows a run read).   *)
(***************************************************************************)
THEOREM LedgersCorrect == Spec => []OrphanInv
<1>1. Init => OrphanInv
  BY InitInv
<1>2. OrphanInv /\ [Next]_vars => OrphanInv'
  BY NextKeeps
<1>. QED
  BY <1>1, <1>2, PTL DEF Spec

(* One step of the system: only the orphan pass of a run removes channels, *)
(* and what it removes is ours.                                            *)
LEMMA HandBuiltStep ==
  ASSUME OrphanInv, [Next]_vars, run' # run,
         NEW c \in channels, c.by = Hand
  PROVE  c \in channels'
<1>1. PICK w \in Runners : RunStep(w) \/ Crash
  BY DEF Next, Step, UpdateRule, ToggleRule, DeleteRule, SaveRule, PlaylistChanges,
         OutsideDelete, Crash, vars
<1>2. CASE \E r \in Rules, id \in Ids : HandleOrphan(w, r, id)
  <2>1. PICK r \in Rules, id \in Ids : HandleOrphan(w, r, id)
    BY <1>2
  <2>2. c.id # id
    BY <2>1, OrphanIsOurs DEF Ours
  <2>. QED
    BY <2>1, <2>2 DEF HandleOrphan
<1>3. CASE ~ \E r \in Rules, id \in Ids : HandleOrphan(w, r, id)
  <2>1. channels \subseteq channels'
    BY <1>1, <1>3 DEF RunStep, Start, LoadExistingData, FetchAccount,
       AccountListFails, Evaluate, SkipExisting, CreateChannel, StopAtCap,
       BeginReconcile, SaveLedgers, UpdateRuleStats, Crash
  <2>. QED
    BY <2>1
<1>. QED
  BY <1>2, <1>3

(***************************************************************************)
(* Type correctness of the runs' memory, the rule table and the channels.  *)
(***************************************************************************)
THEOREM OrphanTypes == Spec => []TypeOK
<1>1. OrphanInv => TypeOK
  <2>. SUFFICES ASSUME OrphanInv PROVE TypeOK
    OBVIOUS
  <2>1. \A w \in Runners : /\ run[w].phase \in Phases /\ run[w].made \subseteq Ids
                           /\ Loaded(w) \subseteq run[w].asked
                           /\ run[w].entries \subseteq run[w].seen
    BY OfRun DEF RunRec, Shape, Loaded
  <2>. QED
    BY <2>1 DEF OrphanInv, Typed, TypeOK, Channel, Row, Phases
<1>. QED
  BY <1>1, LedgersCorrect, PTL

(***************************************************************************)
(* A run never removes a channel somebody built by hand: for any number of *)
(* runs at once, any rules, orphan actions and edits of rules, whatever    *)
(* fails or crashes, and also when rules may use hand-built channels       *)
(* (allow_manual_channel_merge).                                           *)
(***************************************************************************)
THEOREM HandBuiltCorrect == Spec => HandBuiltUntouched
<1>1. OrphanInv /\ [Next]_vars =>
        [run' # run => \A c \in channels : c.by = Hand => c \in channels']_vars
  BY HandBuiltStep
<1>. QED
  BY <1>1, LedgersCorrect, PTL DEF Spec, HandBuiltUntouched

-----------------------------------------------------------------------------
(* One channel per name.  A rule-built channel must never drop out of the  *)
(* run's sight: it is in a ledger of the table, then in one the run loaded *)
(* or among those it made, then met or an orphan, then in a ledger again.  *)

Built(C) == {c \in C : c.by # Hand}

InTable(C, T) == \A c \in Built(C) : \E r \in Rules : c.id \in T[r].managed

(* A run R over the channels C and the rule table T.                       *)
Sees(C, T, R) ==
    /\ R.phase # "idle" => R.asked = Rules
    /\ R.phase \in {"idle", "load", "fetch"} => R.made = {}
    /\ R.phase \in {"fetch", "execute", "reconcile", "stats"} =>
         DOMAIN R.loaded = Rules /\ \A r \in Rules : R.loaded[r].state = "on"
    /\ R.phase \in {"fetch", "execute", "reconcile"} => C \subseteq R.known
    /\ R.phase = "fetch" => \A r \in Rules : R.loaded[r].managed = T[r].managed
    /\ R.phase = "execute" => \A c \in Built(C) : \E r \in Rules :
         \/ c.id \in R.loaded[r].managed
         \/ c.id \in R.made /\ c.id \in R.order[r]
    /\ R.phase = "reconcile" => \A c \in Built(C) : \E r \in Rules :
         c.id \in R.order[r] \/ <<r, c.id>> \in R.orphans
    /\ R.phase = "stats" => \A c \in Built(C) : \E r \in Rules :
         c.id \in R.loaded[r].managed

Resting(w) == run[w].phase \in {"idle", "load", "fetch"}

(* The inductive invariant: what holds as long as steps were orderly.      *)
WholeInv ==
    whole =>
      /\ \A r \in Rules : rows[r].state = "on"
      /\ \A w, v \in Runners : run[w].phase # "idle" /\ run[v].phase # "idle" => w = v
      /\ \A w \in Runners : Sees(channels, rows, run[w])
      /\ \A w \in Runners : \A id \in run[w].made : id < nextId
      /\ (\A w \in Runners : Resting(w)) => InTable(channels, rows)
      /\ OneChannelPerName /\ crashes \in Nat

LEMMA WholeInit == Init => WholeInv
<1>. SUFFICES ASSUME Init PROVE WholeInv
  OBVIOUS
<1>1. channels = {[id |-> 1, name |-> n, by |-> Hand] : n \in {CHOOSE m \in Names : TRUE}}
  BY DEF Init
<1>2. Built(channels) = {}
  BY <1>1 DEF Built
<1>3. OneChannelPerName /\ InTable(channels, rows)
  BY <1>2 DEF OneChannelPerName, InTable, Built
<1>4. \A w \in Runners : run[w] = Idle
  BY DEF Init
<1>5. Sees(channels, rows, Idle) /\ Idle.phase = "idle" /\ Idle.made = {}
  BY DEF Sees, Idle
<1>. QED
  BY <1>3, <1>4, <1>5 DEF WholeInv, Init

(* Fewer channels and the same ledgers: a run sees what it saw.            *)
LEMMA SeesKept ==
  ASSUME NEW C, NEW T, NEW R, NEW D, NEW U, Sees(C, T, R), D \subseteq C,
         \A r \in Rules : U[r].managed = T[r].managed
  PROVE  Sees(D, U, R)
<1>1. Built(D) \subseteq Built(C)
  BY DEF Built
<1>. QED
  BY <1>1 DEF Sees

LEMMA InTableKept ==
  ASSUME NEW C, NEW T, NEW D, NEW U, InTable(C, T), D \subseteq C,
         \A r \in Rules : U[r].managed = T[r].managed
  PROVE  InTable(D, U)
  BY DEF InTable, Built

LEMMA OnePerNameKept ==
  ASSUME OneChannelPerName, channels' \subseteq channels
  PROVE  OneChannelPerName'
  BY DEF OneChannelPerName

(* What the invariant says of the run that takes a step.                   *)
LEMMA OfWhole ==
  ASSUME OrphanInv, WholeInv, whole, NEW w \in Runners
  PROVE  /\ Sees(channels, rows, run[w]) /\ run[w] \in RunRec /\ Shape(run[w])
         /\ \A id \in run[w].made : id < nextId
         /\ run[w].phase # "idle" => \A v \in Runners \ {w} : run[v].phase = "idle"
         /\ run[w].phase \in {"load", "fetch"} => InTable(channels, rows)
<1>1. Sees(channels, rows, run[w]) /\ \A id \in run[w].made : id < nextId
  BY DEF WholeInv
<1>2. run[w].phase # "idle" => \A v \in Runners \ {w} : run[v].phase = "idle"
  BY DEF WholeInv
<1>3. run[w].phase \in {"load", "fetch"} => InTable(channels, rows)
  BY <1>2 DEF WholeInv, Resting
<1>. QED
  BY <1>1, <1>2, <1>3, OfRun

(* What a step of a run has to keep.                                       *)
LEMMA WholeStep ==
  ASSUME OrphanInv, WholeInv, whole, Orderly, NEW w \in Runners,
         \A v \in Runners \ {w} : run'[v] = run[v],
         \A v \in Runners \ {w} : run[v].phase = "idle",
         Sees(channels', rows', run'[w]), \A id \in run'[w].made : id < nextId',
         nextId \in Nat /\ nextId' \in Nat /\ nextId <= nextId',
         Resting(w)' => InTable(channels', rows'), OneChannelPerName'
  PROVE  WholeInv'
<1>1. (\A r \in Rules : rows'[r].state = "on") /\ crashes' \in Nat
  BY DEF Orderly, WholeInv
<1>2. \A v \in Runners \ {w} : Sees(channels', rows', run'[v])
  BY DEF WholeInv, Sees
<1>3. \A v \in Runners \ {w} : run'[v].made = {}
  BY DEF WholeInv, Sees
<1>4. \A u, v \in Runners : run'[u].phase # "idle" /\ run'[v].phase # "idle" => u = v
  OBVIOUS
<1>5. \A v \in Runners : Sees(channels', rows', run'[v])
  BY <1>2
<1>6. \A v \in Runners : \A id \in run'[v].made : id < nextId'
  BY <1>3
<1>7. (\A v \in Runners : Resting(v)') => InTable(channels', rows')
  OBVIOUS
<1>. QED
  BY <1>1, <1>4, <1>5, <1>6, <1>7 DEF WholeInv, Resting

(* The same of a step inside a run: channels and table stay.               *)
LEMMA WholeInside ==
  ASSUME OrphanInv, WholeInv, whole, Orderly, NEW w \in Runners, run[w].phase # "idle",
         \A v \in Runners \ {w} : run'[v] = run[v],
         UNCHANGED <<channels, rows, nextId>>,
         Sees(channels, rows, run'[w]), run'[w].made \subseteq run[w].made,
         Resting(w)' => InTable(channels, rows)
  PROVE  WholeInv'
<1>1. OneChannelPerName'
  BY OnePerNameKept DEF WholeInv
<1>2. \A v \in Runners \ {w} : run[v].phase = "idle"
  BY OfWhole
<1>3. \A id \in run'[w].made : id < nextId'
  BY OfWhole
<1>4. nextId \in Nat
  BY DEF OrphanInv, Typed
<1>. QED
  BY <1>1, <1>2, <1>3, <1>4, WholeStep

LEMMA StartWhole ==
  ASSUME OrphanInv, WholeInv, whole, Orderly, NEW w \in Runners,
         NEW asked \in RuleSets, NEW scope \in Scopes, Start(w, asked, scope)
  PROVE  WholeInv'
<1>1. /\ run[w].phase = "idle" /\ \A v \in Runners \ {w} : run'[v] = run[v]
      /\ run'[w] = [Idle EXCEPT !.phase = "load", !.asked = asked, !.scope = scope]
      /\ UNCHANGED <<channels, rows, nextId>>
  BY DEF Start, OrphanInv, Typed
<1>2. run'[w].phase = "load" /\ run'[w].made = {}
  BY <1>1 DEF Idle
<1>3. run'[w].asked = Rules /\ \A v \in Runners \ {w} : run[v].phase = "idle"
  BY <1>1, <1>2 DEF Orderly
<1>4. Sees(channels, rows, run'[w])
  BY <1>2, <1>3 DEF Sees
<1>5. InTable(channels, rows)
  BY <1>1, <1>3 DEF WholeInv, Resting
<1>6. OneChannelPerName' /\ nextId \in Nat
  BY <1>1, OnePerNameKept DEF WholeInv, OrphanInv, Typed
<1>7. Sees(channels', rows', run'[w]) /\ InTable(channels', rows')
  BY <1>1, <1>4, <1>5
<1>8. (\A id \in run'[w].made : id < nextId') /\ nextId' \in Nat /\ nextId <= nextId'
  BY <1>1, <1>2, <1>6
<1>. QED
  BY <1>1, <1>3, <1>6, <1>7, <1>8, WholeStep

(* What loading leaves in the memory of the run.                           *)
LEMMA LoadReads ==
  ASSUME OrphanInv, NEW w \in Runners, LoadExistingData(w)
  PROVE  /\ run'[w].phase = "fetch"
         /\ run'[w].loaded =
              [r \in {q \in run[w].asked : rows[q].state = "on"} |-> rows[r]]
         /\ run'[w].asked = run[w].asked /\ run'[w].made = run[w].made
         /\ \A v \in Runners \ {w} : run'[v] = run[v]
<1>. DEFINE on == {r \in run[w].asked : rows[r].state = "on"}
<1>0. PICK found \in {channels, {}} :
         run' = [run EXCEPT
                  ![w].phase = "fetch", ![w].known = found,
                  ![w].loaded = [r \in on |-> rows[r]],
                  ![w].order = [r \in on |-> {}],
                  ![w].accounts = IF on = {} THEN {}
                                  ELSE AccountsToFetch(run[w].scope, on)]
  BY DEF LoadExistingData
<1>. HIDE DEF on
<1>1. /\ run'[w].phase = "fetch" /\ run'[w].loaded = [r \in on |-> rows[r]]
      /\ run'[w].asked = run[w].asked /\ run'[w].made = run[w].made
      /\ \A v \in Runners \ {w} : run'[v] = run[v]
  BY <1>0, OfRun DEF OrphanInv, Typed, RunRec
<1>. QED
  BY <1>1 DEF on

LEMMA LoadWhole ==
  ASSUME OrphanInv, WholeInv, whole, Orderly, NEW w \in Runners, LoadExistingData(w)
  PROVE  WholeInv'
<1>1. run[w].phase = "load" /\ channels' = channels /\ rows' = rows /\ nextId' = nextId
  BY Zenon DEF LoadExistingData
<1>2. run[w].asked = Rules /\ run[w].made = {} /\ \A r \in Rules : rows[r].state = "on"
  BY <1>1, OfWhole DEF Sees, WholeInv
<1>3. {q \in run[w].asked : rows[q].state = "on"} = Rules
  BY <1>2
<1>4. /\ run'[w].phase = "fetch" /\ run'[w].loaded = [r \in Rules |-> rows[r]]
      /\ run'[w].asked = run[w].asked /\ run'[w].made = run[w].made
      /\ \A v \in Runners \ {w} : run'[v] = run[v]
  BY <1>3, LoadReads
<1>5. run'[w].known = channels
  BY <1>1, <1>4 DEF Orderly
<1>6. Sees(channels, rows, run'[w])
  BY <1>2, <1>4, <1>5 DEF Sees
<1>. QED
  BY <1>1, <1>4, <1>6, OfWhole, WholeInside

LEMMA FetchWhole ==
  ASSUME OrphanInv, WholeInv, whole, Orderly, NEW w \in Runners,
         \/ \E a \in Accounts : FetchAccount(w, a)
         \/ AccountListFails(w)
         \/ Evaluate(w)
  PROVE  WholeInv'
<1>1. run[w].phase = "fetch" /\ UNCHANGED <<channels, rows, nextId>>
      /\ \A v \in Runners \ {w} : run'[v] = run[v]
  BY DEF FetchAccount, AccountListFails, Evaluate, counters, OrphanInv, Typed
<1>2. InTable(channels, rows) /\ Sees(channels, rows, run[w])
  BY <1>1, OfWhole
<1>3. CASE \E a \in Accounts : FetchAccount(w, a)
  <2>1. /\ run'[w].phase = run[w].phase /\ run'[w].asked = run[w].asked
        /\ run'[w].made = run[w].made /\ run'[w].loaded = run[w].loaded
        /\ run'[w].known = run[w].known
    BY <1>3, OfRun DEF FetchAccount, OrphanInv, Typed, RunRec
  <2>2. Sees(channels, rows, run'[w])
    BY <1>1, <1>2, <2>1 DEF Sees
  <2>. QED
    BY <1>1, <1>2, <2>1, <2>2, WholeInside
<1>4. CASE AccountListFails(w)
  <2>1. run'[w] = Idle
    BY <1>4 DEF AccountListFails, OrphanInv, Typed
  <2>2. Sees(channels, rows, Idle) /\ Idle.made = {}
    BY DEF Sees, Idle
  <2>. QED
    BY <1>1, <1>2, <2>1, <2>2, WholeInside
<1>5. CASE Evaluate(w)
  <2>1. /\ run'[w].phase = "execute" /\ run'[w].asked = run[w].asked
        /\ run'[w].made = run[w].made /\ run'[w].loaded = run[w].loaded
        /\ run'[w].known = run[w].known
    BY <1>5, OfRun DEF Evaluate, OrphanInv, Typed, RunRec
  <2>2. \A c \in Built(channels) : \E r \in Rules : c.id \in run[w].loaded[r].managed
    BY <1>1, <1>2 DEF InTable, Sees
  <2>3. Sees(channels, rows, run'[w])
    BY <1>1, <1>2, <2>1, <2>2 DEF Sees
  <2>. QED
    BY <1>1, <2>1, <2>3, WholeInside DEF Resting
<1>. QED
  BY <1>3, <1>4, <1>5

LEMMA SkipWhole ==
  ASSUME OrphanInv, WholeInv, whole, Orderly, NEW w \in Runners,
         StopAtCap(w) \/ \E s \in Streams : SkipExisting(w, s)
  PROVE  WholeInv'
<1>1. run[w].phase = "execute" /\ UNCHANGED <<channels, rows, nextId>>
      /\ \A v \in Runners \ {w} : run'[v] = run[v]
  BY DEF StopAtCap, SkipExisting, counters, OrphanInv, Typed
<1>2. Sees(channels, rows, run[w])
  BY OfWhole
<1>3. /\ run'[w].phase = run[w].phase /\ run'[w].asked = run[w].asked
      /\ run'[w].made = run[w].made /\ run'[w].loaded = run[w].loaded
      /\ run'[w].known = run[w].known
  <2>1. CASE StopAtCap(w)
    BY <2>1, OfRun DEF StopAtCap, OrphanInv, Typed, RunRec
  <2>2. CASE \E s \in Streams : SkipExisting(w, s)
    <3>0. PICK s \in Streams : SkipExisting(w, s)
      BY <2>2
    <3>1. PICK c \in FindChannel(w, NameOf[s]) :
            run' = [run EXCEPT ![w].entries = @ \ {s},
                               ![w].order = Meet(w, Winner(w, s), c.id)]
      BY <3>0 DEF SkipExisting
    <3>. QED
      BY <3>1, OfRun DEF OrphanInv, Typed, RunRec
  <2>. QED
    BY <2>1, <2>2
<1>4. \A r \in Rules : run[w].order[r] \subseteq run'[w].order[r]
  <2>1. CASE StopAtCap(w)
    BY <2>1, OfRun DEF StopAtCap, OrphanInv, Typed, RunRec
  <2>2. CASE \E s \in Streams : SkipExisting(w, s)
    <3>0. PICK s \in Streams : SkipExisting(w, s)
      BY <2>2
    <3>1. PICK c \in FindChannel(w, NameOf[s]) :
            run' = [run EXCEPT ![w].entries = @ \ {s},
                               ![w].order = Meet(w, Winner(w, s), c.id)]
      BY <3>0 DEF SkipExisting
    <3>2. run'[w].order = Meet(w, Winner(w, s), c.id)
      BY <3>1, OfRun DEF OrphanInv, Typed, RunRec
    <3>3. DOMAIN run[w].order = Rules
      BY <1>1, <1>2, OfRun DEF Sees, Shape
    <3>. QED
      BY <3>2, <3>3 DEF Meet
  <2>. QED
    BY <2>1, <2>2
<1>5. Sees(channels, rows, run'[w])
  BY <1>1, <1>2, <1>3, <1>4 DEF Sees
<1>. QED
  BY <1>1, <1>3, <1>5, WholeInside DEF Resting

(* A run that finds no channel of a name: no rule built one.               *)
LEMMA NoneBuilt ==
  ASSUME OrphanInv, WholeInv, whole, NEW w \in Runners, run[w].phase = "execute",
         NEW n, FindChannel(w, n) = {}
  PROVE  \A c \in Built(channels) : c.name # n
<1>. SUFFICES ASSUME NEW c \in Built(channels), c.name = n PROVE FALSE
  OBVIOUS
<1>1. Sees(channels, rows, run[w])
  BY OfWhole
<1>2. c \in run[w].known /\ DOMAIN run[w].loaded = Rules
  BY <1>1 DEF Sees, Built
<1>3. c.id \in run[w].made \/ \E r \in Rules : c.id \in run[w].loaded[r].managed
  BY <1>1 DEF Sees
<1>4. ~IsManual(w, c)
  BY <1>2, <1>3 DEF IsManual, Loaded
<1>. QED
  BY <1>2, <1>4 DEF FindChannel

LEMMA CreateWhole ==
  ASSUME OrphanInv, WholeInv, whole, Orderly, NEW w \in Runners, NEW s \in Streams,
         CreateChannel(w, s)
  PROVE  WholeInv'
<1>. DEFINE r == Winner(w, s)
            c == [id |-> nextId, name |-> NameOf[s], by |-> r]
<1>1. r \in Rules /\ r # Hand
  BY WinnerIsRule, OrphanAssumption DEF CreateChannel
<1>2. /\ run[w].phase = "execute" /\ rows' = rows
      /\ \A v \in Runners \ {w} : run'[v] = run[v]
  BY DEF CreateChannel, OrphanInv, Typed
<1>3. /\ Sees(channels, rows, run[w]) /\ \A id \in run[w].made : id < nextId
      /\ \A v \in Runners \ {w} : run[v].phase = "idle"
  BY <1>2, OfWhole
<1>4. \A x \in Built(channels) : x.name # NameOf[s]
  BY <1>2, NoneBuilt DEF CreateChannel
<1>5. nextId \in Nat /\ \A x \in channels : x.id < nextId /\ x.id \in Nat
  BY DEF OrphanInv, Typed, Channel, Ids
<1>. HIDE DEF r
<1>6. CASE UNCHANGED <<channels, nextId>> /\ run' = [run EXCEPT ![w].entries = @ \ {s}]
  <2>1. /\ run'[w].phase = run[w].phase /\ run'[w].asked = run[w].asked
        /\ run'[w].made = run[w].made /\ run'[w].loaded = run[w].loaded
        /\ run'[w].known = run[w].known /\ run'[w].order = run[w].order
    BY <1>6, OfRun DEF OrphanInv, Typed, RunRec
  <2>2. Sees(channels, rows, run'[w])
    BY <1>2, <1>3, <2>1 DEF Sees
  <2>. QED
    BY <1>2, <1>6, <2>1, <2>2, WholeInside DEF Resting
<1>7. CASE /\ channels' = channels \cup {c}
           /\ run' = [run EXCEPT ![w].entries = @ \ {s}]
  <2>1. c \in channels' \ channels
    BY <1>5, <1>7
  <2>2. PICK v \in Runners : nextId \in run'[v].made
    BY <2>1 DEF Orderly
  <2>3. run'[v].made = run[v].made
    BY <1>7, OfRun DEF OrphanInv, Typed, RunRec
  <2>4. run[v].made \subseteq Ids /\ \A id \in run[v].made : id < nextId
    BY OfRun, OfWhole DEF RunRec
  <2>. QED
    BY <1>5, <2>2, <2>3, <2>4 DEF Ids
<1>8. CASE /\ channels' = channels \cup {c} /\ nextId' = nextId + 1
           /\ run' = [run EXCEPT ![w].entries = @ \ {s}, ![w].known = @ \cup {c},
                    ![w].made = @ \cup {c.id}, ![w].order[r] = @ \cup {c.id}]
  <2>1. DOMAIN run[w].order = Rules /\ DOMAIN run[w].loaded = Rules
    BY <1>2, <1>3, OfRun DEF Sees, Shape
  <2>2. /\ run'[w].phase = run[w].phase /\ run'[w].asked = run[w].asked
        /\ run'[w].made = run[w].made \cup {nextId}
        /\ run'[w].loaded = run[w].loaded
        /\ run'[w].known = run[w].known \cup {c}
        /\ run'[w].order = [run[w].order EXCEPT ![r] = @ \cup {nextId}]
    BY <1>8, OfRun DEF OrphanInv, Typed, RunRec
  <2>3. /\ nextId \in run'[w].order[r]
        /\ \A q \in Rules : run[w].order[q] \subseteq run'[w].order[q]
    BY <1>1, <2>1, <2>2
  <2>4. Built(channels') = Built(channels) \cup {c}
    BY <1>1, <1>8 DEF Built
  <2>5. \A x \in Built(channels') : \E q \in Rules :
           \/ x.id \in run'[w].loaded[q].managed
           \/ x.id \in run'[w].made /\ x.id \in run'[w].order[q]
    <3>1. CASE \A x \in {c} : x.id = nextId /\ x.id \in run'[w].made
      <4>1. \A x \in Built(channels) : \E q \in Rules :
              \/ x.id \in run'[w].loaded[q].managed
              \/ x.id \in run'[w].made /\ x.id \in run'[w].order[q]
        BY <1>2, <1>3, <2>2, <2>3 DEF Sees
      <4>. QED
        BY <1>1, <2>3, <2>4, <3>1, <4>1
    <3>. QED
      BY <2>2, <3>1
  <2>6. Sees(channels', rows', run'[w])
    BY <1>2, <1>3, <1>8, <2>2, <2>5 DEF Sees
  <2>7. OneChannelPerName'
    <3>1. \A x \in Built(channels) : x.name # c.name
      BY <1>4
    <3>2. OneChannelPerName
      BY DEF WholeInv
    <3>. QED
      BY <1>8, <3>1, <3>2 DEF OneChannelPerName, Built
  <2>8. (\A id \in run'[w].made : id < nextId') /\ nextId' \in Nat /\ nextId <= nextId'
    <3>1. run[w].made \subseteq Nat
      BY OfRun DEF RunRec, Ids
    <3>2. nextId' = nextId + 1
      BY <1>8
    <3>. QED
      BY <1>3, <1>5, <2>2, <3>1, <3>2
  <2>. QED
    BY <1>2, <1>3, <1>5, <2>2, <2>6, <2>7, <2>8, WholeStep DEF Resting
<1>. QED
  BY <1>6, <1>7, <1>8 DEF CreateChannel, r

LEMMA BeginWhole ==
  ASSUME OrphanInv, WholeInv, whole, Orderly, NEW w \in Runners, BeginReconcile(w)
  PROVE  WholeInv'
<1>. DEFINE O == UNION {{<<r, id>> : id \in Orphans(w, r)} :
                          r \in {q \in Loaded(w) : OrphanAction[q] # "none"}}
<1>1. run[w].phase = "execute" /\ UNCHANGED <<channels, rows, nextId>>
      /\ \A v \in Runners \ {w} : run'[v] = run[v]
  BY DEF BeginReconcile, counters, OrphanInv, Typed
<1>2. Sees(channels, rows, run[w]) /\ DOMAIN run[w].loaded = Rules
  BY <1>1, OfWhole DEF Sees
<1>3. /\ run'[w].phase = "reconcile" /\ run'[w].asked = run[w].asked
      /\ run'[w].made = run[w].made /\ run'[w].loaded = run[w].loaded
      /\ run'[w].known = run[w].known /\ run'[w].order = run[w].order
      /\ run'[w].orphans = O
  BY OfRun DEF BeginReconcile, OrphanInv, Typed, RunRec
<1>4. \A r \in Rules : OrphanAction[r] # "none"
  <2>1. \A r \in Rules : OrphanAction[r] = "delete"
    BY <1>2, <1>3 DEF Orderly
  <2>. QED
    BY <2>1
<1>5. \A r \in Rules : \A id \in Orphans(w, r) : <<r, id>> \in O
  BY <1>2, <1>4 DEF Loaded
<1>. HIDE DEF O
<1>6. \A c \in Built(channels) : \E r \in Rules :
         c.id \in run[w].order[r] \/ <<r, c.id>> \in O
  <2>. SUFFICES ASSUME NEW c \in Built(channels)
                PROVE  \E r \in Rules : c.id \in run[w].order[r] \/ <<r, c.id>> \in O
    OBVIOUS
  <2>1. c \in run[w].known
    BY <1>1, <1>2 DEF Sees, Built
  <2>2. PICK r \in Rules : c.id \in run[w].loaded[r].managed \/ c.id \in run[w].order[r]
    BY <1>1, <1>2 DEF Sees
  <2>3. CASE c.id \notin run[w].order[r]
    <3>1. c.id \in Orphans(w, r)
      BY <2>1, <2>2, <2>3 DEF Orphans
    <3>. QED
      BY <1>5, <3>1
  <2>. QED
    BY <2>3
<1>7. Sees(channels, rows, run'[w])
  BY <1>1, <1>2, <1>3, <1>6 DEF Sees
<1>. QED
  BY <1>1, <1>3, <1>7, WholeInside DEF Resting

LEMMA HandleWhole ==
  ASSUME OrphanInv, WholeInv, whole, Orderly, NEW w \in Runners,
         NEW r \in Rules, NEW id \in Ids, HandleOrphan(w, r, id)
  PROVE  WholeInv'
<1>1. /\ run[w].phase = "reconcile" /\ channels' \subseteq channels
      /\ <<r, id>> \in run[w].orphans
      /\ rows' = rows /\ nextId' = nextId
      /\ \A v \in Runners \ {w} : run'[v] = run[v]
  BY DEF HandleOrphan, OrphanInv, Typed
<1>2. /\ Sees(channels, rows, run[w]) /\ \A i \in run[w].made : i < nextId
      /\ \A v \in Runners \ {w} : run[v].phase = "idle"
  BY <1>1, OfWhole
<1>3. /\ run'[w].phase = run[w].phase /\ run'[w].asked = run[w].asked
      /\ run'[w].made = run[w].made /\ run'[w].loaded = run[w].loaded
      /\ run'[w].known = run[w].known /\ run'[w].order = run[w].order
      /\ run'[w].orphans = run[w].orphans \ {<<r, id>>}
  BY OfRun DEF HandleOrphan, OrphanInv, Typed, RunRec
<1>4. \A c \in channels' : c.id # id
  <2>1. <<r, id>> \in run[w].orphans \ run'[w].orphans
    BY <1>1, <1>3
  <2>2. \A c \in channels' : c.id # <<r, id>>[2]
    BY <2>1 DEF Orderly
  <2>. QED
    BY <2>2
<1>5. \A c \in Built(channels') : \E q \in Rules :
         c.id \in run'[w].order[q] \/ <<q, c.id>> \in run'[w].orphans
  <2>. SUFFICES ASSUME NEW c \in Built(channels')
                PROVE  \E q \in Rules :
                         c.id \in run'[w].order[q] \/ <<q, c.id>> \in run'[w].orphans
    OBVIOUS
  <2>1. c \in Built(channels) /\ c.id # id
    BY <1>1, <1>4 DEF Built
  <2>2. PICK q \in Rules : c.id \in run[w].order[q] \/ <<q, c.id>> \in run[w].orphans
    BY <1>1, <1>2, <2>1 DEF Sees
  <2>. QED
    BY <1>3, <2>1, <2>2
<1>6. Sees(channels', rows', run'[w])
  BY <1>1, <1>2, <1>3, <1>5 DEF Sees
<1>7. OneChannelPerName' /\ nextId \in Nat
  BY <1>1, OnePerNameKept DEF WholeInv, OrphanInv, Typed
<1>8. (\A i \in run'[w].made : i < nextId') /\ nextId' \in Nat /\ nextId <= nextId'
  BY <1>1, <1>2, <1>3, <1>7
<1>. QED
  BY <1>1, <1>2, <1>3, <1>6, <1>7, <1>8, WholeStep DEF Resting

LEMMA SaveWhole ==
  ASSUME OrphanInv, WholeInv, whole, Orderly, NEW w \in Runners, SaveLedgers(w)
  PROVE  WholeInv'
<1>. DEFINE now == [r \in Loaded(w) |->
                      [run[w].loaded[r] EXCEPT !.managed = NewLedger(w, r)]]
<1>1. /\ run[w].phase = "reconcile" /\ run[w].orphans = {}
      /\ UNCHANGED <<channels, nextId>>
      /\ \A v \in Runners \ {w} : run'[v] = run[v]
  BY DEF SaveLedgers, counters, OrphanInv, Typed
<1>2. run' = [run EXCEPT ![w].phase = "stats", ![w].loaded = now]
  BY DEF SaveLedgers
<1>3. /\ Sees(channels, rows, run[w]) /\ \A id \in run[w].made : id < nextId
      /\ \A v \in Runners \ {w} : run[v].phase = "idle"
  BY <1>1, OfWhole
<1>4. Loaded(w) = Rules /\ run[w].loaded \in [Rules -> Row]
  BY <1>1, <1>3, OfRun, HeldTyped DEF Sees, Loaded
<1>5. ASSUME NEW r \in Rules
      PROVE  /\ now[r].state = run[w].loaded[r].state
             /\ now[r].managed = NewLedger(w, r)
  BY <1>4 DEF Row
<1>6. DOMAIN now = Rules
  BY <1>4
<1>. HIDE DEF now
<1>7. /\ run'[w].phase = "stats" /\ run'[w].asked = run[w].asked
      /\ run'[w].made = run[w].made /\ run'[w].loaded = now
  BY <1>2, OfRun DEF OrphanInv, Typed, RunRec
<1>8. \A c \in Built(channels) : \E r \in Rules : c.id \in now[r].managed
  <2>. SUFFICES ASSUME NEW c \in Built(channels)
                PROVE  \E r \in Rules : c.id \in now[r].managed
    OBVIOUS
  <2>1. PICK r \in Rules : c.id \in run[w].order[r]
    BY <1>1, <1>3 DEF Sees
  <2>2. c.id \in NewLedger(w, r)
    BY <2>1 DEF NewLedger
  <2>. QED
    BY <1>5, <2>2
<1>9. \A r \in Rules : now[r].state = "on"
  BY <1>1, <1>3, <1>5 DEF Sees
<1>10. Sees(channels', rows', run'[w])
  BY <1>1, <1>3, <1>6, <1>7, <1>8, <1>9 DEF Sees
<1>11. OneChannelPerName' /\ nextId \in Nat
  BY <1>1, OnePerNameKept DEF WholeInv, OrphanInv, Typed
<1>12. (\A id \in run'[w].made : id < nextId') /\ nextId' \in Nat /\ nextId <= nextId'
  BY <1>1, <1>3, <1>7, <1>11
<1>. QED
  BY <1>1, <1>3, <1>7, <1>10, <1>11, <1>12, WholeStep DEF Resting

LEMMA StatsWhole ==
  ASSUME OrphanInv, WholeInv, whole, Orderly, NEW w \in Runners, UpdateRuleStats(w)
  PROVE  WholeInv'
<1>1. /\ run[w].phase = "stats" /\ UNCHANGED <<channels, nextId>> /\ run'[w] = Idle
      /\ \A v \in Runners \ {w} : run'[v] = run[v]
  BY DEF UpdateRuleStats, counters, OrphanInv, Typed
<1>2. /\ Sees(channels, rows, run[w]) /\ Loaded(w) = Rules
      /\ \A v \in Runners \ {w} : run[v].phase = "idle"
  BY <1>1, OfWhole DEF Sees, Loaded
<1>3. rows' = [r \in Rules |-> run[w].loaded[r]]
  BY <1>2 DEF UpdateRuleStats
<1>4. InTable(channels', rows')
  BY <1>1, <1>2, <1>3 DEF InTable, Sees
<1>5. Idle.phase = "idle" /\ Idle.made = {}
  BY DEF Idle
<1>6. Sees(channels', rows', run'[w])
  BY <1>1, <1>5 DEF Sees
<1>7. OneChannelPerName' /\ nextId \in Nat
  BY <1>1, OnePerNameKept DEF WholeInv, OrphanInv, Typed
<1>8. (\A id \in run'[w].made : id < nextId') /\ nextId' \in Nat /\ nextId <= nextId'
  BY <1>1, <1>5, <1>7
<1>. QED
  BY <1>1, <1>2, <1>4, <1>6, <1>7, <1>8, WholeStep

(* Others leave the runs and the ledgers alone, and add no channel.        *)
LEMMA BesideWhole ==
  ASSUME OrphanInv, WholeInv, whole, Orderly, run' = run, nextId' = nextId,
         channels' \subseteq channels,
         \A r \in Rules : rows'[r].managed = rows[r].managed
  PROVE  WholeInv'
<1>1. (\A r \in Rules : rows'[r].state = "on") /\ crashes' \in Nat
  BY DEF Orderly, WholeInv
<1>2. \A w \in Runners : Sees(channels', rows', run'[w])
  BY SeesKept DEF WholeInv
<1>3. (\A w \in Runners : Resting(w)) => InTable(channels', rows')
  BY InTableKept DEF WholeInv
<1>4. OneChannelPerName'
  BY OnePerNameKept DEF WholeInv
<1>. QED
  BY <1>1, <1>2, <1>3, <1>4 DEF WholeInv, Resting

LEMMA OthersWhole ==
  ASSUME OrphanInv, WholeInv, whole, Orderly,
         \/ \E r \in Rules : UpdateRule(r) \/ ToggleRule(r) \/ DeleteRule(r)
         \/ \E s \in Streams : PlaylistChanges(s)
         \/ \E c \in channels : OutsideDelete(c)
         \/ Crash
  PROVE  WholeInv'
<1>0. rows \in [Rules -> Row]
  BY DEF OrphanInv, Typed
<1>1. CASE \E r \in Rules : UpdateRule(r) \/ ToggleRule(r)
  <2>1. \A r \in Rules : rows'[r].managed = rows[r].managed
    BY <1>0, <1>1 DEF UpdateRule, ToggleRule, SaveRule, Row
  <2>2. run' = run /\ nextId' = nextId /\ channels' \subseteq channels
    BY <1>1 DEF UpdateRule, ToggleRule, SaveRule
  <2>. QED
    BY <2>1, <2>2, BesideWhole
<1>2. CASE \E r \in Rules : DeleteRule(r)
  <2>1. PICK r \in Rules : DeleteRule(r)
    BY <1>2
  <2>2. rows'[r].state = "gone"
    BY <1>0, <2>1 DEF DeleteRule, SaveRule
  <2>. QED
    BY <2>2 DEF Orderly
<1>3. CASE (\E s \in Streams : PlaylistChanges(s)) \/ \E c \in channels : OutsideDelete(c)
  BY <1>3, BesideWhole DEF PlaylistChanges, OutsideDelete
<1>4. CASE Crash
  <2>1. crashes' = crashes /\ crashes \in Nat /\ crashes' = crashes + 1
    BY <1>4 DEF Crash, Orderly, WholeInv
  <2>. QED
    BY <2>1
<1>. QED
  BY <1>1, <1>2, <1>3, <1>4

LEMMA RunsWhole ==
  ASSUME OrphanInv, WholeInv, whole, Orderly, NEW w \in Runners, RunStep(w)
  PROVE  WholeInv'
  BY StartWhole, LoadWhole, FetchWhole, SkipWhole, CreateWhole, BeginWhole,
     HandleWhole, SaveWhole, StatsWhole DEF RunStep

LEMMA WholeNext == OrphanInv /\ WholeInv /\ [Next]_vars => WholeInv'
<1>. SUFFICES ASSUME OrphanInv, WholeInv, [Next]_vars PROVE WholeInv'
  OBVIOUS
<1>1. CASE UNCHANGED vars
  BY <1>1 DEF vars, WholeInv, OneChannelPerName, Resting
<1>2. CASE Next
  <2>1. CASE ~(whole /\ Orderly)
    <3>1. ~whole'
      BY <1>2, <2>1, Zenon DEF Next
    <3>. QED
      BY <3>1 DEF WholeInv
  <2>2. CASE whole /\ Orderly
    BY <1>2, <2>2, RunsWhole, OthersWhole DEF Next, Step
  <2>. QED
    BY <2>1, <2>2
<1>. QED
  BY <1>1, <1>2

(***************************************************************************)
(* As long as steps were orderly, the channels the pipeline built are one  *)
(* per name: for any rules, accounts and conditions, any cap, and however  *)
(* often fetches fail, streams and channels go away, and conditions are    *)
(* edited under a run (_find_channel_by_name, _is_manual_channel and the   *)
(* ledgers _reconcile_orphans saves).                                      *)
(***************************************************************************)
THEOREM NotRepeatedCorrect == Spec => []ChannelsNotRepeated
<1>1. Init => WholeInv
  BY WholeInit
<1>2. OrphanInv /\ WholeInv /\ [Next]_vars => WholeInv'
  BY WholeNext
<1>3. TypeOK /\ WholeInv => ChannelsNotRepeated
  BY DEF WholeInv, ChannelsNotRepeated
<1>. QED
  BY <1>1, <1>2, <1>3, LedgersCorrect, OrphanTypes, PTL DEF Spec

-----------------------------------------------------------------------------
(* Matched streams keep their channel.  A run removes a channel because    *)
(* its rule's ledger had it and the rule did not meet it.  That the rule   *)
(* did not meet it must mean that no stream asked for it: a rule has one   *)
(* channel of a name in its ledger, the stream would have found it, and    *)
(* what it finds and owns it meets.                                        *)

(* Ids name channels: no two with the same id.                             *)
Agree(C, D) == \A c \in C, d \in D : c.id = d.id => c = d

(* Of the channels C with these ids there is one of a name.                *)
OneOfName(C, ids) ==
    \A c, d \in C : c.id \in ids /\ d.id \in ids /\ c.name = d.name => c = d

Below(ids, n) == \A id \in ids : id < n

(* The rule a stream goes to, from what the run R holds.                   *)
Fitting(R, s) ==
    {i \in DOMAIN RuleOrder :
        /\ RuleOrder[i] \in DOMAIN R.loaded
        /\ RuleAccount[RuleOrder[i]] \in {AllOf, AccountOf[s]}
        /\ s \in R.loaded[RuleOrder[i]].takes}
Wins(R, s) == RuleOrder[CHOOSE i \in Fitting(R, s) : \A j \in Fitting(R, s) : i <= j]

(* The stream has been dealt with: there was no channel of its name in a   *)
(* ledger, or it found one, which its rule met if it owns it.              *)
Dealt(R, s) ==
    \/ \A c \in R.known : c.name = NameOf[s] =>
         \A r \in DOMAIN R.loaded : c.id \notin R.loaded[r].managed
    \/ \E c \in R.known :
         /\ c.name = NameOf[s]
         /\ c.id \in R.made \cup R.loaded[Wins(R, s)].managed => c.id \in R.order[Wins(R, s)]

(* The ids a run R holds, over the channels C with n the next id.          *)
Held(C, n, R) ==
    /\ Agree(C, R.known) /\ Agree(R.known, R.known)
    /\ Below({c.id : c \in R.known}, n) /\ Below(R.made, n)
    /\ \A r \in DOMAIN R.loaded :
         Below(R.loaded[r].managed, n) /\ OneOfName(C, R.loaded[r].managed)

(* Until its ledgers are saved.                                            *)
Single(R) ==
    /\ R.phase \in {"idle", "load", "fetch"} => R.made = {}
    /\ R.phase # "stats" => \A r \in DOMAIN R.loaded :
         /\ OneOfName(R.known, R.made \cup R.loaded[r].managed)
         /\ R.order[r] \subseteq R.made \cup R.loaded[r].managed
         /\ R.order[r] \subseteq {c.id : c \in R.known}
         /\ R.made \cap R.loaded[r].managed = {}

Passed(R) ==
    /\ R.phase \in {"execute", "reconcile"} /\ ~R.capped =>
         \A s \in R.seen : Fitting(R, s) # {} /\ s \notin R.entries => Dealt(R, s)
    /\ R.phase = "reconcile" => \A r \in Rules, id \in Ids : <<r, id>> \in R.orphans =>
         /\ r \in DOMAIN R.loaded
         /\ id \in R.loaded[r].managed /\ id \notin R.order[r]
         /\ \E c \in R.known : c.id = id

(* The inductive invariant, with no condition on the steps.                *)
NameInv ==
    /\ Agree(channels, channels)
    /\ \A r \in Rules : Below(rows[r].managed, nextId) /\ OneOfName(channels, rows[r].managed)
    /\ \A w \in Runners : Held(channels, nextId, run[w]) /\ Single(run[w]) /\ Passed(run[w])

LEMMA WinnerWins ==
  ASSUME NEW w, NEW s
  PROVE  Candidates(w, s) = Fitting(run[w], s) /\ Winner(w, s) = Wins(run[w], s)
  BY DEF Candidates, Loaded, Fitting, Winner, Wins

(* The same rows, the same rule.                                           *)
LEMMA WinsKept ==
  ASSUME NEW R, NEW Q, R.loaded = Q.loaded, NEW s
  PROVE  Fitting(Q, s) = Fitting(R, s) /\ Wins(Q, s) = Wins(R, s)
  BY DEF Fitting, Wins

LEMMA IdleNames ==
  ASSUME NEW C, NEW n
  PROVE  Held(C, n, Idle) /\ Single(Idle) /\ Passed(Idle)
<1>1. /\ Idle.known = {} /\ Idle.made = {} /\ DOMAIN Idle.loaded = {}
      /\ Idle.phase = "idle" /\ {c.id : c \in Idle.known} = {}
  BY EmptyFunction DEF Idle
<1>. QED
  BY <1>1, Zenon DEF Held, Single, Passed, Agree, Below

LEMMA NameInit == Init => NameInv
<1>. SUFFICES ASSUME Init PROVE NameInv
  OBVIOUS
<1>1. channels = {[id |-> 1, name |-> CHOOSE m \in Names : TRUE, by |-> Hand]}
  BY DEF Init
<1>2. Agree(channels, channels)
  BY <1>1 DEF Agree
<1>3. \A r \in Rules : rows[r].managed = {}
  BY DEF Init
<1>4. \A w \in Runners : run[w] = Idle
  BY DEF Init
<1>. QED
  BY <1>2, <1>3, <1>4, IdleNames DEF NameInv, Below, OneOfName

(* Channels may go, and come with new ids, under what a run or the table   *)
(* holds.                                                                  *)
Grows(C, n, D, m) ==
    /\ n \in Nat /\ m \in Nat /\ n <= m
    /\ \A d \in D : d \in C \/ (d.id \in Nat /\ d.id >= n)

LEMMA LedgerGrows ==
  ASSUME NEW C, NEW n, NEW D, NEW m, NEW ids, ids \subseteq Ids, Grows(C, n, D, m),
         Below(ids, n), OneOfName(C, ids)
  PROVE  Below(ids, m) /\ OneOfName(D, ids)
<1>1. Below(ids, m)
  BY DEF Below, Grows, Ids
<1>2. \A d \in D : d.id \in ids => d \in C
  BY DEF Below, Grows, Ids
<1>. QED
  BY <1>1, <1>2 DEF OneOfName

LEMMA HeldGrows ==
  ASSUME NEW C, NEW n, NEW D, NEW m, NEW R \in RunRec, Grows(C, n, D, m), Held(C, n, R)
  PROVE  Held(D, m, R)
<1>1. \A r \in DOMAIN R.loaded :
        Below(R.loaded[r].managed, m) /\ OneOfName(D, R.loaded[r].managed)
  <2>. SUFFICES ASSUME NEW r \in DOMAIN R.loaded
                PROVE  Below(R.loaded[r].managed, m) /\ OneOfName(D, R.loaded[r].managed)
    OBVIOUS
  <2>1. R.loaded[r].managed \subseteq Ids
    BY HeldTyped DEF Row
  <2>. QED
    BY <2>1, LedgerGrows DEF Held
<1>2. \A c \in R.known : c.id \in Ids /\ c.id < n
  BY DEF Held, Below, RunRec, Channel
<1>3. Agree(D, R.known)
  <2>1. \A d \in D, c \in R.known : d.id = c.id => d \in C
    BY <1>2 DEF Grows, Ids
  <2>. QED
    BY <2>1 DEF Held, Agree
<1>4. Below({c.id : c \in R.known}, m)
  BY <1>2 DEF Below, Grows, Ids
<1>5. Below(R.made, m)
  <2>1. R.made \subseteq Ids
    BY DEF RunRec
  <2>. QED
    BY <2>1 DEF Held, Below, Grows, Ids
<1>. QED
  BY <1>1, <1>3, <1>4, <1>5 DEF Held

(* What a step of the run w, which takes it to R, has to keep.             *)
LEMMA NameStep ==
  ASSUME OrphanInv, NameInv, NEW w \in Runners, NEW R,
         run' = [run EXCEPT ![w] = R], Grows(channels, nextId, channels', nextId'),
         Agree(channels', channels'),
         \A r \in Rules : Below(rows'[r].managed, nextId') /\ OneOfName(channels', rows'[r].managed),
         Held(channels', nextId', R), Single(R), Passed(R)
  PROVE  NameInv'
<1>1. \A v \in Runners : run'[v] = IF v = w THEN R ELSE run[v]
  BY DEF OrphanInv, Typed
<1>2. \A v \in Runners : Held(channels', nextId', run[v])
  BY OfRun, HeldGrows DEF NameInv
<1>3. \A v \in Runners : Held(channels', nextId', run'[v]) /\ Single(run'[v]) /\ Passed(run'[v])
  BY <1>1, <1>2 DEF NameInv
<1>. QED
  BY <1>3 DEF NameInv

(* The same of a step inside a run: channels and table stay.               *)
LEMMA NameInside ==
  ASSUME OrphanInv, NameInv, NEW w \in Runners, NEW R,
         run' = [run EXCEPT ![w] = R], UNCHANGED <<channels, rows, nextId>>,
         Held(channels, nextId, R), Single(R), Passed(R)
  PROVE  NameInv'
<1>1. Grows(channels, nextId, channels', nextId')
  BY DEF Grows, OrphanInv, Typed
<1>. QED
  BY <1>1, NameStep DEF NameInv

LEMMA OfNames ==
  ASSUME OrphanInv, NameInv, NEW w \in Runners
  PROVE  /\ run[w] \in RunRec /\ Shape(run[w])
         /\ Held(channels, nextId, run[w]) /\ Single(run[w]) /\ Passed(run[w])
  BY OfRun DEF NameInv

LEMMA StartNames ==
  ASSUME OrphanInv, NameInv, NEW w \in Runners, NEW asked, NEW scope, Start(w, asked, scope)
  PROVE  NameInv'
<1>. DEFINE R == [Idle EXCEPT !.phase = "load", !.asked = asked, !.scope = scope]
<1>1. R.known = Idle.known /\ R.made = Idle.made /\ R.loaded = Idle.loaded /\ R.phase = "load"
      /\ R.order = Idle.order
  BY DEF Idle
<1>2. R.known = {} /\ R.made = {} /\ DOMAIN R.loaded = {} /\ {c.id : c \in R.known} = {}
  BY <1>1, EmptyFunction DEF Idle
<1>. HIDE DEF R
<1>3. Held(channels, nextId, R) /\ Single(R) /\ Passed(R)
  BY <1>1, <1>2, Zenon DEF Held, Single, Passed, Agree, Below
<1>. QED
  BY <1>3, NameInside DEF Start, R

(* A run takes over the ledgers of the table, with the channels or none.   *)
LEMMA LoadNames ==
  ASSUME OrphanInv, NameInv, NEW w \in Runners, LoadExistingData(w)
  PROVE  NameInv'
<1>. DEFINE on == {r \in run[w].asked : rows[r].state = "on"}
<1>1. PICK found \in {channels, {}} :
         run' = [run EXCEPT
                  ![w].phase = "fetch", ![w].known = found,
                  ![w].loaded = [r \in on |-> rows[r]],
                  ![w].order = [r \in on |-> {}],
                  ![w].accounts = IF on = {} THEN {}
                                  ELSE AccountsToFetch(run[w].scope, on)]
  BY DEF LoadExistingData
<1>. DEFINE R == [run[w] EXCEPT !.phase = "fetch", !.known = found,
                  !.loaded = [r \in on |-> rows[r]],
                  !.order = [r \in on |-> {}],
                  !.accounts = IF on = {} THEN {}
                               ELSE AccountsToFetch(run[w].scope, on)]
<1>2. run' = [run EXCEPT ![w] = R]
  BY <1>1 DEF OrphanInv, Typed
<1>3. /\ R.phase = "fetch" /\ R.known = found /\ R.made = run[w].made
      /\ R.loaded = [r \in on |-> rows[r]] /\ R.order = [r \in on |-> {}]
  BY OfNames DEF RunRec
<1>4. run[w].made = {} /\ on \subseteq Rules
  BY OfNames DEF Single, LoadExistingData, RunRec
<1>5. found \subseteq channels
  OBVIOUS
<1>6. \A r \in DOMAIN R.loaded :
        /\ R.loaded[r].managed = rows[r].managed /\ R.order[r] = {} /\ r \in Rules
        /\ R.made \cup R.loaded[r].managed = rows[r].managed
  BY <1>3, <1>4
<1>. HIDE DEF R
<1>7. \A c \in R.known : c.id < nextId
  BY <1>3, <1>5 DEF OrphanInv
<1>8. Held(channels, nextId, R)
  BY <1>3, <1>4, <1>5, <1>6, <1>7 DEF Held, NameInv, Agree, Below
<1>9. Single(R)
  BY <1>3, <1>4, <1>5, <1>6 DEF Single, NameInv, OneOfName
<1>10. Passed(R)
  BY <1>3 DEF Passed
<1>. QED
  BY <1>2, <1>8, <1>9, <1>10, NameInside DEF LoadExistingData

LEMMA FetchNames ==
  ASSUME OrphanInv, NameInv, NEW w \in Runners, NEW a \in Accounts, FetchAccount(w, a)
  PROVE  NameInv'
<1>. DEFINE R == run'[w]
<1>1. run' = [run EXCEPT ![w] = R]
  BY OfRun DEF FetchAccount, OrphanInv, Typed, RunRec
<1>2. /\ R.phase = "fetch" /\ run[w].phase = "fetch"
      /\ R.known = run[w].known /\ R.made = run[w].made
      /\ R.loaded = run[w].loaded /\ R.order = run[w].order
  BY OfRun DEF FetchAccount, OrphanInv, Typed, RunRec
<1>. HIDE DEF R
<1>3. Held(channels, nextId, R) /\ Single(R) /\ Passed(R)
  BY <1>2, OfNames DEF Held, Single, Passed
<1>. QED
  BY <1>1, <1>3, NameInside DEF FetchAccount

LEMMA ListFailsNames ==
  ASSUME OrphanInv, NameInv, NEW w \in Runners, AccountListFails(w)
  PROVE  NameInv'
  BY IdleNames, NameInside DEF AccountListFails

(* All that was matched is still to be dealt with.                         *)
LEMMA EvaluateNames ==
  ASSUME OrphanInv, NameInv, NEW w \in Runners, Evaluate(w)
  PROVE  NameInv'
<1>. DEFINE R == [run[w] EXCEPT !.phase = "execute", !.entries = Matched(w)]
<1>1. run' = [run EXCEPT ![w] = R]
  BY OfRun DEF Evaluate, RunRec
<1>2. /\ R.phase = "execute" /\ run[w].phase = "fetch" /\ R.seen = run[w].seen
      /\ R.known = run[w].known /\ R.made = run[w].made /\ R.entries = Matched(w)
      /\ R.loaded = run[w].loaded /\ R.order = run[w].order
  BY OfRun DEF Evaluate, RunRec
<1>. HIDE DEF R
<1>3. Held(channels, nextId, R) /\ Single(R)
  BY <1>2, OfNames DEF Held, Single
<1>4. \A s : Fitting(R, s) = Candidates(w, s)
  BY <1>2, WinnerWins, WinsKept
<1>5. Passed(R)
  BY <1>2, <1>4 DEF Passed, Matched
<1>. QED
  BY <1>1, <1>3, <1>5, NameInside DEF Evaluate, counters, R

LEMMA CapNames ==
  ASSUME OrphanInv, NameInv, NEW w \in Runners, StopAtCap(w)
  PROVE  NameInv'
<1>. DEFINE R == [run[w] EXCEPT !.entries = {}, !.capped = TRUE]
<1>1. run' = [run EXCEPT ![w] = R]
  BY OfRun DEF StopAtCap, RunRec
<1>2. /\ R.phase = "execute" /\ run[w].phase = "execute" /\ R.capped
      /\ R.known = run[w].known /\ R.made = run[w].made
      /\ R.loaded = run[w].loaded /\ R.order = run[w].order
  BY OfRun DEF StopAtCap, RunRec
<1>. HIDE DEF R
<1>3. Held(channels, nextId, R) /\ Single(R) /\ Passed(R)
  BY <1>2, OfNames DEF Held, Single, Passed
<1>. QED
  BY <1>1, <1>3, NameInside DEF StopAtCap, counters, R

(* A stream that a rule of the run takes goes to a rule of the run.        *)
LEMMA WinsLoaded ==
  ASSUME NEW R, NEW s, Fitting(R, s) # {}
  PROVE  Wins(R, s) \in DOMAIN R.loaded
<1>1. Fitting(R, s) \subseteq Nat
  BY OrphanAssumption DEF Fitting
<1>2. \E i \in Fitting(R, s) : \A j \in Fitting(R, s) : i <= j
  BY <1>1, Least
<1>. QED
  BY <1>2 DEF Wins, Fitting

(* A stream dealt with stays dealt with: what the run knows, made and met  *)
(* only grows, by channels no ledger has.                                  *)
LEMMA DealtKept ==
  ASSUME NEW R, NEW Q, NEW s, Dealt(R, s), Q.loaded = R.loaded, R.known \subseteq Q.known,
         \A c \in Q.known \ R.known :
            \A r \in DOMAIN R.loaded : c.id \notin R.loaded[r].managed,
         \A c \in R.known : c.id \in Q.made => c.id \in R.made,
         R.order[Wins(R, s)] \subseteq Q.order[Wins(R, s)]
  PROVE  Dealt(Q, s)
<1>1. Wins(Q, s) = Wins(R, s)
  BY WinsKept
<1>. QED
  BY <1>1, Zenon DEF Dealt

(* The stream found a channel, and the rule meets it if it owns it.        *)
LEMMA SkipNames ==
  ASSUME OrphanInv, NameInv, NEW w \in Runners, NEW s \in Streams, SkipExisting(w, s)
  PROVE  NameInv'
<1>. DEFINE r == Winner(w, s)
<1>1. PICK c \in FindChannel(w, NameOf[s]) :
        run' = [run EXCEPT ![w].entries = @ \ {s}, ![w].order = Meet(w, r, c.id)]
  BY DEF SkipExisting
<1>. DEFINE R == [run[w] EXCEPT !.entries = @ \ {s}, !.order = Meet(w, r, c.id)]
<1>2. run' = [run EXCEPT ![w] = R]
  BY <1>1, OfRun DEF RunRec
<1>3. /\ R.phase = "execute" /\ run[w].phase = "execute" /\ R.seen = run[w].seen
      /\ R.entries = run[w].entries \ {s} /\ R.capped = run[w].capped
      /\ R.known = run[w].known /\ R.made = run[w].made
      /\ R.loaded = run[w].loaded /\ R.order = Meet(w, r, c.id)
  BY OfRun DEF SkipExisting, RunRec
<1>4. r \in Loaded(w) /\ r = Wins(run[w], s)
  BY WinnerIsRule, WinnerWins DEF SkipExisting
<1>5. c \in run[w].known /\ c.name = NameOf[s]
  BY DEF FindChannel
<1>6. DOMAIN run[w].order = Loaded(w)
  BY OfRun DEF Shape, Loaded
<1>. HIDE DEF r, R
<1>7. \A q \in Loaded(w) : R.order[q] =
        IF q = r /\ Owned(w, r, c.id) THEN run[w].order[q] \cup {c.id} ELSE run[w].order[q]
  BY <1>3, <1>6 DEF Meet
<1>8. Held(channels, nextId, R)
  BY <1>3, OfNames DEF Held
<1>9. Single(R)
  <2>1. \A q \in Loaded(w) : /\ R.order[q] \subseteq R.made \cup R.loaded[q].managed
                             /\ R.order[q] \subseteq {d.id : d \in R.known}
    <3>. SUFFICES ASSUME NEW q \in Loaded(w)
                  PROVE  /\ R.order[q] \subseteq R.made \cup R.loaded[q].managed
                         /\ R.order[q] \subseteq {d.id : d \in R.known}
      OBVIOUS
    <3>1. /\ run[w].order[q] \subseteq R.made \cup R.loaded[q].managed
          /\ run[w].order[q] \subseteq {d.id : d \in R.known}
      BY <1>3, OfNames DEF Single, Loaded
    <3>2. c.id \in {d.id : d \in R.known}
      BY <1>3, <1>5
    <3>3. q = r /\ Owned(w, r, c.id) => c.id \in R.made \cup R.loaded[q].managed
      BY <1>3 DEF Owned
    <3>. QED
      BY <1>7, <3>1, <3>2, <3>3
  <2>. QED
    BY <1>3, <2>1, OfNames DEF Single, Loaded
<1>10. Passed(R)
  <2>1. \A t : Fitting(R, t) = Fitting(run[w], t) /\ Wins(R, t) = Wins(run[w], t)
    BY <1>3, WinsKept
  <2>2. Dealt(R, s)
    <3>1. c.id \in R.made \cup R.loaded[r].managed => c.id \in R.order[r]
      BY <1>3, <1>4, <1>7 DEF Owned
    <3>. QED
      BY <1>3, <1>4, <1>5, <2>1, <3>1 DEF Dealt
  <2>3. ASSUME NEW t \in R.seen, ~R.capped, Fitting(R, t) # {}, t \notin R.entries, t # s
        PROVE  Dealt(R, t)
    <3>1. Dealt(run[w], t) /\ Fitting(run[w], t) # {}
      BY <1>3, <2>1, <2>3, OfNames DEF Passed
    <3>2. run[w].order[Wins(run[w], t)] \subseteq R.order[Wins(run[w], t)]
      BY <1>7, <3>1, WinsLoaded DEF Loaded
    <3>. QED
      BY <1>3, <3>1, <3>2, DealtKept
  <2>. QED
    BY <1>3, <2>2, <2>3 DEF Passed
<1>. QED
  BY <1>2, <1>8, <1>9, <1>10, NameInside DEF SkipExisting, counters, R

(* A stream for which nothing was found: no channel of its name is in a    *)
(* ledger of the run or made by it.                                        *)
LEMMA NoneFound ==
  ASSUME NEW w, NEW n, FindChannel(w, n) = {}
  PROVE  \A c \in run[w].known : c.name = n =>
           c.id \notin run[w].made /\ \A r \in Loaded(w) : c.id \notin run[w].loaded[r].managed
  BY DEF FindChannel, IsManual

(* The stream leaves the list; the run is otherwise as it was.             *)
LEMMA EntryNames ==
  ASSUME OrphanInv, NameInv, NEW w \in Runners, NEW s, run[w].phase = "execute",
         FindChannel(w, NameOf[s]) = {}
  PROVE  LET R == [run[w] EXCEPT !.entries = @ \ {s}]
         IN  Held(channels, nextId, R) /\ Single(R) /\ Passed(R)
<1>. DEFINE R == [run[w] EXCEPT !.entries = @ \ {s}]
<1>1. /\ R.phase = run[w].phase /\ R.seen = run[w].seen /\ R.entries = run[w].entries \ {s}
      /\ R.capped = run[w].capped /\ R.known = run[w].known /\ R.made = run[w].made
      /\ R.loaded = run[w].loaded /\ R.order = run[w].order /\ R.orphans = run[w].orphans
  BY OfRun DEF RunRec
<1>. HIDE DEF R
<1>2. Held(channels, nextId, R) /\ Single(R)
  BY <1>1, OfNames DEF Held, Single
<1>3. Dealt(R, s)
  BY <1>1, NoneFound DEF Dealt, Loaded
<1>4. ASSUME NEW t \in R.seen, ~R.capped, Fitting(R, t) # {}, t \notin R.entries, t # s
      PROVE  Dealt(R, t)
  <2>1. Dealt(run[w], t)
    BY <1>1, <1>4, OfNames, WinsKept DEF Passed
  <2>. QED
    BY <1>1, <2>1, DealtKept
<1>5. Passed(R)
  BY <1>1, <1>3, <1>4 DEF Passed
<1>. QED
  BY <1>2, <1>5 DEF R

LEMMA CreateNames ==
  ASSUME OrphanInv, NameInv, NEW w \in Runners, NEW s \in Streams, CreateChannel(w, s)
  PROVE  NameInv'
<1>. DEFINE r == Winner(w, s)
            c == [id |-> nextId, name |-> NameOf[s], by |-> r]
            D == [run[w] EXCEPT !.entries = @ \ {s}]
            R == [run[w] EXCEPT !.entries = @ \ {s}, !.known = @ \cup {c},
                    !.made = @ \cup {c.id}, !.order[r] = @ \cup {c.id}]
<1>1. /\ r \in Loaded(w) /\ r = Wins(run[w], s) /\ run[w].phase = "execute"
      /\ FindChannel(w, NameOf[s]) = {} /\ rows' = rows /\ nextId \in Ids
  BY WinnerIsRule, WinnerWins DEF CreateChannel
<1>2. Held(channels, nextId, D) /\ Single(D) /\ Passed(D) /\ D \in RunRec
  BY <1>1, EntryNames, EntryDone
<1>. HIDE DEF r
<1>3. CASE UNCHANGED <<channels, nextId>> /\ run' = [run EXCEPT ![w].entries = @ \ {s}]
  <2>1. run' = [run EXCEPT ![w] = D]
    BY <1>3, OfRun DEF RunRec
  <2>. QED
    BY <1>1, <1>2, <1>3, <2>1, NameInside
<1>4. c.id = nextId /\ c.name = NameOf[s]
  OBVIOUS
<1>. HIDE DEF c
<1>5. ASSUME channels' = channels \cup {c}, nextId' = nextId + 1
      PROVE  /\ Grows(channels, nextId, channels', nextId')
             /\ Agree(channels', channels')
             /\ \A q \in Rules : Below(rows'[q].managed, nextId')
                                 /\ OneOfName(channels', rows'[q].managed)
  <2>1. nextId \in Nat /\ \A x \in channels : x.id < nextId /\ x.id \in Nat
    BY DEF OrphanInv, Typed, Channel, Ids
  <2>2. Grows(channels, nextId, channels', nextId')
    BY <1>4, <1>5, <2>1 DEF Grows
  <2>3. Agree(channels', channels')
    BY <1>4, <1>5, <2>1 DEF Agree, NameInv
  <2>4. \A q \in Rules : rows[q].managed \subseteq Ids
    BY DEF OrphanInv, Typed, Row
  <2>. QED
    BY <1>1, <2>2, <2>3, <2>4, LedgerGrows DEF NameInv
<1>6. CASE /\ channels' = channels \cup {c} /\ nextId' = nextId + 1
           /\ run' = [run EXCEPT ![w].entries = @ \ {s}]
  <2>1. run' = [run EXCEPT ![w] = D]
    BY <1>6, OfRun DEF RunRec
  <2>2. Held(channels', nextId', D)
    BY <1>2, <1>5, <1>6, HeldGrows
  <2>. QED
    BY <1>2, <1>5, <1>6, <2>1, <2>2, NameStep
<1>7. CASE /\ channels' = channels \cup {c} /\ nextId' = nextId + 1
           /\ run' = [run EXCEPT ![w].entries = @ \ {s}, ![w].known = @ \cup {c},
                    ![w].made = @ \cup {c.id}, ![w].order[r] = @ \cup {c.id}]
  <2>1. run' = [run EXCEPT ![w] = R]
    BY <1>7, OfRun DEF RunRec
  <2>2. /\ R.phase = "execute" /\ R.seen = run[w].seen /\ R.entries = run[w].entries \ {s}
        /\ R.capped = run[w].capped /\ R.known = run[w].known \cup {c}
        /\ R.made = run[w].made \cup {nextId} /\ R.loaded = run[w].loaded
    BY <1>1, <1>4, OfRun DEF RunRec
  <2>3. \A q \in Loaded(w) :
          R.order[q] = IF q = r THEN run[w].order[q] \cup {nextId} ELSE run[w].order[q]
    BY <1>4, OfRun DEF RunRec, Shape, Loaded
  <2>. HIDE DEF R
  <2>4. /\ Agree(channels, run[w].known) /\ Agree(run[w].known, run[w].known)
        /\ Below(run[w].made, nextId)
        /\ \A x \in run[w].known : x.id \in Nat /\ x.id < nextId
    BY OfNames DEF Held, Below, RunRec, Channel, Ids
  <2>5. \A q \in Loaded(w) :
          /\ run[w].loaded[q].managed \subseteq Ids /\ Below(run[w].loaded[q].managed, nextId)
          /\ nextId \notin run[w].loaded[q].managed
    BY OfNames, HeldTyped DEF Held, Below, Loaded, Row, Ids
  <2>6. nextId \in Nat /\ \A x \in channels : x.id < nextId /\ x.id \in Nat
    BY DEF OrphanInv, Typed, Channel, Ids
  <2>7. \A x \in run[w].known : x.name = NameOf[s] => x.id \notin run[w].made
          /\ \A q \in Loaded(w) : x.id \notin run[w].loaded[q].managed
    BY <1>1, NoneFound
  <2>8. Held(channels', nextId', R)
    <3>1. Agree(channels', R.known) /\ Agree(R.known, R.known)
      BY <1>4, <1>7, <2>2, <2>4, <2>6 DEF Agree
    <3>2. Below({x.id : x \in R.known}, nextId')
      BY <1>4, <1>7, <2>2, <2>4, <2>6 DEF Below
    <3>3. Below(R.made, nextId')
      <4>1. run[w].made \subseteq Nat
        BY OfRun DEF RunRec, Ids
      <4>. QED
        BY <1>7, <2>2, <2>4, <2>6, <4>1 DEF Below
    <3>4. \A q \in Loaded(w) : Below(R.loaded[q].managed, nextId')
                               /\ OneOfName(channels', R.loaded[q].managed)
      <4>1. \A q \in Loaded(w) : OneOfName(channels, run[w].loaded[q].managed)
        BY OfNames DEF Held, Loaded
      <4>2. Grows(channels, nextId, channels', nextId')
        BY <1>5, <1>7
      <4>. QED
        BY <2>2, <2>5, <4>1, <4>2, LedgerGrows
    <3>. QED
      BY <2>2, <3>1, <3>2, <3>3, <3>4 DEF Held, Loaded
  <2>9. Single(R)
    <3>. SUFFICES ASSUME NEW q \in Loaded(w)
                  PROVE  /\ OneOfName(R.known, R.made \cup R.loaded[q].managed)
                         /\ R.order[q] \subseteq R.made \cup R.loaded[q].managed
                         /\ R.order[q] \subseteq {x.id : x \in R.known}
                         /\ R.made \cap R.loaded[q].managed = {}
      BY <2>2 DEF Single, Loaded
    <3>1. /\ OneOfName(run[w].known, run[w].made \cup run[w].loaded[q].managed)
          /\ run[w].order[q] \subseteq run[w].made \cup run[w].loaded[q].managed
          /\ run[w].order[q] \subseteq {x.id : x \in run[w].known}
          /\ run[w].made \cap run[w].loaded[q].managed = {}
      BY <1>1, OfNames DEF Single, Loaded
    <3>2. \A x \in run[w].known : x.id # nextId
      BY <2>4, <2>6
    <3>3. OneOfName(R.known, R.made \cup R.loaded[q].managed)
      BY <1>4, <2>2, <2>7, <3>1, <3>2 DEF OneOfName
    <3>4. R.order[q] \subseteq R.made \cup R.loaded[q].managed
      BY <2>2, <2>3, <3>1
    <3>5. R.order[q] \subseteq {x.id : x \in R.known}
      <4>1. {x.id : x \in run[w].known} \subseteq {x.id : x \in R.known}
        BY <2>2
      <4>2. nextId \in {x.id : x \in R.known}
        BY <1>4, <2>2
      <4>. QED
        BY <2>3, <3>1, <4>1, <4>2
    <3>6. R.made \cap R.loaded[q].managed = {}
      BY <2>2, <2>5, <3>1
    <3>. QED
      BY <3>3, <3>4, <3>5, <3>6
  <2>10. Passed(R)
    <3>1. Dealt(R, s)
      BY <1>4, <2>2, <2>5, <2>7 DEF Dealt, Loaded
    <3>2. ASSUME NEW t \in R.seen, ~R.capped, Fitting(R, t) # {}, t \notin R.entries, t # s
          PROVE  Dealt(R, t)
      <4>1. Dealt(run[w], t) /\ Fitting(run[w], t) # {}
        BY <1>1, <2>2, <3>2, OfNames, WinsKept DEF Passed
      <4>2. run[w].order[Wins(run[w], t)] \subseteq R.order[Wins(run[w], t)]
        BY <2>3, <4>1, WinsLoaded DEF Loaded
      <4>3. \A x \in R.known \ run[w].known :
              \A q \in DOMAIN run[w].loaded : x.id \notin run[w].loaded[q].managed
        BY <1>4, <2>2, <2>5 DEF Loaded
      <4>4. \A x \in run[w].known : x.id \in R.made => x.id \in run[w].made
        BY <2>2, <2>4, <2>6
      <4>. QED
        BY <2>2, <4>1, <4>2, <4>3, <4>4, DealtKept
    <3>. QED
      BY <2>2, <3>1, <3>2 DEF Passed
  <2>. QED
    BY <1>5, <1>7, <2>1, <2>8, <2>9, <2>10, NameStep
<1>. QED
  BY <1>3, <1>6, <1>7 DEF CreateChannel, r, c

LEMMA BeginNames ==
  ASSUME OrphanInv, NameInv, NEW w \in Runners, BeginReconcile(w)
  PROVE  NameInv'
<1>. DEFINE O == UNION {{<<r, id>> : id \in Orphans(w, r)} :
                          r \in {q \in Loaded(w) : OrphanAction[q] # "none"}}
            R == [run[w] EXCEPT !.phase = "reconcile", !.orphans = O]
<1>1. run' = [run EXCEPT ![w] = R]
  BY OfRun DEF BeginReconcile, RunRec
<1>2. \A r \in Rules, id \in Ids : <<r, id>> \in O => r \in Loaded(w) /\ id \in Orphans(w, r)
  OBVIOUS
<1>. HIDE DEF O
<1>3. /\ R.phase = "reconcile" /\ run[w].phase = "execute" /\ R.seen = run[w].seen
      /\ R.entries = run[w].entries /\ R.capped = run[w].capped
      /\ R.known = run[w].known /\ R.made = run[w].made /\ R.orphans = O
      /\ R.loaded = run[w].loaded /\ R.order = run[w].order
  BY OfRun DEF BeginReconcile, RunRec
<1>. HIDE DEF R
<1>4. Held(channels, nextId, R) /\ Single(R)
  BY <1>3, OfNames DEF Held, Single
<1>5. \A s : R.capped \/ Fitting(R, s) = {} \/ s \in R.entries \/ s \notin R.seen \/ Dealt(R, s)
  <2>1. ASSUME NEW s \in R.seen, ~R.capped, Fitting(R, s) # {}, s \notin R.entries
        PROVE  Dealt(R, s)
    <3>1. Dealt(run[w], s)
      BY <1>3, <2>1, OfNames, WinsKept DEF Passed
    <3>. QED
      BY <1>3, <3>1, DealtKept
  <2>. QED
    BY <2>1
<1>6. Passed(R)
  BY <1>2, <1>3, <1>5 DEF Passed, Orphans, Loaded
<1>. QED
  BY <1>1, <1>4, <1>6, NameInside DEF BeginReconcile, counters, R

LEMMA HandleNames ==
  ASSUME OrphanInv, NameInv, NEW w \in Runners, NEW r \in Rules, NEW id \in Ids,
         HandleOrphan(w, r, id)
  PROVE  NameInv'
<1>. DEFINE R == [run[w] EXCEPT !.orphans = @ \ {<<r, id>>}]
<1>1. run' = [run EXCEPT ![w] = R]
  BY OfRun DEF HandleOrphan, RunRec
<1>2. channels' \subseteq channels /\ rows' = rows /\ nextId' = nextId
  BY DEF HandleOrphan
<1>3. Grows(channels, nextId, channels', nextId') /\ Agree(channels', channels')
  BY <1>2 DEF Grows, Agree, NameInv, OrphanInv, Typed
<1>4. \A q \in Rules : Below(rows'[q].managed, nextId') /\ OneOfName(channels', rows'[q].managed)
  BY <1>2 DEF NameInv, OneOfName
<1>5. /\ R.phase = run[w].phase /\ R.seen = run[w].seen
      /\ R.entries = run[w].entries /\ R.capped = run[w].capped
      /\ R.known = run[w].known /\ R.made = run[w].made /\ R.orphans \subseteq run[w].orphans
      /\ R.loaded = run[w].loaded /\ R.order = run[w].order /\ run[w].phase = "reconcile"
  BY OfRun DEF HandleOrphan, RunRec
<1>. HIDE DEF R
<1>6. Held(channels', nextId', R)
  <2>1. Held(channels', nextId', run[w])
    BY <1>3, OfNames, HeldGrows
  <2>. QED
    BY <1>5, <2>1 DEF Held
<1>7. Single(R)
  BY <1>5, OfNames DEF Single
<1>8. \A s : R.capped \/ Fitting(R, s) = {} \/ s \in R.entries \/ s \notin R.seen \/ Dealt(R, s)
  <2>1. ASSUME NEW s \in R.seen, ~R.capped, Fitting(R, s) # {}, s \notin R.entries
        PROVE  Dealt(R, s)
    <3>1. Dealt(run[w], s)
      BY <1>5, <2>1, OfNames, WinsKept DEF Passed
    <3>. QED
      BY <1>5, <3>1, DealtKept
  <2>. QED
    BY <2>1
<1>9. Passed(R)
  BY <1>5, <1>8, OfNames DEF Passed
<1>. QED
  BY <1>1, <1>3, <1>4, <1>6, <1>7, <1>9, NameStep DEF R

(* The ledger a rule is left with has one channel of a name too.           *)
LEMMA NewLedgerNames ==
  ASSUME OrphanInv, NameInv, NEW w \in Runners, run[w].phase = "reconcile", NEW r \in Loaded(w)
  PROVE  Below(NewLedger(w, r), nextId) /\ OneOfName(channels, NewLedger(w, r))
<1>. DEFINE old == run[w].loaded[r].managed
            met == run[w].order[r]
<1>1. Below(old, nextId) /\ OneOfName(channels, old)
  BY OfNames DEF Held, Loaded
<1>2. /\ OneOfName(run[w].known, run[w].made \cup old)
      /\ met \subseteq run[w].made \cup old /\ met \subseteq {c.id : c \in run[w].known}
  BY OfNames DEF Single, Loaded
<1>3. Below({c.id : c \in run[w].known}, nextId) /\ Agree(channels, run[w].known)
  BY OfNames DEF Held
<1>4. Below(met, nextId)
  BY <1>2, <1>3 DEF Below
<1>5. OneOfName(channels, met)
  <2>1. \A c \in channels : c.id \in met => c \in run[w].known
    BY <1>2, <1>3 DEF Agree
  <2>. QED
    BY <1>2, <2>1 DEF OneOfName
<1>. QED
  BY <1>1, <1>4, <1>5 DEF NewLedger

LEMMA SaveNames ==
  ASSUME OrphanInv, NameInv, NEW w \in Runners, SaveLedgers(w)
  PROVE  NameInv'
<1>. DEFINE now == [r \in Loaded(w) |->
                      [run[w].loaded[r] EXCEPT !.managed = NewLedger(w, r)]]
            merged == {r \in Loaded(w) : now[r] # run[w].loaded[r] \/ Orphans(w, r) # {}}
            R == [run[w] EXCEPT !.phase = "stats", !.loaded = now]
<1>1. /\ rows' = [r \in Rules |-> IF r \in merged THEN now[r] ELSE rows[r]]
      /\ run' = [run EXCEPT ![w] = R]
  <2>1. /\ rows' = [r \in Rules |-> IF r \in merged THEN now[r] ELSE rows[r]]
        /\ run' = [run EXCEPT ![w].phase = "stats", ![w].loaded = now]
    BY DEF SaveLedgers
  <2>. QED
    BY <2>1, OfRun DEF RunRec
<1>2. \A r \in Loaded(w) : now[r].managed = NewLedger(w, r)
  BY OfRun, HeldTyped DEF Loaded, Row
<1>3. \A r \in Loaded(w) : Below(now[r].managed, nextId) /\ OneOfName(channels, now[r].managed)
  BY <1>2, NewLedgerNames DEF SaveLedgers
<1>4. merged \subseteq Loaded(w) /\ DOMAIN now = Loaded(w)
  OBVIOUS
<1>. HIDE DEF now, merged
<1>5. UNCHANGED <<channels, nextId>> /\ nextId \in Nat
  BY DEF SaveLedgers, counters, OrphanInv, Typed
<1>6. \A r \in Rules : Below(rows'[r].managed, nextId') /\ OneOfName(channels', rows'[r].managed)
  BY <1>1, <1>3, <1>4, <1>5 DEF NameInv
<1>7. /\ R.phase = "stats" /\ R.known = run[w].known /\ R.made = run[w].made
      /\ R.loaded = now
  BY OfRun DEF RunRec
<1>. HIDE DEF R
<1>8. Held(channels', nextId', R)
  BY <1>3, <1>4, <1>5, <1>7, OfNames DEF Held
<1>9. Single(R) /\ Passed(R)
  BY <1>7 DEF Single, Passed
<1>10. Grows(channels, nextId, channels', nextId') /\ Agree(channels', channels')
  BY <1>5 DEF Grows, NameInv
<1>. QED
  BY <1>1, <1>6, <1>8, <1>9, <1>10, NameStep DEF R

LEMMA StatsNames ==
  ASSUME OrphanInv, NameInv, NEW w \in Runners, UpdateRuleStats(w)
  PROVE  NameInv'
<1>1. \A r \in Loaded(w) : /\ Below(run[w].loaded[r].managed, nextId)
                           /\ OneOfName(channels, run[w].loaded[r].managed)
  BY OfNames DEF Held, Loaded
<1>2. UNCHANGED <<channels, nextId>> /\ nextId \in Nat /\ run' = [run EXCEPT ![w] = Idle]
  BY DEF UpdateRuleStats, counters, OrphanInv, Typed
<1>3. \A r \in Rules : Below(rows'[r].managed, nextId') /\ OneOfName(channels', rows'[r].managed)
  BY <1>1, <1>2 DEF UpdateRuleStats, NameInv
<1>4. Grows(channels, nextId, channels', nextId') /\ Agree(channels', channels')
  BY <1>2 DEF Grows, NameInv
<1>. QED
  BY <1>2, <1>3, <1>4, IdleNames, NameStep

(* The operator, the provider, other clients and a crash.                  *)
LEMMA OthersNames ==
  ASSUME OrphanInv, NameInv,
         \/ \E r \in Rules : UpdateRule(r) \/ ToggleRule(r) \/ DeleteRule(r)
         \/ \E s \in Streams : PlaylistChanges(s)
         \/ \E c \in channels : OutsideDelete(c)
         \/ Crash
         \/ UNCHANGED vars
  PROVE  NameInv'
<1>1. CASE \E r \in Rules : UpdateRule(r) \/ ToggleRule(r) \/ DeleteRule(r)
  <2>1. UNCHANGED <<channels, nextId, run>>
    BY <1>1 DEF UpdateRule, ToggleRule, DeleteRule, SaveRule
  <2>2. \A r \in Rules : rows'[r].managed = rows[r].managed \/ rows'[r].managed = {}
    <3>1. rows \in [Rules -> Row]
      BY DEF OrphanInv, Typed
    <3>. QED
      BY <1>1, <3>1 DEF UpdateRule, ToggleRule, DeleteRule, SaveRule, Row
  <2>3. \A r \in Rules : Below(rows'[r].managed, nextId) /\ OneOfName(channels, rows'[r].managed)
    BY <2>2 DEF NameInv, Below, OneOfName
  <2>. QED
    BY <2>1, <2>3 DEF NameInv
<1>2. CASE \E s \in Streams : PlaylistChanges(s)
  BY <1>2 DEF PlaylistChanges, NameInv
<1>3. CASE \E c \in channels : OutsideDelete(c)
  <2>1. channels' \subseteq channels /\ UNCHANGED <<rows, run, nextId>> /\ nextId \in Nat
    BY <1>3 DEF OutsideDelete, OrphanInv, Typed
  <2>2. Grows(channels, nextId, channels', nextId')
    BY <2>1 DEF Grows
  <2>3. \A w \in Runners : Held(channels', nextId', run[w])
    BY <2>2, OfNames, HeldGrows
  <2>4. /\ Agree(channels', channels')
        /\ \A r \in Rules : OneOfName(channels', rows[r].managed)
    BY <2>1 DEF NameInv, Agree, OneOfName
  <2>. QED
    BY <2>1, <2>3, <2>4 DEF NameInv
<1>4. CASE Crash
  <2>1. UNCHANGED <<channels, rows, nextId>> /\ \A w \in Runners : run'[w] = Idle
    BY <1>4 DEF Crash
  <2>. QED
    BY <2>1, IdleNames DEF NameInv
<1>5. CASE UNCHANGED vars
  BY <1>5 DEF vars, NameInv
<1>. QED
  BY <1>1, <1>2, <1>3, <1>4, <1>5

LEMMA RunsNames ==
  ASSUME OrphanInv, NameInv, NEW w \in Runners, RunStep(w)
  PROVE  NameInv'
  BY StartNames, LoadNames, FetchNames, ListFailsNames, EvaluateNames, SkipNames,
     CreateNames, CapNames, BeginNames, HandleNames, SaveNames, StatsNames
     DEF RunStep

LEMMA NameNext == OrphanInv /\ NameInv /\ [Next]_vars => NameInv'
<1>. SUFFICES ASSUME OrphanInv, NameInv, [Next]_vars PROVE NameInv'
  OBVIOUS
<1>1. [Step]_vars
  BY DEF Next
<1>. QED
  BY <1>1, RunsNames, OthersNames DEF Step

(* The step that removes a channel of the name leaves another one.         *)
LEMMA OrphanLeaves ==
  ASSUME OrphanInv, NameInv, NEW w \in Runners, NEW s \in Streams,
         NEW q \in Rules, NEW id \in Ids, HandleOrphan(w, q, id),
         run[w].phase = "reconcile", ~run[w].capped, s \in Matched(w), RulesOwn(w, s),
         NEW c \in channels, c.name = NameOf[s]
  PROVE  \E d \in channels' : d.name = NameOf[s]
<1>1. CASE c \in channels'
  BY <1>1
<1>2. CASE c \notin channels'
  <2>. DEFINE r == Winner(w, s)
  <2>1. c.id = id /\ channels' = {d \in channels : d.id # id}
    BY <1>2 DEF HandleOrphan
  <2>2. /\ q \in Loaded(w) /\ id \in run[w].loaded[q].managed /\ id \notin run[w].order[q]
        /\ \E d \in run[w].known : d.id = id
    BY OfNames DEF HandleOrphan, Passed, Loaded
  <2>3. c \in run[w].known
    BY <2>1, <2>2, OfNames DEF Held, Agree
  <2>4. q = r
    BY <2>1, <2>2, <2>3 DEF RulesOwn
  <2>5. Dealt(run[w], s) /\ r = Wins(run[w], s)
    <3>1. s \in run[w].seen /\ Fitting(run[w], s) # {}
      BY WinnerWins DEF Matched
    <3>2. run[w].entries = {}
      BY OfNames DEF Shape
    <3>. QED
      BY <3>1, <3>2, OfNames, WinnerWins DEF Passed
  <2>. HIDE DEF r
  <2>6. PICK d \in run[w].known :
          /\ d.name = NameOf[s]
          /\ d.id \in run[w].made \cup run[w].loaded[q].managed => d.id \in run[w].order[q]
    BY <2>1, <2>2, <2>3, <2>4, <2>5 DEF Dealt, Loaded
  <2>7. d.id \notin run[w].made \cup run[w].loaded[q].managed
    <3>1. OneOfName(run[w].known, run[w].made \cup run[w].loaded[q].managed)
      BY <2>2, OfNames DEF Single, Loaded
    <3>2. d.id \in run[w].made \cup run[w].loaded[q].managed => d = c
      BY <2>1, <2>2, <2>3, <2>6, <3>1 DEF OneOfName
    <3>. QED
      BY <2>1, <2>2, <2>6, <3>2
  <2>8. IsManual(w, d)
    BY <2>4, <2>6, <2>7 DEF IsManual, RulesOwn, r
  <2>9. d \in channels /\ d.id # id
    BY <2>2, <2>6, <2>7, <2>8 DEF RulesOwn
  <2>. QED
    BY <2>1, <2>6, <2>9
<1>. QED
  BY <1>1, <1>2

(* One step of the system: no other step removes a channel while it        *)
(* changes a run.                                                          *)
LEMMA LeavesStep ==
  ASSUME OrphanInv, NameInv, [Next]_vars, NEW w \in Runners, NEW s \in Streams
  PROVE  LeavesChannel(w, s)
<1>. SUFFICES ASSUME run[w].phase = "reconcile", ~run[w].capped, s \in Matched(w),
                     RulesOwn(w, s), NEW c \in channels, c.name = NameOf[s],
                     run[w] # run'[w]
              PROVE  \E d \in channels' : d.name = NameOf[s]
  BY DEF LeavesChannel
<1>1. PICK v \in Runners : RunStep(v) \/ Crash
  BY DEF Next, Step, UpdateRule, ToggleRule, DeleteRule, SaveRule, PlaylistChanges,
         OutsideDelete, Crash, vars
<1>2. CASE \E q \in Rules, id \in Ids : HandleOrphan(v, q, id)
  <2>1. v = w
    BY <1>2 DEF HandleOrphan, OrphanInv, Typed
  <2>. QED
    BY <1>2, <2>1, OrphanLeaves
<1>3. CASE ~ \E q \in Rules, id \in Ids : HandleOrphan(v, q, id)
  <2>1. channels \subseteq channels'
    BY <1>1, <1>3 DEF RunStep, Start, LoadExistingData, FetchAccount,
       AccountListFails, Evaluate, SkipExisting, CreateChannel, StopAtCap,
       BeginReconcile, SaveLedgers, UpdateRuleStats, Crash
  <2>. QED
    BY <2>1
<1>. QED
  BY <1>2, <1>3

(***************************************************************************)
(* A stream that a run saw and one of its rules takes keeps a channel of   *)
(* its name through that run's orphan pass, for any number of runs at      *)
(* once, rules, accounts, failed calls, crashes, edits of the rules and    *)
(* channels that others delete; when the run did not stop at the cap, and  *)
(* as far as the known channels of the name are in no other rule's ledger  *)
(* (owned_by_this_rule and _reconcile_orphans).                            *)
(***************************************************************************)
THEOREM MatchedCorrect == Spec => MatchedKeepTheirChannel
<1>1. Init => NameInv
  BY NameInit
<1>2. OrphanInv /\ NameInv /\ [Next]_vars => NameInv'
  BY NameNext
<1>3. OrphanInv /\ NameInv /\ [Next]_vars
        => [\A w \in Runners, s \in Streams : LeavesChannel(w, s)]_vars
  BY LeavesStep
<1>. QED
  BY <1>1, <1>2, <1>3, LedgersCorrect, PTL DEF Spec, MatchedKeepTheirChannel
=============================================================================
