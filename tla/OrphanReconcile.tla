--------------------------- MODULE OrphanReconcile ---------------------------
(***************************************************************************)
(* The life of the channels a pipeline rule creates, over many runs:       *)
(* backend/channel_pipeline_engine.py loads the channels and the rules,    *)
(* fetches the streams of the accounts, lets every stream's first matching *)
(* rule create or find its channel, and then _reconcile_orphans removes    *)
(* the channels each rule managed before and did not meet again.  Which    *)
(* channels a rule manages is its ledger, managed_channel_ids, kept in the *)
(* rule's own row.                                                         *)
(*                                                                         *)
(* A channel is its id and its name; `by' says who built it and is read by *)
(* the properties only.  A rule row is what the operator configures (state *)
(* and takes, the streams its conditions match) and its ledger; an empty   *)
(* ledger is stored as NULL, so the set {} stands for both.  Rules use     *)
(* create_channel with if_exists "skip".  The order streams are processed  *)
(* in depends on the rule's sort and on the provider, and is left open.    *)
(* Nothing keeps two runs apart: POST /run, POST /rules/{id}/run and the   *)
(* scheduled task each start one.                                          *)
(***************************************************************************)
EXTENDS Integers, Sequences, FiniteSets

CONSTANTS
    Runners,        \* runs that may be in progress at once
    RuleOrder,      \* the rules, by priority
    Streams, Names, NameOf,
    Accounts, AccountOf,
    RuleAccount,    \* the m3u_account_id of a rule, or AllOf
    OrphanAction,   \* the orphan_action of a rule: "delete", "move" or "none"
    Takes,          \* the streams a rule's conditions match at first
    AllowManual,    \* allow_manual_channel_merge
    Cap,            \* max_auto_created_channels_per_run, 0 when off
    RuleSets,       \* the rule_ids a run may be asked for
    Scopes,         \* the m3u_account_ids a run may be asked for, {} = all
    FaultKinds,     \* the calls that may fail
    Edits,          \* the kinds of operator edit of a rule
    MaxRuns, MaxFaults, MaxCrashes, MaxEdits, MaxChurn, MaxIds

AllOf  == "any"
Hand == "hand"
Rules == {RuleOrder[i] : i \in DOMAIN RuleOrder}
Ids == 1..MaxIds

ASSUME OrphanAssumption ==
    /\ AccountOf \in [Streams -> Accounts] /\ NameOf \in [Streams -> Names]
    /\ Names # {} /\ RuleOrder \in Seq(Rules) /\ Hand \notin Rules
    /\ RuleAccount \in [Rules -> Accounts \cup {AllOf}]
    /\ OrphanAction \in [Rules -> {"delete", "move", "none"}]
    /\ Takes \in [Rules -> SUBSET Streams]
    /\ AllowManual \in BOOLEAN /\ Cap \in Nat
    /\ \A S \in RuleSets : S \subseteq Rules
    /\ \A S \in Scopes : S \subseteq Accounts
    /\ MaxRuns \in Nat /\ MaxFaults \in Nat /\ MaxCrashes \in Nat
    /\ MaxEdits \in Nat /\ MaxChurn \in Nat /\ MaxIds \in Nat \ {0}

VARIABLES
    channels,   \* Dispatcharr's channels
    playlist,   \* the streams the providers offer now
    rows,       \* the rule table
    run,        \* the run in progress of each runner
    nextId, runs, faults, crashes, edits, churn,
    whole       \* history: every step so far was Orderly

vars == <<channels, playlist, rows, run,
          nextId, runs, faults, crashes, edits, churn, whole>>
counters == <<nextId, runs, faults, crashes, edits, churn>>

(***************************************************************************)
(* A run: the rules it was asked for and the rows it read (the ORM objects *)
(* stay in memory until the end), the channels it knows, the accounts      *)
(* still to fetch, the streams fetched and those not executed yet, what it *)
(* created, whether the cap stopped it, the channels each rule met         *)
(* (rule_channel_order), the orphans still to handle.  seen holds what was *)
(* fetched, for the properties.                                            *)
(***************************************************************************)
Idle == [phase |-> "idle", asked |-> {}, scope |-> {}, loaded |-> <<>>,
         known |-> {}, accounts |-> {}, seen |-> {}, entries |-> {},
         made |-> {}, capped |-> FALSE, order |-> <<>>, orphans |-> {}]

Init ==
    /\ channels = {[id |-> 1, name |-> n, by |-> Hand] : n \in
                      {CHOOSE m \in Names : TRUE}}
    /\ playlist = Streams
    /\ rows = [r \in Rules |-> [state |-> "on", takes |-> Takes[r],
                                managed |-> {}]]
    /\ run = [w \in Runners |-> Idle]
    /\ nextId = 2 /\ runs = 0 /\ faults = 0 /\ crashes = 0
    /\ edits = 0 /\ churn = 0 /\ whole = TRUE

-----------------------------------------------------------------------------
(* Calls of Dispatcharr: each may fail, as often as MaxFaults allows.      *)
Works == UNCHANGED faults
Fails(kind) ==
    /\ kind \in FaultKinds /\ faults < MaxFaults
    /\ faults' = faults + 1

Loaded(w) == DOMAIN run[w].loaded

(* The rule a fetched stream goes to: the first one, by priority, whose    *)
(* account and conditions fit.                                             *)
Candidates(w, s) ==
    {i \in DOMAIN RuleOrder :
        /\ RuleOrder[i] \in Loaded(w)
        /\ RuleAccount[RuleOrder[i]] \in {AllOf, AccountOf[s]}
        /\ s \in run[w].loaded[RuleOrder[i]].takes}

Winner(w, s) ==
    RuleOrder[CHOOSE i \in Candidates(w, s) :
                 \A j \in Candidates(w, s) : i <= j]

MatchedUnseen(w) == {s \in Streams : Candidates(w, s) # {}}

Matched(w) == {s \in run[w].seen : Candidates(w, s) # {}}

(* _fetch_streams: the requested accounts, or the accounts the rules name, *)
(* or all of them.                                                         *)
AccountsToFetch(scope, loaded) ==
    LET named == {RuleAccount[r] : r \in loaded} \ {AllOf}
    IN  IF scope # {} THEN scope
        ELSE IF named # {} THEN named ELSE Accounts


(* POST /run, POST /rules/{id}/run or the scheduled task.                  *)
Start(w, asked, scope) ==
    /\ run[w].phase = "idle" /\ runs < MaxRuns
    /\ run' = [run EXCEPT ![w] = [Idle EXCEPT !.phase = "load",
                                              !.asked = asked,
                                              !.scope = scope]]
    /\ runs' = runs + 1
    /\ UNCHANGED <<channels, playlist, rows,
                   nextId, faults, crashes, edits, churn>>

(* _load_existing_data, where a failure leaves an empty list, then         *)
(* _load_rules: the enabled rules of those asked for.                      *)
LoadExistingData(w) ==
    /\ run[w].phase = "load"
    /\ \E found \in {channels, {}} :
         /\ IF found = channels THEN Works ELSE Fails("load")
         /\ LET on == {r \in run[w].asked : rows[r].state = "on"}
            IN  run' = [run EXCEPT
                  ![w].phase = "fetch", ![w].known = found,
                  ![w].loaded = [r \in on |-> rows[r]],
                  ![w].order = [r \in on |-> {}],
                  ![w].accounts = IF on = {} THEN {}
                                  ELSE AccountsToFetch(run[w].scope, on)]
    /\ UNCHANGED <<channels, playlist, rows,
                   nextId, runs, crashes, edits, churn>>

(* One account of _fetch_streams; an exception is logged and the account   *)
(* contributes nothing.                                                    *)
FetchAccount(w, a) ==
    /\ run[w].phase = "fetch" /\ a \in run[w].accounts
    /\ \/ /\ Works
          /\ run' = [run EXCEPT
                ![w].accounts = @ \ {a},
                ![w].seen = @ \cup {s \in playlist : AccountOf[s] = a}]
       \/ /\ Fails("fetch")
          /\ run' = [run EXCEPT ![w].accounts = @ \ {a}]
    /\ UNCHANGED <<channels, playlist, rows,
                   nextId, runs, crashes, edits, churn>>

(* get_m3u_accounts is outside that protection: the run fails.             *)
AccountListFails(w) ==
    /\ run[w].phase = "fetch" /\ Fails("accounts")
    /\ run' = [run EXCEPT ![w] = Idle]
    /\ UNCHANGED <<channels, playlist, rows,
                   nextId, runs, crashes, edits, churn>>

(* Pass 1 of _process_streams: every fetched stream against the rules.     *)
Evaluate(w) ==
    /\ run[w].phase = "fetch" /\ run[w].accounts = {}
    /\ run' = [run EXCEPT ![w].phase = "execute", ![w].entries = Matched(w)]
    /\ UNCHANGED <<channels, playlist, rows, counters>>

-----------------------------------------------------------------------------
(* _is_manual_channel: neither made by this run nor in the ledger of one   *)
(* of the run's rules.                                                     *)
ManualWithoutLedger(w, c) == c.id \notin run[w].made

IsManual(w, c) ==
    /\ c.id \notin run[w].made
    /\ \A r \in Loaded(w) : c.id \notin run[w].loaded[r].managed

(* _find_channel_by_name: the known channels of that name the rule may use.*)
FindChannel(w, name) ==
    {c \in run[w].known : c.name = name /\ (AllowManual \/ ~IsManual(w, c))}

(* owned_by_this_rule: created in this run, or in the rule's ledger when   *)
(* the run began.                                                          *)
OwnedIfMade(w, r, id) == id \in run[w].made
OwnedIfMet(w, r, id) == TRUE

Owned(w, r, id) ==
    id \in run[w].made \/ id \in run[w].loaded[r].managed

Meet(w, r, id) ==
    [run[w].order EXCEPT ![r] = IF Owned(w, r, id) THEN @ \cup {id} ELSE @]

CapReached(w) == Cap > 0 /\ Cardinality(run[w].made) >= Cap

(* A stream whose channel exists: if_exists "skip".                        *)
SkipExisting(w, s) ==
    /\ run[w].phase = "execute" /\ s \in run[w].entries /\ ~CapReached(w)
    /\ \E c \in FindChannel(w, NameOf[s]) :
         run' = [run EXCEPT ![w].entries = @ \ {s},
                            ![w].order = Meet(w, Winner(w, s), c.id)]
    /\ UNCHANGED <<channels, playlist, rows, counters>>

(* A stream without one: create_channel answers, fails, or creates the     *)
(* channel without the answer arriving.                                    *)
CreateChannel(w, s) ==
    /\ run[w].phase = "execute" /\ s \in run[w].entries /\ ~CapReached(w)
    /\ FindChannel(w, NameOf[s]) = {} /\ nextId \in Ids
    /\ LET r == Winner(w, s)
           c == [id |-> nextId, name |-> NameOf[s], by |-> r]
       IN  \/ /\ Works /\ channels' = channels \cup {c} /\ nextId' = nextId + 1
              /\ run' = [run EXCEPT
                    ![w].entries = @ \ {s}, ![w].known = @ \cup {c},
                    ![w].made = @ \cup {c.id},
                    ![w].order[r] = @ \cup {c.id}]
           \/ /\ Fails("lost") /\ channels' = channels \cup {c}
              /\ nextId' = nextId + 1
              /\ run' = [run EXCEPT ![w].entries = @ \ {s}]
           \/ /\ Fails("create") /\ UNCHANGED <<channels, nextId>>
              /\ run' = [run EXCEPT ![w].entries = @ \ {s}]
    /\ UNCHANGED <<playlist, rows, runs, crashes, edits, churn>>

(* The created-channel cap: the loop stops, the rest is not processed.     *)
StopAtCap(w) ==
    /\ run[w].phase = "execute" /\ run[w].entries # {} /\ CapReached(w)
    /\ run' = [run EXCEPT ![w].entries = {}, ![w].capped = TRUE]
    /\ UNCHANGED <<channels, playlist, rows, counters>>

-----------------------------------------------------------------------------
(* _reconcile_orphans: what a rule managed when the run began, did not     *)
(* meet, and is still a channel the run knows.                             *)
Orphans(w, r) ==
    (run[w].loaded[r].managed \ run[w].order[r])
        \cap {c.id : c \in run[w].known}

BeginReconcile(w) ==
    /\ run[w].phase = "execute" /\ run[w].entries = {}
    /\ run' = [run EXCEPT
         ![w].phase = "reconcile",
         ![w].orphans = UNION {{<<r, id>> : id \in Orphans(w, r)} :
                              r \in {q \in Loaded(w) : OrphanAction[q] # "none"}}]
    /\ UNCHANGED <<channels, playlist, rows, counters>>

(* remove_channel or move_channel_to_uncategorized: a failure is logged.   *)
HandleOrphan(w, r, id) ==
    /\ run[w].phase = "reconcile" /\ <<r, id>> \in run[w].orphans
    /\ run' = [run EXCEPT ![w].orphans = @ \ {<<r, id>>}]
    /\ \/ /\ Works
          /\ channels' = IF OrphanAction[r] = "delete"
                         THEN {c \in channels : c.id # id} ELSE channels
       \/ Fails("delete") /\ UNCHANGED channels
    /\ UNCHANGED <<playlist, rows, nextId, runs, crashes, edits, churn>>

(* The ledger a rule is left with: what it met.  orphan_action none, and   *)
(* an empty ledger, are only ever filled.                                  *)
NewLedger(w, r) ==
    LET old == run[w].loaded[r].managed
        met == run[w].order[r]
    IN  IF met = {} /\ (OrphanAction[r] = "none" \/ old = {}) THEN old ELSE met

(* session.merge(rule) copies every column of the row the run read, and    *)
(* inserts the row again when it is gone.  A rule without orphans whose    *)
(* ledger is unchanged is not merged here.                                 *)
SaveLedgers(w) ==
    /\ run[w].phase = "reconcile" /\ run[w].orphans = {}
    /\ LET now == [r \in Loaded(w) |->
                     [run[w].loaded[r] EXCEPT !.managed = NewLedger(w, r)]]
           merged == {r \in Loaded(w) : now[r] # run[w].loaded[r]
                                          \/ Orphans(w, r) # {}}
       IN  /\ rows' = [r \in Rules |-> IF r \in merged THEN now[r] ELSE rows[r]]
           /\ run' = [run EXCEPT ![w].phase = "stats", ![w].loaded = now]
    /\ UNCHANGED <<channels, playlist, counters>>

(* _update_rule_stats: the statistics of every rule of the run, again      *)
(* through session.merge of the whole row.                                 *)
UpdateRuleStats(w) ==
    /\ run[w].phase = "stats"
    /\ rows' = [r \in Rules |-> IF r \in Loaded(w) THEN run[w].loaded[r]
                                ELSE rows[r]]
    /\ run' = [run EXCEPT ![w] = Idle]
    /\ UNCHANGED <<channels, playlist, counters>>

-----------------------------------------------------------------------------
(* The operator edits, switches or deletes a rule; the row keeps its       *)
(* ledger.                                                                 *)
SaveRule(r, row) ==
    /\ edits < MaxEdits /\ edits' = edits + 1
    /\ rows' = [rows EXCEPT ![r] = row]
    /\ UNCHANGED <<channels, playlist, run, nextId, runs, faults, crashes, churn>>

UpdateRule(r) ==
    /\ "takes" \in Edits /\ rows[r].state # "gone"
    /\ \E T \in SUBSET Streams : SaveRule(r, [rows[r] EXCEPT !.takes = T])

ToggleRule(r) ==
    /\ "toggle" \in Edits /\ rows[r].state # "gone"
    /\ SaveRule(r, [rows[r] EXCEPT
                      !.state = IF @ = "on" THEN "off" ELSE "on"])

DeleteRule(r) ==
    /\ "delete" \in Edits /\ rows[r].state # "gone"
    /\ SaveRule(r, [state |-> "gone", takes |-> {}, managed |-> {}])

(* The provider adds or drops a stream.                                    *)
PlaylistChanges(s) ==
    /\ churn < MaxChurn /\ churn' = churn + 1
    /\ playlist' = IF s \in playlist THEN playlist \ {s} ELSE playlist \cup {s}
    /\ UNCHANGED <<channels, rows, run,
                   nextId, runs, faults, crashes, edits>>

(* Another client of Dispatcharr deletes a channel.                        *)
OutsideDelete(c) ==
    /\ churn < MaxChurn /\ churn' = churn + 1
    /\ channels' = channels \ {c}
    /\ UNCHANGED <<playlist, rows, run,
                   nextId, runs, faults, crashes, edits>>

(* The process dies: the runs' memory is lost.                             *)
Crash ==
    /\ crashes < MaxCrashes /\ crashes' = crashes + 1
    /\ \E w \in Runners : run[w].phase # "idle"
    /\ run' = [w \in Runners |-> Idle]
    /\ UNCHANGED <<channels, playlist, rows,
                   nextId, runs, faults, edits, churn>>

RunStep(w) ==
    \/ \E asked \in RuleSets, scope \in Scopes : Start(w, asked, scope)
    \/ LoadExistingData(w)
    \/ \E a \in Accounts : FetchAccount(w, a)
    \/ AccountListFails(w)
    \/ Evaluate(w)
    \/ \E s \in Streams : SkipExisting(w, s) \/ CreateChannel(w, s)
    \/ StopAtCap(w)
    \/ BeginReconcile(w)
    \/ \E r \in Rules, id \in Ids : HandleOrphan(w, r, id)
    \/ SaveLedgers(w) \/ UpdateRuleStats(w)

Step ==
    \/ \E w \in Runners : RunStep(w)
    \/ \E r \in Rules : UpdateRule(r) \/ ToggleRule(r) \/ DeleteRule(r)
    \/ \E s \in Streams : PlaylistChanges(s)
    \/ \E c \in channels : OutsideDelete(c)
    \/ Crash

(***************************************************************************)
(* What the ledgers rely on: the process does not die and rules stay on; a *)
(* run starts alone and with all rules, reads the channels, learns the id  *)
(* of what it creates, and deletes what it finds orphaned.  Calls may      *)
(* still fail otherwise, accounts be left out, streams and channels go,    *)
(* and conditions be edited under a run.                                   *)
(***************************************************************************)
Orderly ==
    /\ crashes' = crashes /\ \A r \in Rules : rows'[r].state = "on"
    /\ \A c \in channels' \ channels : \E w \in Runners : c.id \in run'[w].made
    /\ \A w \in Runners :
         LET was == run[w]
             is  == run'[w]
         IN  /\ was.phase = "idle" /\ is.phase = "load" =>
                   is.asked = Rules /\ \A v \in Runners \ {w} : run[v].phase = "idle"
             /\ was.phase = "load" /\ is.phase = "fetch" => is.known = channels
             /\ is.phase = "reconcile" =>
                   \A r \in DOMAIN is.loaded : OrphanAction[r] = "delete"
             /\ \A x \in was.orphans \ is.orphans : \A c \in channels' : c.id # x[2]

Next == Step /\ whole' = (whole /\ Orderly)

Spec == Init /\ [][Next]_vars

-----------------------------------------------------------------------------
(* Type correctness.                                                       *)
TypeOK ==
    /\ channels \subseteq [id : Ids, name : Names, by : Rules \cup {Hand}]
    /\ playlist \subseteq Streams
    /\ rows \in [Rules -> [state : {"on", "off", "gone"},
                           takes : SUBSET Streams, managed : SUBSET Ids]]
    /\ \A w \in Runners :
         /\ run[w].phase \in {"idle", "load", "fetch", "execute",
                              "reconcile", "stats"}
         /\ Loaded(w) \subseteq run[w].asked
         /\ run[w].entries \subseteq run[w].seen
         /\ run[w].made \subseteq Ids

(***************************************************************************)
(* A run never removes a channel somebody built by hand, whatever runs     *)
(* beside it, fails or crashes, and even when rules may put their streams  *)
(* into hand-built channels: only the owned_by_this_rule gate and the      *)
(* ledger stand between such a channel and the orphan pass.                *)
(***************************************************************************)
HandBuiltUntouched ==
    [][run' # run => \A c \in channels : c.by = Hand => c \in channels']_vars

(* The channels of the name of s that a run knew are in the ledger of no   *)
(* rule but the winning one; those in nobody's are still there.            *)
RulesOwn(w, s) ==
    \A c \in run[w].known : c.name = NameOf[s] =>
        /\ \A r \in Loaded(w) \ {Winner(w, s)} : c.id \notin run[w].loaded[r].managed
        /\ IsManual(w, c) => c \in channels

(***************************************************************************)
(* A stream that a run saw and one of its rules takes keeps a channel of   *)
(* its name through that run's orphan pass, whatever was lost to earlier   *)
(* crashes, runs beside it or fails: the channels removed are those of     *)
(* streams that went away (_reconcile_orphans).  The run must not have     *)
(* stopped at the cap, nor two rules have the channel in their ledgers.    *)
(***************************************************************************)
LeavesChannel(w, s) ==
    (/\ run[w].phase = "reconcile" /\ ~run[w].capped
     /\ s \in Matched(w) /\ RulesOwn(w, s)
     /\ \E c \in channels : c.name = NameOf[s]
     /\ run[w] # run'[w])
    => \E c \in channels' : c.name = NameOf[s]

MatchedKeepTheirChannel == [][\A w \in Runners, s \in Streams : LeavesChannel(w, s)]_vars

(***************************************************************************)
(* The pipeline never builds a second channel for a name it already has a  *)
(* channel of: a rule recognises, run after run, the channels it built.    *)
(***************************************************************************)
OneChannelPerName ==
    \A c, d \in channels :
        c.by # Hand /\ d.by # Hand /\ c.name = d.name => c = d

(***************************************************************************)
(* The pipeline's channels are one per name as long as steps were orderly, *)
(* in well-formed rows and runs: a failed fetch, the cap, an account scope *)
(* or an edited condition may cost a channel, and never double one.        *)
(***************************************************************************)
ChannelsNotRepeated == TypeOK /\ (whole => OneChannelPerName)
=============================================================================
