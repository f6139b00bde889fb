-------------------------- MODULE RestoreOrchestrator --------------------------
(***************************************************************************)
(* The DBAS restore: run_restore applies an archive to a Dispatcharr       *)
(* instance that has no transactions, category by category in dependency   *)
(* order, keeps a durable ledger of what it created, and undoes it with    *)
(* compensating deletes when a category fails.                             *)
(*                                                                         *)
(* The destination is a separate service: a call may be rejected, or       *)
(* executed with its answer lost; other clients of it create and delete    *)
(* rows meanwhile.  Writing the ledger file may fail, and the process may  *)
(* die at any point.  A call that was executed when the process died is a  *)
(* lost answer followed by Crash.                                          *)
(***************************************************************************)
EXTENDS Integers, Sequences, FiniteSets, SequencesExt

CONSTANTS
  NSteps,       \* importer steps, in registration (dependency) order
  RowsPerStep,  \* archived rows of each category
  Parent,       \* the row an archived row refers to, or itself
  NonFatal,     \* steps of NON_FATAL_FAILURE_CATEGORIES
  Flushing,     \* steps whose importer persists the ledger after every create
  Racing,       \* steps that re-list on a name conflict (channel groups)
  MaxFaults,    \* bound: calls and writes that fail
  MaxOutside    \* bound: changes other clients make to the destination

Steps    == 1 .. NSteps
Entities == Steps \X (1 .. RowsPerStep)

ASSUME RestoreAssumption ==
  /\ NSteps \in Nat \ {0} /\ RowsPerStep \in Nat \ {0}
  /\ Parent \in [Entities -> Entities]
  /\ \A e \in Entities : Parent[e] = e \/ Parent[e][1] < e[1]
  /\ NonFatal \subseteq Steps /\ Flushing \subseteq Steps /\ Racing \subseteq Steps
  /\ {MaxFaults, MaxOutside} \subseteq Nat

VARIABLES
  phase,      \* where run_restore is
  confirmed,  \* confirm_apply
  dry,        \* report.is_dry_run
  step, row,  \* the category and the archived row being imported
  listed,     \* the category's rows the importer found on the destination
  dest,       \* the destination: per archived row, whose row stands for it
  mapped,     \* IdRemapTable: archived rows with a destination id
  entries,    \* RollbackLedger.entries: archived row and the row its id names
  comp,       \* the entries marked compensated
  disk,       \* the ledger file
  cursor,     \* rollback: entries not visited yet
  residue,    \* rollback: entries that could not be compensated
  failed,     \* categories with a failure count above zero
  failure,    \* failure_occurred
  unread,     \* report.destination_unreadable
  short,      \* some delivery-shortfall count is above zero
  outcome,    \* report.outcome
  orphans,    \* history: rows created whose id never reached ECM
  faults, outside

atVars     == <<phase, step, row, listed>>
modeVars   == <<confirmed, dry>>
ledgerVars == <<entries, comp, disk>>
backVars   == <<cursor, residue>>
reportVars == <<failed, failure, unread, short>>
vars == <<atVars, modeVars, dest, mapped, ledgerVars, backVars, reportVars, outcome,
          orphans, faults, outside>>

-----------------------------------------------------------------------------
Owner   == {"ours", "foreign"}
Ended   == {"done", "raised", "crashed"}
Phase   == {"idle", "listing", "rows", "raising", "rollback", "final"} \cup Ended
Outcome == {"none", "success", "completed_with_failures", "rolled_back", "incomplete"}

\* The ledger file: its entries and which of them it marks compensated.
Ledger(saved, marked) == [exists |-> TRUE, saved |-> saved, comp |-> marked]
NoLedger == [exists |-> FALSE, saved |-> {}, comp |-> {}]

TypeOK ==
  /\ phase \in Phase /\ outcome \in Outcome
  /\ confirmed \in BOOLEAN /\ dry \in BOOLEAN
  /\ step \in Steps /\ row \in 1 .. RowsPerStep + 1
  /\ listed \subseteq Entities /\ mapped \subseteq Entities /\ orphans \subseteq Entities
  /\ dest \in [Entities -> Owner \cup {"absent"}]
  /\ entries \in Seq(Entities \X Owner)
  /\ comp \subseteq Entities /\ residue \subseteq Entities
  /\ disk \in [exists : BOOLEAN, saved : SUBSET Entities, comp : SUBSET Entities]
  /\ cursor \in 0 .. Len(entries)
  /\ failed \subseteq Steps
  /\ failure \in BOOLEAN /\ unread \in BOOLEAN /\ short \in BOOLEAN
  /\ faults \in Nat /\ outside \in Nat

Cur        == <<step, row>>
Ledgered   == {en[1] : en \in ToSet(entries)}
Fault      == faults < MaxFaults /\ faults' = faults + 1
Unresolved == Parent[Cur] # Cur /\ Parent[Cur] \notin mapped

Init ==
  /\ phase = "idle" /\ confirmed = FALSE /\ dry = TRUE
  /\ step = 1 /\ row = 1
  /\ listed = {} /\ mapped = {} /\ orphans = {}
  /\ dest \in [Entities -> {"absent", "foreign"}]
  /\ entries = <<>> /\ comp = {} /\ disk = NoLedger
  /\ cursor = 0 /\ residue = {}
  /\ failed = {} /\ failure = FALSE /\ unread = FALSE /\ short = FALSE
  /\ outcome = "none" /\ faults = 0 /\ outside = 0

-----------------------------------------------------------------------------
(* The start.                                                              *)

\* Mutant: the report's own flag decides.
DryRunByReport(confirm, asDry) == asDry

\* Apply is opt-in: without confirm_apply the run is a dry run.
DryRun(confirm, asDry) == asDry \/ ~confirm

\* run_restore: the guardrail, then the pre-flight, which may refuse the plan.
Begin(confirm, asDry) ==
  /\ phase = "idle"
  /\ confirmed' = confirm
  /\ dry' = DryRun(confirm, asDry)
  /\ phase' \in {"listing", "done"}
  /\ UNCHANGED <<step, row, listed, dest, mapped, ledgerVars, backVars, reportVars, outcome,
                 orphans, faults, outside>>

-----------------------------------------------------------------------------
(* One importer step.                                                      *)

\* The category's destination rows, indexed by name.
ExistingByName == {e \in Entities : e[1] = step /\ dest[e] # "absent"}

\* The importer reads what the destination has; a failed read is recorded by
\* the observing client and taken as an empty destination.
ListExisting ==
  /\ phase = "listing"
  /\ phase' = "rows" /\ row' = 1
  /\ \/ /\ listed' = ExistingByName
        /\ UNCHANGED <<unread, faults>>
     \/ /\ Fault
        /\ unread' = TRUE /\ listed' = {}
  /\ UNCHANGED <<step, modeVars, dest, mapped, ledgerVars, backVars, failed, failure, short,
                 outcome, orphans, outside>>

\* The importer has an archived row to deal with; afterwards the next one is up.
AtRow   == phase = "rows" /\ row <= RowsPerStep
NextRow == row' = row + 1 /\ UNCHANGED <<step, listed, modeVars, backVars, failure, outside>>

\* Mutant: an adopted row is recorded like a created one.
AdoptLedgered ==
  /\ AtRow /\ NextRow /\ Cur \in listed
  /\ mapped' = mapped \cup {Cur}
  /\ entries' = IF dry THEN entries ELSE Append(entries, <<Cur, "foreign">>)
  /\ UNCHANGED <<phase, dest, comp, disk, failed, unread, short, outcome, orphans, faults>>

\* A row of the same name exists: it is adopted and nothing is created.
Adopt ==
  /\ AtRow /\ NextRow /\ Cur \in listed
  /\ mapped' = mapped \cup {Cur}
  /\ UNCHANGED <<phase, dest, ledgerVars, failed, unread, short, outcome, orphans, faults>>

\* The row it refers to has no destination id: the row is skipped and counted
\* as a delivery shortfall.
SkipUnresolved ==
  /\ AtRow /\ NextRow /\ Cur \notin listed /\ Unresolved
  /\ short' = TRUE
  /\ UNCHANGED <<phase, dest, mapped, ledgerVars, failed, unread, outcome, orphans, faults>>

\* A dry run maps the row provisionally, so that its children resolve.
WouldCreate ==
  /\ AtRow /\ NextRow /\ Cur \notin listed /\ ~Unresolved /\ dry
  /\ mapped' = mapped \cup {Cur}
  /\ UNCHANGED <<phase, dest, ledgerVars, failed, unread, short, outcome, orphans, faults>>

\* A create is due.  The client refuses it once a destination read has failed.
CreateDue == AtRow /\ Cur \notin listed /\ ~Unresolved /\ ~dry

\* Mutant: the ledger is kept in memory only.
PersistNothing(saved, marked) == disk' = disk

\* persist_ledger: temporary file and os.replace, all or nothing.
Persist(saved, marked) == disk' = Ledger(saved, marked)

\* The create returned an id: remap, ledger, and in a flushing importer the
\* file; if that write fails the importer raises.
Create ==
  /\ CreateDue /\ NextRow /\ ~unread /\ dest[Cur] = "absent"
  /\ dest' = [dest EXCEPT ![Cur] = "ours"]
  /\ mapped' = mapped \cup {Cur}
  /\ entries' = Append(entries, <<Cur, "ours">>)
  /\ \/ /\ IF step \in Flushing THEN Persist(Ledgered \cup {Cur}, comp) ELSE disk' = disk
        /\ UNCHANGED <<phase, faults>>
     \/ /\ step \in Flushing /\ Fault
        /\ phase' = "raising" /\ disk' = disk
  /\ UNCHANGED <<comp, failed, unread, short, outcome, orphans>>

\* The create was executed and its answer carries no id (the row counts as
\* created), or the answer was lost (the row counts as failed).
CreateUnledgered ==
  /\ CreateDue /\ NextRow /\ ~unread /\ dest[Cur] = "absent" /\ Fault
  /\ dest' = [dest EXCEPT ![Cur] = "ours"]
  /\ orphans' = orphans \cup {Cur}
  /\ failed' \in {failed, failed \cup {step}}
  /\ UNCHANGED <<phase, mapped, ledgerVars, unread, short, outcome>>

\* The destination rejects the create, or the client refuses to send it.
CreateFails ==
  /\ CreateDue /\ NextRow
  /\ \/ unread /\ UNCHANGED faults
     \/ ~unread /\ Fault
  /\ failed' = failed \cup {step}
  /\ UNCHANGED <<phase, dest, mapped, ledgerVars, unread, short, outcome, orphans>>

\* The name was taken after the listing: the row that took it is adopted, if
\* a second listing works and shows it.
CreateRaced ==
  /\ CreateDue /\ NextRow /\ ~unread /\ dest[Cur] = "foreign" /\ step \in Racing
  /\ \/ /\ mapped' = mapped \cup {Cur}
        /\ UNCHANGED <<failed, unread, faults>>
     \/ /\ Fault
        /\ failed' = failed \cup {step} /\ unread' \in {unread, TRUE}
        /\ UNCHANGED mapped
  /\ UNCHANGED <<phase, dest, ledgerVars, short, outcome, orphans>>

\* Anything else in the importer raises.
StepRaises ==
  /\ phase \in {"listing", "rows"} /\ Fault
  /\ phase' = "raising"
  /\ UNCHANGED <<step, row, listed, modeVars, dest, mapped, ledgerVars, backVars, reportVars,
                 outcome, orphans, outside>>

-----------------------------------------------------------------------------
(* Between the steps.                                                      *)

\* Mutant: the last category is not recognised.
AdvanceUnchecked == step' = step + 1 /\ phase' = "listing"

\* On to the next category, or to the final phase.
Advance == IF step < NSteps THEN step' = step + 1 /\ phase' = "listing"
                            ELSE step' = step /\ phase' = "final"

\* Mutant: the oldest entry is forgotten.
CompensationStartShort == IF Len(entries) > 0 THEN Len(entries) - 1 ELSE 0

\* compensation_order: every entry, none of them compensated yet.
CompensationStart == Len(entries)

\* The apply is given up; a dry run has nothing to undo.
Abort ==
  /\ failure' = TRUE /\ step' = step
  /\ IF dry THEN phase' = "final" /\ cursor' = cursor
            ELSE phase' = "rollback" /\ cursor' = CompensationStart

\* The ledger file is written unless this is a dry run; if that fails the
\* exception leaves run_restore, without a rollback.
Persisting(then) ==
  \/ /\ IF dry THEN disk' = disk ELSE Persist(Ledgered, comp)
     /\ then
     /\ UNCHANGED faults
  \/ /\ ~dry /\ Fault
     /\ phase' = "raised"
     /\ UNCHANGED <<disk, step, failure, cursor>>

\* An importer returned: persist, then go on or abort.
EndStep ==
  /\ phase = "rows" /\ row > RowsPerStep
  /\ Persisting(IF step \in failed \ NonFatal THEN Abort
                ELSE Advance /\ UNCHANGED <<failure, cursor>>)
  /\ UNCHANGED <<row, listed, modeVars, dest, mapped, entries, comp, residue, failed, unread,
                 short, outcome, orphans, outside>>

\* An importer raised: fatal whatever its category.
HandleRaise ==
  /\ phase = "raising"
  /\ Persisting(Abort)
  /\ UNCHANGED <<row, listed, modeVars, dest, mapped, entries, comp, residue, failed, unread,
                 short, outcome, orphans, outside>>

-----------------------------------------------------------------------------
(* run_rollback.                                                           *)

\* Mutant: creation order.
EntryForwards(i) == entries[Len(entries) + 1 - i]

\* Newest first.
Entry(i) == entries[i]

\* The row the entry's id names is deleted, or was gone already (404).
Deleted(en) == [dest EXCEPT ![en[1]] = IF @ = en[2] THEN "absent" ELSE @]

\* Deleted or 404: marked and persisted; if that write fails the exception
\* leaves run_restore.
Compensate ==
  /\ phase = "rollback" /\ cursor > 0
  /\ LET en == Entry(cursor) IN
     /\ dest' = Deleted(en)
     /\ comp' = comp \cup {en[1]}
     /\ \/ /\ Persist(Ledgered, comp \cup {en[1]})
           /\ cursor' = cursor - 1
           /\ UNCHANGED <<phase, faults>>
        \/ /\ Fault
           /\ phase' = "raised"
           /\ UNCHANGED <<disk, cursor>>
  /\ UNCHANGED <<step, row, listed, modeVars, mapped, entries, residue, reportVars, outcome,
                 orphans, outside>>

\* Any other answer, none although the row was deleted, or no compensator for
\* the type: residue, and on to the next entry.
CompensationFails ==
  /\ phase = "rollback" /\ cursor > 0 /\ Fault
  /\ dest' \in {dest, Deleted(Entry(cursor))}
  /\ residue' = residue \cup {Entry(cursor)[1]}
  /\ cursor' = cursor - 1
  /\ UNCHANGED <<atVars, modeVars, mapped, ledgerVars, reportVars, outcome, orphans, outside>>

\* Mutant: off by one.
RollbackDoneEarly == cursor = 1

RollbackDone == cursor = 0

EndRollback ==
  /\ phase = "rollback" /\ RollbackDone
  /\ phase' = "final"
  /\ UNCHANGED <<step, row, listed, modeVars, dest, mapped, ledgerVars, backVars, reportVars,
                 outcome, orphans, faults, outside>>

-----------------------------------------------------------------------------
(* The end.                                                                *)

\* Mutant: a delivery shortfall is not asked for.
OutcomeByCounts(notRead, lost) ==
  CASE notRead                                -> "incomplete"
    [] ~notRead /\ failure                    -> IF residue = {} THEN "rolled_back" ELSE "incomplete"
    [] ~notRead /\ ~failure /\ failed # {}    -> "completed_with_failures"
    [] OTHER                                  -> "success"

\* compute_outcome: an unread destination dominates, then a failure decided on,
\* then failures counted, then what the replica lacks.
ComputeOutcome(notRead, lost) ==
  CASE notRead                                          -> "incomplete"
    [] ~notRead /\ failure                              -> IF residue = {} THEN "rolled_back" ELSE "incomplete"
    [] ~notRead /\ ~failure /\ (failed # {} \/ lost)    -> "completed_with_failures"
    [] OTHER                                            -> "success"

\* A preview, however it ended, has no outcome.
FinishPreview ==
  /\ phase = "final" /\ dry
  /\ phase' = "done"
  /\ UNCHANGED <<step, row, listed, modeVars, dest, mapped, ledgerVars, backVars, reportVars,
                 outcome, orphans, faults, outside>>

\* The deferred settings and the placeholder rebind run after a clean apply:
\* their errors are contained, but they may find channels that cannot play and
\* their reads are observed too.
DeferredPhase ==
  /\ short' \in IF failure THEN {short} ELSE {short, TRUE}
  /\ unread' \in IF failure THEN {unread} ELSE {unread, TRUE}

\* The deferred phase, then the outcome; on success the ledger file is removed,
\* or its removal raises.
Finish ==
  /\ phase = "final" /\ ~dry
  /\ DeferredPhase
  /\ outcome' = ComputeOutcome(unread', short')
  /\ \/ /\ disk' = IF outcome' = "success" THEN NoLedger ELSE disk
        /\ phase' = "done"
        /\ UNCHANGED faults
     \/ /\ outcome' = "success" /\ Fault
        /\ phase' = "raised"
        /\ UNCHANGED disk
  /\ UNCHANGED <<step, row, listed, modeVars, dest, mapped, entries, comp, backVars, failed,
                 failure, orphans, outside>>

-----------------------------------------------------------------------------
(* The environment.                                                        *)

\* The process dies.  Nothing reads the ledger file of a dead restore: what the
\* process knew stays in the variables as history only.
Crash ==
  /\ phase \notin Ended \cup {"idle"}
  /\ phase' = "crashed"
  /\ UNCHANGED <<step, row, listed, modeVars, dest, mapped, ledgerVars, backVars, reportVars,
                 outcome, orphans, faults, outside>>

Outside ==
  /\ phase \notin Ended /\ outside < MaxOutside
  /\ outside' = outside + 1
  /\ UNCHANGED <<atVars, modeVars, mapped, ledgerVars, backVars, reportVars, outcome, orphans,
                 faults>>

\* Another client deletes a row, or takes a name.
OutsideDelete(e) == Outside /\ dest[e] # "absent" /\ dest' = [dest EXCEPT ![e] = "absent"]
OutsideCreate(e) ==
  Outside /\ e[1] \in Racing /\ dest[e] = "absent" /\ dest' = [dest EXCEPT ![e] = "foreign"]

-----------------------------------------------------------------------------
Restore ==
  \/ \E confirm, asDry \in BOOLEAN : Begin(confirm, asDry)
  \/ ListExisting
  \/ Adopt \/ SkipUnresolved \/ WouldCreate
  \/ Create \/ CreateUnledgered \/ CreateFails \/ CreateRaced
  \/ StepRaises \/ EndStep \/ HandleRaise
  \/ Compensate \/ CompensationFails \/ EndRollback
  \/ FinishPreview \/ Finish

Next ==
  \/ Restore
  \/ Crash
  \/ \E e \in Entities : OutsideDelete(e) \/ OutsideCreate(e)

Spec == Init /\ [][Next]_vars

\* Every await of the restore ends: the client's calls have a timeout.
FairSpec == Spec /\ WF_vars(Restore)

-----------------------------------------------------------------------------
(* Properties.                                                             *)

\* What this run created and knows the id of.
Landed == {e \in Entities : dest[e] = "ours"} \ orphans

\* A run that was not confirmed, or is a preview, touches neither the
\* destination nor the ledger path and realizes no outcome.
PreviewIsPure ==
  dry \/ ~confirmed =>
    /\ \A e \in Entities : dest[e] # "ours"
    /\ disk = NoLedger /\ outcome = "none"

\* PARTIAL_FAILED_ROLLED_BACK is only said when every row whose id the run ever
\* learnt is off the destination again.
RolledBackMeansGone ==
  outcome = "rolled_back" => Landed = {}

\* SUCCESS is never said of mixed state: every archived row was adopted or
\* created, every read worked, and nothing was undone.
SuccessIsComplete ==
  outcome = "success" =>
    /\ Entities \subseteq mapped \cup orphans
    /\ failed = {} /\ ~failure /\ ~unread /\ comp = {}

\* Whenever the process dies or gives up, the ledger file names every row it
\* created that is still there, the rows of the step under way excepted, and
\* marks none of them compensated; a flushing importer has no such exception.
LedgerCoversDestination ==
  outcome # "success" =>
    \A e \in Landed :
      \/ e \in disk.saved \ disk.comp
      \/ /\ e[1] = step
         /\ phase \in {"rows", "raising", "raised", "crashed"}
         /\ phase = "rows" => step \notin Flushing

\* The run deletes no row it did not create: one that leaves the destination
\* was deleted by another client.
ForeignNeverDeleted ==
  [][\A e \in Entities : dest[e] = "foreign" /\ dest'[e] = "absent" => outside' # outside]_vars

\* A parent is deleted only after every child this run knows of was deleted or
\* could not be.
ChildrenTriedFirst ==
  [][\A p \in Entities :
       dest[p] = "ours" /\ dest'[p] = "absent" /\ outside' = outside =>
         \A e \in Landed : Parent[e] = p /\ e # p => e \in residue]_vars

\* A restore that began comes to an end.
RestoreSettles == phase = "listing" ~> phase \in Ended

\* What a restore says is so: a preview changed nothing, "rolled back" left
\* nothing of the run behind and "success" left nothing out (compute_outcome
\* and run_rollback, over well-formed states).
OutcomeIsHonest == TypeOK /\ PreviewIsPure /\ RolledBackMeansGone /\ SuccessIsComplete

\* How the rollback deletes: only what the run created, children first.
RollbackDiscipline == ForeignNeverDeleted /\ ChildrenTriedFirst
=============================================================================
