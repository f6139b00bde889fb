----------------------------- MODULE RefreshTrigger -----------------------------
(***************************************************************************)
(* How an M3U refresh becomes a channel pipeline run.                      *)
(*                                                                         *)
(* A refresh advances a watermark in the settings; the pipeline task ticks *)
(* and fires when the watermark is newer than the one it last consumed.    *)
(* Each run has a row in the execution history.  A start of the process    *)
(* abandons the rows still "running" and trips a circuit breaker, kept in  *)
(* the settings too, that keeps the task from firing until the operator    *)
(* resets it.                                                              *)
(*                                                                         *)
(* Settings exist twice: the object get_settings caches, which callers     *)
(* change in place, and the file save_settings writes; saving may fail.    *)
(* A timestamp is the number of the refresh it stands for, 0 the empty     *)
(* string of a setting that was never written.                             *)
(***************************************************************************)
EXTENDS Integers, FiniteSets

CONSTANTS
  Runs,           \* execution ids
  MaxRefresh,     \* bound: refreshes
  MaxStops,       \* bound: times the process ends
  MaxBootStops,   \* bound: starts that end half-way
  MaxSaveFaults,  \* bound: saves of the settings that fail
  MaxSwitches,    \* bound: changes of the task's and the rules' switches
  MaxFormSaves    \* bound: saves of the settings form

ASSUME TriggerAssumption ==
  /\ IsFiniteSet(Runs)
  /\ {MaxRefresh, MaxStops, MaxBootStops, MaxSaveFaults, MaxSwitches, MaxFormSaves} \subseteq Nat

VARIABLES
  mem,       \* the cached settings object
  disk,      \* settings.json
  clock,     \* refreshes completed so far
  task,      \* ChannelPipelineTask: "idle", "fired", or with an open row
  rows,      \* ChannelPipelineExecution.status by id
  taskRow,   \* the row of the task's run, while there is one
  apiLive,   \* rows whose supervised background run is in flight
  enabled,   \* the task's enabled switch
  eligible,  \* some enabled run_on_refresh rule is in its date window
  up,        \* the process: FALSE down, TRUE up
  tripping,  \* a start has abandoned rows and not yet tripped the breaker
  \* history
  fires,       \* how often the task fired for a refresh
  interrupted, \* a run was cut short and the operator has not reset since
  saveFaults, stops, bootStops, switches, formSaves

setVars  == <<mem, disk, saveFaults>>
runVars  == <<task, rows, taskRow, apiLive>>
swVars   == <<enabled, eligible, switches, formSaves>>
procVars == <<up, tripping, stops, bootStops, interrupted>>
vars == <<mem, disk, clock, task, rows, taskRow, apiLive, enabled, eligible, up, tripping,
          fires, interrupted, saveFaults, stops, bootStops, switches, formSaves>>

None     == "none"
Statuses == {"absent", "running", "finished", "failed", "abandoned"}
Settings == [refreshAt: 0 .. MaxRefresh, consumedAt: 0 .. MaxRefresh, breaker: BOOLEAN]
Defaults == [refreshAt |-> 0, consumedAt |-> 0, breaker |-> FALSE]

TypeOK ==
  /\ mem \in Settings /\ disk \in Settings
  /\ clock \in 0 .. MaxRefresh
  /\ task \in {"idle", "fired", "running"}
  /\ rows \in [Runs -> Statuses]
  /\ taskRow \in Runs \cup {None}
  /\ apiLive \subseteq Runs
  /\ {enabled, eligible, up, tripping, interrupted} \subseteq BOOLEAN
  /\ fires \in [1 .. MaxRefresh -> Nat]
  /\ saveFaults \in 0 .. MaxSaveFaults /\ stops \in 0 .. MaxStops
  /\ bootStops \in 0 .. MaxBootStops /\ switches \in 0 .. MaxSwitches
  /\ formSaves \in 0 .. MaxFormSaves

Init ==
  /\ mem = Defaults /\ disk = Defaults
  /\ clock = 0
  /\ task = "idle" /\ taskRow = None /\ apiLive = {}
  /\ rows = [r \in Runs |-> "absent"]
  /\ enabled \in BOOLEAN /\ eligible \in BOOLEAN
  /\ up = TRUE /\ tripping = FALSE
  /\ fires = [t \in 1 .. MaxRefresh |-> 0]
  /\ interrupted = FALSE
  /\ saveFaults = 0 /\ stops = 0 /\ bootStops = 0 /\ switches = 0 /\ formSaves = 0

(***************************************************************************)
(* save_settings of the cached object: the change is in memory whatever    *)
(* happens to the file.                                                    *)
(***************************************************************************)
Save(s) ==
  /\ mem' = s
  /\ \/ disk' = s /\ UNCHANGED saveFaults
     \/ saveFaults < MaxSaveFaults /\ saveFaults' = saveFaults + 1 /\ UNCHANGED disk

---------------------------------------------------------------------------
(* The refresh side. *)

\* mutant: the mark is only advanced when the task is enabled
AdvanceIfEnabled ==
  /\ up /\ clock < MaxRefresh
  /\ clock' = clock + 1
  /\ IF enabled THEN Save([mem EXCEPT !.refreshAt = clock + 1]) ELSE UNCHANGED setVars
  /\ UNCHANGED <<runVars, swVars, procVars, fires>>

AdvanceRefreshWatermark ==
  /\ up /\ clock < MaxRefresh
  /\ clock' = clock + 1
  /\ Save([mem EXCEPT !.refreshAt = clock + 1])
  /\ UNCHANGED <<runVars, swVars, procVars, fires>>

---------------------------------------------------------------------------
(* The task.  A tick that does not fire changes nothing. *)

\* mutant: the flag is read and not looked at
NeverSuppressed == FALSE

RunOnRefreshSuppressed == mem.breaker

\* mutant: the watermark is consumed after the run
NotConsumed ==
  /\ up /\ task = "idle" /\ enabled /\ ~RunOnRefreshSuppressed
  /\ mem.refreshAt > mem.consumedAt /\ eligible
  /\ task' = "fired"
  /\ fires' = [fires EXCEPT ![mem.refreshAt] = @ + 1]
  /\ UNCHANGED <<setVars, rows, taskRow, apiLive, swVars, procVars, clock>>

\* mutant: the clock is consumed, not the refresh that was read
ConsumesNow ==
  /\ up /\ task = "idle" /\ enabled /\ ~RunOnRefreshSuppressed
  /\ mem.refreshAt > mem.consumedAt /\ eligible
  /\ Save([mem EXCEPT !.consumedAt = MaxRefresh])
  /\ task' = "fired"
  /\ fires' = [fires EXCEPT ![mem.refreshAt] = @ + 1]
  /\ UNCHANGED <<rows, taskRow, apiLive, swVars, procVars, clock>>

TaskFire ==
  /\ up /\ task = "idle"
  /\ enabled
  /\ ~RunOnRefreshSuppressed
  /\ mem.refreshAt > mem.consumedAt
  /\ eligible
  /\ Save([mem EXCEPT !.consumedAt = mem.refreshAt])
  /\ task' = "fired"
  /\ fires' = [fires EXCEPT ![mem.refreshAt] = @ + 1]
  /\ UNCHANGED <<rows, taskRow, apiLive, swVars, procVars, clock>>

(* run_pipeline raises, or finds no rule, before it creates its row. *)
TaskRunEndsEarly ==
  /\ up /\ task = "fired"
  /\ task' = "idle"
  /\ UNCHANGED <<rows, taskRow, apiLive, setVars, swVars, procVars, clock, fires>>

TaskRunOpens ==
  /\ up /\ task = "fired"
  /\ \E r \in Runs :
       /\ rows[r] = "absent"
       /\ rows' = [rows EXCEPT ![r] = "running"]
       /\ taskRow' = r
  /\ task' = "running"
  /\ UNCHANGED <<apiLive, setVars, swVars, procVars, clock, fires>>

TaskRunFinishes ==
  /\ up /\ task = "running"
  /\ rows' = [rows EXCEPT ![taskRow] = "finished"]
  /\ task' = "idle" /\ taskRow' = None
  /\ UNCHANGED <<apiLive, setVars, swVars, procVars, clock, fires>>

(* _run_post_refresh_pipeline catches the exception; nobody closes the row *)
(* run_pipeline created.                                                   *)
TaskRunRaises ==
  /\ up /\ task = "running"
  /\ task' = "idle" /\ taskRow' = None
  /\ UNCHANGED <<rows, apiLive, setVars, swVars, procVars, clock, fires>>

---------------------------------------------------------------------------
(* Runs started over the API: the row is created first, and a supervisor   *)
(* closes it when the run raises.                                          *)

ApiRunStarts(r) ==
  /\ up /\ rows[r] = "absent"
  /\ rows' = [rows EXCEPT ![r] = "running"]
  /\ apiLive' = apiLive \cup {r}
  /\ UNCHANGED <<task, taskRow, setVars, swVars, procVars, clock, fires>>

\* mutant: a status outside the vocabulary of the history
MarkError(f, S) == [r \in Runs |-> IF r \in S /\ f[r] = "running" THEN "error" ELSE f[r]]

\* mutant: the row is left as it is
LeaveRow(f, S) == f

MarkFailed(f, S) == [r \in Runs |-> IF r \in S /\ f[r] = "running" THEN "failed" ELSE f[r]]

ApiRunFinishes(r) ==
  /\ up /\ r \in apiLive
  /\ rows' = [rows EXCEPT ![r] = "finished"]
  /\ apiLive' = apiLive \ {r}
  /\ UNCHANGED <<task, taskRow, setVars, swVars, procVars, clock, fires>>

ApiRunRaises(r) ==
  /\ up /\ r \in apiLive
  /\ rows' = MarkFailed(rows, {r})
  /\ apiLive' = apiLive \ {r}
  /\ UNCHANGED <<task, taskRow, setVars, swVars, procVars, clock, fires>>

---------------------------------------------------------------------------
(* The operator. *)

ResetCircuitBreaker ==
  /\ up
  /\ mem.breaker
  /\ Save([mem EXCEPT !.breaker = FALSE])
  /\ interrupted' = FALSE
  /\ UNCHANGED <<runVars, swVars, up, tripping, stops, bootStops, clock, fires>>

(* POST /api/settings builds the settings anew from the form; the two      *)
(* watermarks and the breaker are not among the fields it carries over.    *)
RebuiltSettings == Defaults

SaveSettingsForm ==
  /\ up /\ formSaves < MaxFormSaves
  /\ mem # RebuiltSettings
  /\ mem' = RebuiltSettings /\ disk' = RebuiltSettings
  /\ formSaves' = formSaves + 1
  /\ UNCHANGED <<saveFaults, runVars, enabled, eligible, switches, procVars, clock, fires>>

FlipEnabled ==
  /\ up /\ switches < MaxSwitches
  /\ switches' = switches + 1
  /\ enabled' = ~enabled
  /\ UNCHANGED <<eligible, formSaves, setVars, runVars, procVars, clock, fires>>

FlipEligible ==
  /\ up /\ switches < MaxSwitches
  /\ switches' = switches + 1
  /\ eligible' = ~eligible
  /\ UNCHANGED <<enabled, formSaves, setVars, runVars, procVars, clock, fires>>

---------------------------------------------------------------------------
(* The process. *)

InFlight == apiLive \cup ({taskRow} \ {None})

Ends(closed) ==
  /\ up /\ stops < MaxStops
  /\ up' = FALSE /\ stops' = stops + 1
  /\ interrupted' = (interrupted \/ InFlight \ closed # {})
  /\ rows' = MarkFailed(rows, closed)
  /\ task' = "idle" /\ taskRow' = None /\ apiLive' = {}
  /\ UNCHANGED <<setVars, swVars, tripping, bootStops, clock, fires>>

(* A kill: nothing is closed. *)
Crash == Ends({})

(* A shutdown cancels the supervised runs, which closes their rows; the    *)
(* task's run is given 30 seconds and then dropped.                        *)
Shutdown == Ends(apiLive)

(* TaskEngine.start, before the loop is armed: the rows are abandoned and  *)
(* committed, then the breaker is tripped and saved, unless it is up       *)
(* already.  The settings are read from the file.                          *)
Orphaned == {r \in Runs : rows[r] = "running"}

AbandonOrphans ==
  /\ ~up /\ ~tripping
  /\ rows' = [r \in Runs |-> IF r \in Orphaned THEN "abandoned" ELSE rows[r]]
  /\ mem' = disk
  /\ tripping' = (Orphaned # {} /\ ~disk.breaker)
  /\ up' = ~tripping'
  /\ UNCHANGED <<disk, saveFaults, task, taskRow, apiLive, swVars, stops, bootStops,
                 interrupted, clock, fires>>

\* mutant: the breaker is set in the object and not saved
TripUnsaved ==
  /\ tripping
  /\ mem' = [mem EXCEPT !.breaker = TRUE]
  /\ tripping' = FALSE /\ up' = TRUE
  /\ UNCHANGED <<disk, saveFaults, runVars, swVars, stops, bootStops, interrupted,
                 clock, fires>>

TripBreaker ==
  /\ tripping
  /\ Save([mem EXCEPT !.breaker = TRUE])
  /\ tripping' = FALSE /\ up' = TRUE
  /\ UNCHANGED <<runVars, swVars, stops, bootStops, interrupted, clock, fires>>

(* The start is killed between the two. *)
BootStops ==
  /\ tripping /\ bootStops < MaxBootStops
  /\ tripping' = FALSE /\ bootStops' = bootStops + 1
  /\ UNCHANGED <<runVars, setVars, swVars, up, stops, interrupted, clock, fires>>

---------------------------------------------------------------------------
TaskStep == TaskFire \/ TaskRunEndsEarly \/ TaskRunOpens \/ TaskRunFinishes \/ TaskRunRaises

Next ==
  \/ AdvanceRefreshWatermark
  \/ TaskFire \/ TaskRunEndsEarly \/ TaskRunOpens \/ TaskRunFinishes \/ TaskRunRaises
  \/ \E r \in Runs : ApiRunStarts(r) \/ ApiRunFinishes(r) \/ ApiRunRaises(r)
  \/ ResetCircuitBreaker \/ SaveSettingsForm \/ FlipEnabled \/ FlipEligible
  \/ Crash \/ Shutdown \/ AbandonOrphans \/ TripBreaker \/ BootStops

(* The scheduler ticks the task, runs end, and a stopped process is        *)
(* started again; nothing is asked of refreshes, callers and operators.    *)
Fairness ==
  /\ WF_vars(TaskStep)
  /\ \A r \in Runs : WF_vars(ApiRunFinishes(r) \/ ApiRunRaises(r))
  /\ WF_vars(AbandonOrphans \/ TripBreaker)

Spec     == Init /\ [][Next]_vars
FairSpec == Spec /\ Fairness

---------------------------------------------------------------------------
(* Properties *)

(* execute consumes the watermark before it runs the pipeline: one refresh *)
(* never fires two unattended runs, whatever ticks, crashes and restarts   *)
(* come between, unless the settings could not be written.                 *)
OneRunPerRefresh == saveFaults = 0 => \A t \in 1 .. MaxRefresh : fires[t] <= 1

(* Once a run was cut short by the end of the process, the breaker is up   *)
(* whenever the process is, in memory and in the file, until the operator  *)
(* resets it: the task cannot run into the same crash again and again.     *)
(* Nothing is said once the settings could not be written, the settings    *)
(* form was saved or a start died between abandoning and tripping.         *)
Undisturbed == saveFaults = 0 /\ formSaves = 0 /\ bootStops = 0
BreakerHeld == interrupted /\ up /\ Undisturbed => mem.breaker /\ disk.breaker

(* While a run cut short is not acknowledged the task starts no new run.   *)
NoFireWhileInterrupted ==
  [][Undisturbed /\ interrupted => fires' = fires]_vars

(* The consumed watermark never runs ahead of the refresh watermark, in    *)
(* the cached object and in the file: a refresh to come is always newer.   *)
NeverAhead == \A s \in {mem, disk} : s.consumedAt <= s.refreshAt

(* A supervised run's row does not stay "running": a client polling it     *)
(* sees it end, by the run, by its supervisor or by the next start.        *)
ApiRowsSettle == \A r \in Runs : (r \in apiLive) ~> (rows[r] # "running")

(* When nothing keeps the task from running for good, the last refresh     *)
(* that completed has been consumed by a run, unless the watermark could   *)
(* not be written or the settings form overwrote it.                       *)
Armed == up /\ enabled /\ eligible /\ ~mem.breaker
LastRefreshFired == clock = 0 \/ fires[clock] > 0 \/ saveFaults > 0 \/ formSaves > 0
RefreshIsConsumed == ([]<>~Armed) \/ ([]<>LastRefreshFired)

(* The watermarks: a refresh fires at most one unattended run, and what is *)
(* consumed never runs ahead of what was refreshed, in well-formed states. *)
WatermarksInOrder == TypeOK /\ OneRunPerRefresh /\ NeverAhead

(* The breaker of run-on-refresh: it stands in memory and in the file      *)
(* after an interrupted run, and while it does nothing fires.              *)
BreakerGuards == []BreakerHeld /\ NoFireWhileInterrupted
=============================================================================
