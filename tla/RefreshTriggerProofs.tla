------------------------- MODULE RefreshTriggerProofs -------------------------
(***************************************************************************)
(* Proofs about RefreshTrigger for every set of runs and every choice of   *)
(* the bounds.                                                             *)
(***************************************************************************)
EXTENDS RefreshTrigger, TLAPS

---------------------------------------------------------------------------
(* The inductive invariant, in parts. *)

\* Neither watermark is newer than the refreshes there were, and what was
\* consumed was refreshed before; unless a save failed, the cached object is
\* the file, also across restarts.
MarksInv ==
  /\ \A s \in {mem, disk} : s.consumedAt <= s.refreshAt /\ s.refreshAt <= clock
  /\ saveFaults = 0 => mem = disk

\* Refreshes to come have not fired, and a watermark still to be consumed has
\* not either: whoever fires for it is the first.
FiresInv ==
  /\ \A t \in 1 .. MaxRefresh : t > clock => fires[t] = 0
  /\ saveFaults = 0 =>
       /\ \A t \in 1 .. MaxRefresh : fires[t] <= 1
       /\ mem.refreshAt > mem.consumedAt => fires[mem.refreshAt] = 0

\* A run in flight has a row that says "running", and no row has two runs: the
\* end of the process leaves the row for the next start to find.
RowsInv ==
  /\ \A r \in apiLive : rows[r] = "running"
  /\ task = "running" => taskRow \in Runs \ apiLive /\ rows[taskRow] = "running"
  /\ taskRow # None => task = "running"
  /\ ~up => task = "idle" /\ apiLive = {}

\* An interrupted run is either on record in the breaker, or its row is still
\* to be abandoned, or a start is about to trip the breaker.
InterruptedInv ==
  /\ up => ~tripping
  /\ interrupted /\ Undisturbed => disk.breaker \/ (~up /\ (tripping \/ Orphaned # {}))

TriggerInv == TypeOK /\ MarksInv /\ FiresInv /\ RowsInv /\ InterruptedInv

---------------------------------------------------------------------------
\* The bounds are natural numbers.
LEMMA Bounds ==
  /\ MaxRefresh \in Nat /\ MaxStops \in Nat /\ MaxBootStops \in Nat
  /\ MaxSaveFaults \in Nat /\ MaxSwitches \in Nat /\ MaxFormSaves \in Nat
BY TriggerAssumption

\* save_settings of well-formed settings leaves well-formed settings, in
\* memory and in the file, whether or not the write fails.
LEMMA SaveType ==
  ASSUME TypeOK, NEW s \in Settings, Save(s)
  PROVE  mem' \in Settings /\ disk' \in Settings /\ saveFaults' \in 0 .. MaxSaveFaults
BY Bounds DEF TypeOK, Save

\* What a save leaves in memory and in the file.
LEMMA SaveEffect ==
  ASSUME TypeOK, NEW s, Save(s)
  PROVE  /\ mem' = s /\ disk' \in {s, disk}
         /\ saveFaults' = 0 => saveFaults = 0 /\ disk' = s
BY Bounds DEF TypeOK, Save

\* Every action keeps the variables within their types.
LEMMA TypeStep == TypeOK /\ RowsInv /\ [Next]_vars => TypeOK'
<1> SUFFICES ASSUME TypeOK, RowsInv, [Next]_vars PROVE TypeOK'
  OBVIOUS
<1> USE Bounds DEF TypeOK, Statuses, RowsInv, setVars, runVars, swVars, procVars
<1>1. CASE AdvanceRefreshWatermark
  <2>1. clock + 1 \in 0 .. MaxRefresh
    BY <1>1 DEF AdvanceRefreshWatermark
  <2>2. [mem EXCEPT !.refreshAt = clock + 1] \in Settings
    BY <2>1 DEF Settings
  <2> QED BY <1>1, <2>1, <2>2, SaveType DEF AdvanceRefreshWatermark
<1>2. CASE TaskFire
  <2>1. [mem EXCEPT !.consumedAt = mem.refreshAt] \in Settings
    BY <1>2 DEF TaskFire, Settings
  <2>2. fires' \in [1 .. MaxRefresh -> Nat]
    BY <1>2 DEF TaskFire, Settings
  <2> QED BY <1>2, <2>1, <2>2, SaveType DEF TaskFire
<1>3. CASE TaskRunEndsEarly
  BY <1>3 DEF TaskRunEndsEarly
<1>4. CASE TaskRunOpens
  BY <1>4 DEF TaskRunOpens
<1>5. CASE TaskRunFinishes
  BY <1>5 DEF TaskRunFinishes
<1>6. CASE TaskRunRaises
  BY <1>6 DEF TaskRunRaises
<1>7. ASSUME NEW r \in Runs, ApiRunStarts(r) PROVE TypeOK'
  BY <1>7 DEF ApiRunStarts
<1>8. ASSUME NEW r \in Runs, ApiRunFinishes(r) PROVE TypeOK'
  BY <1>8 DEF ApiRunFinishes
<1>9. ASSUME NEW r \in Runs, ApiRunRaises(r) PROVE TypeOK'
  BY <1>9 DEF ApiRunRaises, MarkFailed
<1>10. CASE ResetCircuitBreaker
  <2>1. [mem EXCEPT !.breaker = FALSE] \in Settings
    BY DEF Settings
  <2> QED BY <1>10, <2>1, SaveType DEF ResetCircuitBreaker
<1>11. CASE SaveSettingsForm
  <2>1. RebuiltSettings \in Settings
    BY DEF RebuiltSettings, Defaults, Settings
  <2> QED BY <1>11, <2>1 DEF SaveSettingsForm
<1>12. CASE FlipEnabled
  BY <1>12 DEF FlipEnabled
<1>13. CASE FlipEligible
  BY <1>13 DEF FlipEligible
<1>14. CASE Crash
  <2>1. interrupted' \in BOOLEAN
    BY <1>14, Zenon DEF Crash, Ends
  <2>2. rows' \in [Runs -> Statuses]
    BY <1>14 DEF Crash, Ends, MarkFailed
  <2>3. stops' \in 0 .. MaxStops
    BY <1>14 DEF Crash, Ends
  <2> QED BY <1>14, <2>1, <2>2, <2>3 DEF Crash, Ends
<1>15. CASE Shutdown
  <2>1. interrupted' \in BOOLEAN
    BY <1>15, Zenon DEF Shutdown, Ends
  <2>2. rows' \in [Runs -> Statuses]
    BY <1>15 DEF Shutdown, Ends, MarkFailed
  <2>3. stops' \in 0 .. MaxStops
    BY <1>15 DEF Shutdown, Ends
  <2> QED BY <1>15, <2>1, <2>2, <2>3 DEF Shutdown, Ends
<1>16. CASE AbandonOrphans
  BY <1>16 DEF AbandonOrphans, Orphaned
<1>17. CASE TripBreaker
  <2>1. [mem EXCEPT !.breaker = TRUE] \in Settings
    BY DEF Settings
  <2> QED BY <1>17, <2>1, SaveType DEF TripBreaker
<1>18. CASE BootStops
  <2>1. bootStops' \in 0 .. MaxBootStops
    BY <1>18 DEF BootStops
  <2> QED BY <1>18, <2>1 DEF BootStops
<1>19. CASE UNCHANGED vars
  BY <1>19 DEF vars
<1> QED BY <1>1, <1>2, <1>3, <1>4, <1>5, <1>6, <1>7, <1>8, <1>9, <1>10, <1>11, <1>12, <1>13, <1>14, <1>15, <1>16, <1>17, <1>18, <1>19 DEF Next

\* The watermarks stay in order, in memory and in the file.
LEMMA MarksStep == TypeOK /\ MarksInv /\ [Next]_vars => MarksInv'
<1> SUFFICES ASSUME TypeOK, MarksInv, [Next]_vars PROVE MarksInv'
  OBVIOUS
<1> USE Bounds DEF TypeOK, Settings, MarksInv, setVars, runVars, swVars, procVars
<1>1. CASE AdvanceRefreshWatermark
  <2> DEFINE s == [mem EXCEPT !.refreshAt = clock + 1]
  <2>1. s.refreshAt = clock + 1 /\ s.consumedAt = mem.consumedAt /\ s.breaker = mem.breaker
    BY DEF Settings
  <2>2. Save(s)
    BY <1>1 DEF AdvanceRefreshWatermark
  <2>3. /\ mem' = s /\ disk' \in {s, disk}
        /\ saveFaults' = 0 => saveFaults = 0 /\ disk' = s
    BY <2>2, SaveEffect
  <2> HIDE DEF s
  <2> QED BY <1>1, <2>1, <2>3 DEF AdvanceRefreshWatermark, RunOnRefreshSuppressed
<1>2. CASE TaskFire
  <2> DEFINE s == [mem EXCEPT !.consumedAt = mem.refreshAt]
  <2>1. s.consumedAt = mem.refreshAt /\ s.refreshAt = mem.refreshAt /\ s.breaker = mem.breaker
    BY DEF Settings
  <2>2. Save(s)
    BY <1>2 DEF TaskFire
  <2>3. /\ mem' = s /\ disk' \in {s, disk}
        /\ saveFaults' = 0 => saveFaults = 0 /\ disk' = s
    BY <2>2, SaveEffect
  <2> HIDE DEF s
  <2> QED BY <1>2, <2>1, <2>3 DEF TaskFire, RunOnRefreshSuppressed
<1>3. CASE TaskRunEndsEarly
  BY <1>3 DEF TaskRunEndsEarly
<1>4. CASE TaskRunOpens
  BY <1>4 DEF TaskRunOpens
<1>5. CASE TaskRunFinishes
  BY <1>5 DEF TaskRunFinishes
<1>6. CASE TaskRunRaises
  BY <1>6 DEF TaskRunRaises
<1>7. ASSUME NEW r \in Runs, ApiRunStarts(r) PROVE MarksInv'
  BY <1>7 DEF ApiRunStarts
<1>8. ASSUME NEW r \in Runs, ApiRunFinishes(r) PROVE MarksInv'
  BY <1>8 DEF ApiRunFinishes
<1>9. ASSUME NEW r \in Runs, ApiRunRaises(r) PROVE MarksInv'
  BY <1>9 DEF ApiRunRaises, MarkFailed
<1>10. CASE ResetCircuitBreaker
  <2> DEFINE s == [mem EXCEPT !.breaker = FALSE]
  <2>1. s.breaker = FALSE /\ s.refreshAt = mem.refreshAt /\ s.consumedAt = mem.consumedAt
    BY DEF Settings
  <2>2. Save(s)
    BY <1>10 DEF ResetCircuitBreaker
  <2>3. /\ mem' = s /\ disk' \in {s, disk}
        /\ saveFaults' = 0 => saveFaults = 0 /\ disk' = s
    BY <2>2, SaveEffect
  <2> HIDE DEF s
  <2> QED BY <1>10, <2>1, <2>3 DEF ResetCircuitBreaker, RunOnRefreshSuppressed
<1>11. CASE SaveSettingsForm
  BY <1>11 DEF SaveSettingsForm, RebuiltSettings, Defaults
<1>12. CASE FlipEnabled
  BY <1>12 DEF FlipEnabled
<1>13. CASE FlipEligible
  BY <1>13 DEF FlipEligible
<1>14. CASE Crash
  BY <1>14 DEF Crash, Ends, MarkFailed
<1>15. CASE Shutdown
  BY <1>15 DEF Shutdown, Ends, MarkFailed
<1>16. CASE AbandonOrphans
  BY <1>16 DEF AbandonOrphans, Orphaned
<1>17. CASE TripBreaker
  <2> DEFINE s == [mem EXCEPT !.breaker = TRUE]
  <2>1. s.breaker = TRUE /\ s.refreshAt = mem.refreshAt /\ s.consumedAt = mem.consumedAt
    BY DEF Settings
  <2>2. Save(s)
    BY <1>17 DEF TripBreaker
  <2>3. /\ mem' = s /\ disk' \in {s, disk}
        /\ saveFaults' = 0 => saveFaults = 0 /\ disk' = s
    BY <2>2, SaveEffect
  <2> HIDE DEF s
  <2> QED BY <1>17, <2>1, <2>3 DEF TripBreaker, RunOnRefreshSuppressed
<1>18. CASE BootStops
  BY <1>18 DEF BootStops
<1>19. CASE UNCHANGED vars
  BY <1>19 DEF vars
<1> QED BY <1>1, <1>2, <1>3, <1>4, <1>5, <1>6, <1>7, <1>8, <1>9, <1>10, <1>11, <1>12, <1>13, <1>14, <1>15, <1>16, <1>17, <1>18, <1>19 DEF Next

\* A refresh is consumed as it fires, so none fires twice.
LEMMA FiresStep == TypeOK /\ MarksInv /\ FiresInv /\ [Next]_vars => FiresInv'
<1> SUFFICES ASSUME TypeOK, MarksInv, FiresInv, [Next]_vars PROVE FiresInv'
  OBVIOUS
<1> USE Bounds DEF TypeOK, Settings, MarksInv, FiresInv, setVars, runVars, swVars, procVars
<1>1. CASE AdvanceRefreshWatermark
  <2> DEFINE s == [mem EXCEPT !.refreshAt = clock + 1]
  <2>1. s.refreshAt = clock + 1 /\ s.consumedAt = mem.consumedAt /\ s.breaker = mem.breaker
    BY DEF Settings
  <2>2. Save(s)
    BY <1>1 DEF AdvanceRefreshWatermark
  <2>3. /\ mem' = s /\ disk' \in {s, disk}
        /\ saveFaults' = 0 => saveFaults = 0 /\ disk' = s
    BY <2>2, SaveEffect
  <2> HIDE DEF s
  <2> QED BY <1>1, <2>1, <2>3 DEF AdvanceRefreshWatermark, RunOnRefreshSuppressed
<1>2. CASE TaskFire
  <2> DEFINE s == [mem EXCEPT !.consumedAt = mem.refreshAt]
  <2>1. s.consumedAt = mem.refreshAt /\ s.refreshAt = mem.refreshAt /\ s.breaker = mem.breaker
    BY DEF Settings
  <2>2. Save(s)
    BY <1>2 DEF TaskFire
  <2>3. /\ mem' = s /\ disk' \in {s, disk}
        /\ saveFaults' = 0 => saveFaults = 0 /\ disk' = s
    BY <2>2, SaveEffect
  <2>4. mem.refreshAt \in 1 .. MaxRefresh /\ mem.refreshAt <= clock
    BY <1>2 DEF TaskFire
  <2>5. fires' = [fires EXCEPT ![mem.refreshAt] = fires[mem.refreshAt] + 1] /\ clock' = clock
    BY <1>2 DEF TaskFire
  <2>6. saveFaults = 0 => fires[mem.refreshAt] = 0
    BY <1>2 DEF TaskFire
  <2> HIDE DEF s
  <2> QED BY <2>1, <2>3, <2>4, <2>5, <2>6
<1>3. CASE TaskRunEndsEarly
  BY <1>3 DEF TaskRunEndsEarly
<1>4. CASE TaskRunOpens
  BY <1>4 DEF TaskRunOpens
<1>5. CASE TaskRunFinishes
  BY <1>5 DEF TaskRunFinishes
<1>6. CASE TaskRunRaises
  BY <1>6 DEF TaskRunRaises
<1>7. ASSUME NEW r \in Runs, ApiRunStarts(r) PROVE FiresInv'
  BY <1>7 DEF ApiRunStarts
<1>8. ASSUME NEW r \in Runs, ApiRunFinishes(r) PROVE FiresInv'
  BY <1>8 DEF ApiRunFinishes
<1>9. ASSUME NEW r \in Runs, ApiRunRaises(r) PROVE FiresInv'
  BY <1>9 DEF ApiRunRaises, MarkFailed
<1>10. CASE ResetCircuitBreaker
  <2> DEFINE s == [mem EXCEPT !.breaker = FALSE]
  <2>1. s.breaker = FALSE /\ s.refreshAt = mem.refreshAt /\ s.consumedAt = mem.consumedAt
    BY DEF Settings
  <2>2. Save(s)
    BY <1>10 DEF ResetCircuitBreaker
  <2>3. /\ mem' = s /\ disk' \in {s, disk}
        /\ saveFaults' = 0 => saveFaults = 0 /\ disk' = s
    BY <2>2, SaveEffect
  <2> HIDE DEF s
  <2> QED BY <1>10, <2>1, <2>3 DEF ResetCircuitBreaker, RunOnRefreshSuppressed
<1>11. CASE SaveSettingsForm
  BY <1>11 DEF SaveSettingsForm, RebuiltSettings, Defaults
<1>12. CASE FlipEnabled
  BY <1>12 DEF FlipEnabled
<1>13. CASE FlipEligible
  BY <1>13 DEF FlipEligible
<1>14. CASE Crash
  BY <1>14 DEF Crash, Ends, MarkFailed
<1>15. CASE Shutdown
  BY <1>15 DEF Shutdown, Ends, MarkFailed
<1>16. CASE AbandonOrphans
  BY <1>16 DEF AbandonOrphans, Orphaned
<1>17. CASE TripBreaker
  <2> DEFINE s == [mem EXCEPT !.breaker = TRUE]
  <2>1. s.breaker = TRUE /\ s.refreshAt = mem.refreshAt /\ s.consumedAt = mem.consumedAt
    BY DEF Settings
  <2>2. Save(s)
    BY <1>17 DEF TripBreaker
  <2>3. /\ mem' = s /\ disk' \in {s, disk}
        /\ saveFaults' = 0 => saveFaults = 0 /\ disk' = s
    BY <2>2, SaveEffect
  <2> HIDE DEF s
  <2> QED BY <1>17, <2>1, <2>3 DEF TripBreaker, RunOnRefreshSuppressed
<1>18. CASE BootStops
  BY <1>18 DEF BootStops
<1>19. CASE UNCHANGED vars
  BY <1>19 DEF vars
<1> QED BY <1>1, <1>2, <1>3, <1>4, <1>5, <1>6, <1>7, <1>8, <1>9, <1>10, <1>11, <1>12, <1>13, <1>14, <1>15, <1>16, <1>17, <1>18, <1>19 DEF Next

\* Rows of runs in flight stay open until the run, its supervisor or the end of
\* the process lets go of them.
LEMMA RowsStep == TypeOK /\ RowsInv /\ [Next]_vars => RowsInv'
<1> SUFFICES ASSUME TypeOK, RowsInv, [Next]_vars PROVE RowsInv'
  OBVIOUS
<1> USE Bounds DEF TypeOK, Statuses, RowsInv, None, setVars, runVars, swVars, procVars
<1>1. CASE AdvanceRefreshWatermark
  BY <1>1 DEF AdvanceRefreshWatermark
<1>2. CASE TaskFire
  BY <1>2 DEF TaskFire, RunOnRefreshSuppressed
<1>3. CASE TaskRunEndsEarly
  BY <1>3 DEF TaskRunEndsEarly
<1>4. CASE TaskRunOpens
  BY <1>4 DEF TaskRunOpens
<1>5. CASE TaskRunFinishes
  BY <1>5 DEF TaskRunFinishes
<1>6. CASE TaskRunRaises
  BY <1>6 DEF TaskRunRaises
<1>7. ASSUME NEW r \in Runs, ApiRunStarts(r) PROVE RowsInv'
  BY <1>7 DEF ApiRunStarts
<1>8. ASSUME NEW r \in Runs, ApiRunFinishes(r) PROVE RowsInv'
  BY <1>8 DEF ApiRunFinishes
<1>9. ASSUME NEW r \in Runs, ApiRunRaises(r) PROVE RowsInv'
  BY <1>9 DEF ApiRunRaises, MarkFailed
<1>10. CASE ResetCircuitBreaker
  BY <1>10 DEF ResetCircuitBreaker
<1>11. CASE SaveSettingsForm
  BY <1>11 DEF SaveSettingsForm, RebuiltSettings, Defaults
<1>12. CASE FlipEnabled
  BY <1>12 DEF FlipEnabled
<1>13. CASE FlipEligible
  BY <1>13 DEF FlipEligible
<1>14. CASE Crash
  BY <1>14 DEF Crash, Ends, MarkFailed
<1>15. CASE Shutdown
  BY <1>15 DEF Shutdown, Ends, MarkFailed
<1>16. CASE AbandonOrphans
  BY <1>16 DEF AbandonOrphans, Orphaned
<1>17. CASE TripBreaker
  BY <1>17 DEF TripBreaker
<1>18. CASE BootStops
  BY <1>18 DEF BootStops
<1>19. CASE UNCHANGED vars
  BY <1>19 DEF vars
<1> QED BY <1>1, <1>2, <1>3, <1>4, <1>5, <1>6, <1>7, <1>8, <1>9, <1>10, <1>11, <1>12, <1>13, <1>14, <1>15, <1>16, <1>17, <1>18, <1>19 DEF Next

\* An interrupted run stays on record, in its row or in the breaker.
LEMMA InterruptedStep == TypeOK /\ MarksInv /\ RowsInv /\ InterruptedInv /\ [Next]_vars => InterruptedInv'
<1> SUFFICES ASSUME TypeOK, MarksInv, RowsInv, InterruptedInv, [Next]_vars PROVE InterruptedInv'
  OBVIOUS
<1> USE Bounds DEF TypeOK, Settings, MarksInv, RowsInv, InterruptedInv, Undisturbed, Orphaned, InFlight, setVars, runVars, swVars, procVars
<1>1. CASE AdvanceRefreshWatermark
  <2> DEFINE s == [mem EXCEPT !.refreshAt = clock + 1]
  <2>1. s.refreshAt = clock + 1 /\ s.consumedAt = mem.consumedAt /\ s.breaker = mem.breaker
    BY DEF Settings
  <2>2. Save(s)
    BY <1>1 DEF AdvanceRefreshWatermark
  <2>3. /\ mem' = s /\ disk' \in {s, disk}
        /\ saveFaults' = 0 => saveFaults = 0 /\ disk' = s
    BY <2>2, SaveEffect
  <2> HIDE DEF s
  <2> QED BY <1>1, <2>1, <2>3 DEF AdvanceRefreshWatermark, RunOnRefreshSuppressed
<1>2. CASE TaskFire
  <2> DEFINE s == [mem EXCEPT !.consumedAt = mem.refreshAt]
  <2>1. s.consumedAt = mem.refreshAt /\ s.refreshAt = mem.refreshAt /\ s.breaker = mem.breaker
    BY DEF Settings
  <2>2. Save(s)
    BY <1>2 DEF TaskFire
  <2>3. /\ mem' = s /\ disk' \in {s, disk}
        /\ saveFaults' = 0 => saveFaults = 0 /\ disk' = s
    BY <2>2, SaveEffect
  <2> HIDE DEF s
  <2> QED BY <1>2, <2>1, <2>3 DEF TaskFire, RunOnRefreshSuppressed
<1>3. CASE TaskRunEndsEarly
  BY <1>3 DEF TaskRunEndsEarly
<1>4. CASE TaskRunOpens
  BY <1>4 DEF TaskRunOpens
<1>5. CASE TaskRunFinishes
  BY <1>5 DEF TaskRunFinishes
<1>6. CASE TaskRunRaises
  BY <1>6 DEF TaskRunRaises
<1>7. ASSUME NEW r \in Runs, ApiRunStarts(r) PROVE InterruptedInv'
  BY <1>7 DEF ApiRunStarts
<1>8. ASSUME NEW r \in Runs, ApiRunFinishes(r) PROVE InterruptedInv'
  BY <1>8 DEF ApiRunFinishes
<1>9. ASSUME NEW r \in Runs, ApiRunRaises(r) PROVE InterruptedInv'
  BY <1>9 DEF ApiRunRaises, MarkFailed
<1>10. CASE ResetCircuitBreaker
  <2> DEFINE s == [mem EXCEPT !.breaker = FALSE]
  <2>1. s.breaker = FALSE /\ s.refreshAt = mem.refreshAt /\ s.consumedAt = mem.consumedAt
    BY DEF Settings
  <2>2. Save(s)
    BY <1>10 DEF ResetCircuitBreaker
  <2>3. /\ mem' = s /\ disk' \in {s, disk}
        /\ saveFaults' = 0 => saveFaults = 0 /\ disk' = s
    BY <2>2, SaveEffect
  <2> HIDE DEF s
  <2> QED BY <1>10, <2>1, <2>3 DEF ResetCircuitBreaker, RunOnRefreshSuppressed
<1>11. CASE SaveSettingsForm
  BY <1>11 DEF SaveSettingsForm, RebuiltSettings, Defaults
<1>12. CASE FlipEnabled
  BY <1>12 DEF FlipEnabled
<1>13. CASE FlipEligible
  BY <1>13 DEF FlipEligible
<1>14. CASE Crash
  BY <1>14 DEF Crash, Ends, MarkFailed
<1>15. CASE Shutdown
  BY <1>15 DEF Shutdown, Ends, MarkFailed
<1>16. CASE AbandonOrphans
  <2>1. up' = ~tripping' /\ tripping' \in BOOLEAN
    BY <1>16, Zenon DEF AbandonOrphans
  <2> QED BY <1>16, <2>1 DEF AbandonOrphans
<1>17. CASE TripBreaker
  <2> DEFINE s == [mem EXCEPT !.breaker = TRUE]
  <2>1. s.breaker = TRUE /\ s.refreshAt = mem.refreshAt /\ s.consumedAt = mem.consumedAt
    BY DEF Settings
  <2>2. Save(s)
    BY <1>17 DEF TripBreaker
  <2>3. /\ mem' = s /\ disk' \in {s, disk}
        /\ saveFaults' = 0 => saveFaults = 0 /\ disk' = s
    BY <2>2, SaveEffect
  <2> HIDE DEF s
  <2> QED BY <1>17, <2>1, <2>3 DEF TripBreaker, RunOnRefreshSuppressed
<1>18. CASE BootStops
  BY <1>18 DEF BootStops
<1>19. CASE UNCHANGED vars
  BY <1>19 DEF vars
<1> QED BY <1>1, <1>2, <1>3, <1>4, <1>5, <1>6, <1>7, <1>8, <1>9, <1>10, <1>11, <1>12, <1>13, <1>14, <1>15, <1>16, <1>17, <1>18, <1>19 DEF Next

---------------------------------------------------------------------------
\* The inductive invariant of the refresh trigger.
THEOREM TriggerCorrect == Spec => []TriggerInv
<1>1. Init => TriggerInv
  <2> SUFFICES ASSUME Init PROVE TriggerInv
    OBVIOUS
  <2>1. TypeOK
    <3>1. Defaults \in Settings
      BY Bounds DEF Defaults, Settings
    <3>2. {enabled, eligible, up, tripping, interrupted} \subseteq BOOLEAN
      BY Zenon DEF Init
    <3> QED BY <3>1, <3>2, Bounds DEF Init, TypeOK, Statuses
  <2>2. MarksInv /\ FiresInv
    BY Bounds DEF Init, MarksInv, FiresInv, Defaults
  <2>3. RowsInv /\ InterruptedInv
    BY DEF Init, RowsInv, InterruptedInv, None
  <2> QED BY <2>1, <2>2, <2>3 DEF TriggerInv
<1>2. TriggerInv /\ [Next]_vars => TriggerInv'
  BY TypeStep, MarksStep, FiresStep, RowsStep, InterruptedStep DEF TriggerInv
<1> QED BY <1>1, <1>2, PTL DEF Spec

\* However often the task ticks and the process dies and starts again, a
\* refresh fires at most one unattended run unless a save of the settings
\* failed, and the consumed watermark is never ahead (execute and
\* advance_refresh_watermark).
THEOREM WatermarksCorrect == Spec => []WatermarksInOrder
<1>1. TriggerInv => WatermarksInOrder
  BY DEF TriggerInv, WatermarksInOrder, OneRunPerRefresh, NeverAhead, MarksInv, FiresInv
<1> QED BY <1>1, TriggerCorrect, PTL

\* A run cut short leaves the breaker up until the operator resets it, and
\* while it is up the task fires for no refresh.
THEOREM BreakerCorrect == Spec => BreakerGuards
<1>1. TriggerInv => BreakerHeld
  BY DEF TriggerInv, BreakerHeld, InterruptedInv, MarksInv, Undisturbed
<1>2. TriggerInv /\ [Next]_vars => [Undisturbed /\ interrupted => fires' = fires]_vars
  <2> SUFFICES ASSUME TriggerInv, [Next]_vars, Undisturbed, interrupted PROVE fires' = fires
    OBVIOUS
  <2>1. ~TaskFire
    BY <1>1 DEF TaskFire, RunOnRefreshSuppressed, BreakerHeld
  <2> QED BY <2>1 DEF Next, vars, AdvanceRefreshWatermark, TaskRunEndsEarly, TaskRunOpens,
       TaskRunFinishes, TaskRunRaises, ApiRunStarts, ApiRunFinishes, ApiRunRaises,
       ResetCircuitBreaker, SaveSettingsForm, FlipEnabled, FlipEligible, Crash, Shutdown,
       Ends, AbandonOrphans, TripBreaker, BootStops
<1> QED BY <1>1, <1>2, TriggerCorrect, PTL DEF Spec, BreakerGuards, NoFireWhileInterrupted
=============================================================================
