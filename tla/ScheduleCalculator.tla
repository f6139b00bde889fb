-------------------------- MODULE ScheduleCalculator --------------------------
(***************************************************************************)
(* When a task schedule runs next: backend/schedule_calculator.py, and the *)
(* three moments it is called at -- the schedule is saved, the schedule is *)
(* edited, a scheduled run has ended.                                      *)
(*                                                                         *)
(* Time is counted in slots, SlotsPerDay to a day.  now is UTC.  A local   *)
(* time is a day, a slot of that day and Python's fold; a fall-back day    *)
(* shows the slots of Shifted twice, the second time with fold 1, and a    *)
(* spring-forward day does not show them at all.  Days of the week count   *)
(* from Sunday = 0 as in the schedules; ISO weeks begin on Monday.         *)
(* calculate_next_run is never given a week_parity, so a biweekly schedule *)
(* always finds itself in its own week.                                    *)
(***************************************************************************)
EXTENDS Integers, Sequences, FiniteSets

CONSTANTS
    LastDay,         \* days are 0..LastDay; now stops there
    FirstWeekday,    \* the day of the week of day 0
    MonthLengths,    \* the lengths of the months from day 0 on
    FallBack, Spring,\* the days of the clock changes, -1 for none
    Schedules,       \* [kind, time, days, dom, every]
    MaxRunLength,    \* slots a run may last
    MaxDelay,        \* slots a due run may wait for the engine
    MaxEdits

SlotsPerDay == 6
Shifted == {1, 2}
Never == -1

ASSUME ScheduleAssumption ==
    /\ LastDay \in Nat /\ FirstWeekday \in 0..6
    /\ FallBack \in Int /\ Spring \in Int /\ MaxRunLength \in Nat
    /\ MaxDelay \in Nat /\ MaxEdits \in Nat
    /\ \A s \in Schedules :
         /\ s.kind \in {"interval", "daily", "weekly", "biweekly", "monthly"}
         /\ s.time \in 0..(SlotsPerDay - 1) /\ s.days \subseteq 0..6
         /\ s.dom \in 1..31 \cup {-1} /\ s.every \in Nat \ {0}

VARIABLES
    schedule,
    now,
    next,       \* next_run_at
    last,       \* last_run_at, Never before the first run
    started,    \* when the run in progress began, Never when none is
    fired,      \* the instants the last two runs began at (history)
    fresh,      \* next was computed at this instant (history)
    edits

vars == <<schedule, now, next, last, started, fired, fresh, edits>>

-----------------------------------------------------------------------------
(* The calendar and the time zone (Python's datetime and zoneinfo).        *)
Weekday(d) == (d + FirstWeekday) % 7
IsoWeek(d) == (d + FirstWeekday + 6) \div 7

Gained(d) == (IF FallBack \in 0..(d - 1) THEN 2 ELSE 0)
                - (IF Spring \in 0..(d - 1) THEN 2 ELSE 0)

(* astimezone(UTC): in the repeated slots fold decides, in the skipped ones*)
(* the offset before the change is used.                                   *)
Utc(d, slot, fold) ==
    SlotsPerDay * d + Gained(d) + slot
      + (IF d = FallBack /\ (slot > 2 \/ (slot \in Shifted /\ fold = 1))
         THEN 2 ELSE 0)
      - (IF d = Spring /\ slot > 2 THEN 2 ELSE 0)

Shown(d, slot, fold) ==
    /\ d = Spring => slot \notin Shifted
    /\ fold = 1 => d = FallBack /\ slot \in Shifted

Horizon == Utc(LastDay, SlotsPerDay - 1, 1)

(* astimezone of a UTC instant. *)
Local(u) ==
    CHOOSE l \in [day : (u \div SlotsPerDay - 1)..(u \div SlotsPerDay + 1),
                  slot : 0..(SlotsPerDay - 1), fold : {0, 1}] :
        Shown(l.day, l.slot, l.fold) /\ Utc(l.day, l.slot, l.fold) = u

MonthStart ==
    [m \in 1..(Len(MonthLengths) + 1) |->
        LET add[i \in 0..Len(MonthLengths)] ==
              IF i = 0 THEN 0 ELSE add[i - 1] + MonthLengths[i]
        IN  add[m - 1]]

MonthOf(d) == CHOOSE m \in 1..Len(MonthLengths) :
                 d \in MonthStart[m]..(MonthStart[m + 1] - 1)

-----------------------------------------------------------------------------
(* Wall-clock comparison: two local times with the same tzinfo compare     *)
(* without their fold.                                                     *)
WallPassed(d, slot, l) == d < l.day \/ (d = l.day /\ slot <= l.slot)

(* _calculate_interval_next_run.                                           *)
IntervalNextAtOnce(s, lastRun, t) ==
    IF lastRun # Never THEN lastRun + s.every ELSE t

IntervalNext(s, lastRun, t) ==
    IF lastRun # Never /\ lastRun + s.every > t
    THEN lastRun + s.every ELSE t + s.every

(* _calculate_daily_next_run: today's time keeps the fold of now, adding a *)
(* day drops it.                                                           *)
DailyNext(s, l) ==
    IF WallPassed(l.day, s.time, l)
    THEN Utc(l.day + 1, s.time, 0) ELSE Utc(l.day, s.time, l.fold)

(* The candidates of the weekly and biweekly loops: the days ahead of each *)
(* of the schedule's days, today's left out when its time has passed.      *)
DaysAhead(s, l) ==
    {n \in {(d - Weekday(l.day)) % 7 : d \in s.days} :
        ~(n = 0 /\ WallPassed(l.day, s.time, l))}

Least(S) == CHOOSE n \in S : \A k \in S : n <= k

(* _calculate_weekly_next_run.                                             *)
WeeklyNext(s, l) ==
    LET ahead == IF DaysAhead(s, l) # {} THEN Least(DaysAhead(s, l)) ELSE 7
    IN  Utc(l.day + ahead, s.time, 0)

(* _calculate_biweekly_next_run, in its own week.                          *)
BiweeklyNextWeek(s, l) ==
    LET ahead == IF DaysAhead(s, l) # {} THEN Least(DaysAhead(s, l))
                 ELSE 7 - Weekday(l.day) + Least(s.days)
    IN  Utc(l.day + ahead, s.time, 0)

BiweeklyNext(s, l) ==
    LET ahead == IF DaysAhead(s, l) # {} THEN Least(DaysAhead(s, l))
                 ELSE 7 - Weekday(l.day) + 7 + Least(s.days)
    IN  Utc(l.day + ahead, s.time, 0)

(* get_actual_day: the last day of a month too short for the schedule.     *)
OverlongActualDay(s, m) ==
    MonthStart[m] + (IF s.dom = -1 THEN MonthLengths[m] ELSE s.dom) - 1

ActualDay(s, m) ==
    MonthStart[m] + (IF s.dom = -1 \/ s.dom > MonthLengths[m]
                     THEN MonthLengths[m] ELSE s.dom) - 1

(* _calculate_monthly_next_run: replace keeps the fold of now.             *)
MonthlyNext(s, l) ==
    LET m == MonthOf(l.day)
        d == IF WallPassed(ActualDay(s, m), s.time, l)
             THEN ActualDay(s, m + 1) ELSE ActualDay(s, m)
    IN  Utc(d, s.time, l.fold)

(* calculate_next_run.                                                     *)
CalculateNextRun(s, lastRun, t) ==
    CASE s.kind = "interval" -> IntervalNext(s, lastRun, t)
      [] s.kind = "daily"    -> DailyNext(s, Local(t))
      [] s.kind = "weekly"   -> WeeklyNext(s, Local(t))
      [] s.kind = "biweekly" -> BiweeklyNext(s, Local(t))
      [] s.kind = "monthly"  -> MonthlyNext(s, Local(t))

-----------------------------------------------------------------------------
(* The schedule is saved, at any moment of the first weeks.                *)
Init ==
    /\ schedule \in Schedules
    /\ now \in 0..Horizon
    /\ next = CalculateNextRun(schedule, Never, now)
    /\ last = Never /\ started = Never /\ fired = {}
    /\ fresh = TRUE /\ edits = 0

TimePasses ==
    /\ now < Horizon /\ now' = now + 1
    /\ IF started = Never THEN now - next < MaxDelay
       ELSE now - started < MaxRunLength
    /\ fresh' = FALSE
    /\ UNCHANGED <<schedule, next, last, started, fired, edits>>

(* _check_and_run_due_tasks.                                               *)
RunUndue ==
    /\ started = Never
    /\ started' = now /\ fired' = {now}
    /\ UNCHANGED <<schedule, now, next, last, fresh, edits>>

RunDue ==
    /\ started = Never /\ next <= now
    /\ started' = now
    /\ fired' = {now} \cup {t \in fired : \A u \in fired : u <= t}
    /\ UNCHANGED <<schedule, now, next, last, fresh, edits>>

(* _run_task_with_schedules after the run: last_run_at and next_run_at.    *)
RunEndsWithoutAdvance ==
    /\ started # Never
    /\ last' = now /\ next' = next
    /\ fresh' = TRUE /\ started' = Never
    /\ UNCHANGED <<schedule, now, fired, edits>>

RunEnds ==
    /\ started # Never
    /\ last' = now /\ next' = CalculateNextRun(schedule, now, now)
    /\ fresh' = TRUE /\ started' = Never
    /\ UNCHANGED <<schedule, now, fired, edits>>

(* PATCH of the schedule: next_run_at is computed anew, without last_run.  *)
Edit ==
    /\ edits < MaxEdits /\ edits' = edits + 1
    /\ started = Never
    /\ next' = CalculateNextRun(schedule, Never, now) /\ fresh' = TRUE
    /\ UNCHANGED <<schedule, now, last, started, fired>>

Next == TimePasses \/ RunDue \/ RunEnds \/ Edit

Spec == Init /\ [][Next]_vars

-----------------------------------------------------------------------------
(* Type correctness; a run in progress was due when it began.              *)
TypeOK ==
    /\ schedule \in Schedules /\ now \in 0..Horizon /\ next \in Int
    /\ last \in 0..Horizon \cup {Never} /\ started \in 0..Horizon \cup {Never}
    /\ fired \subseteq 0..Horizon /\ fresh \in BOOLEAN
    /\ started # Never => next <= started

(***************************************************************************)
(* The reference: the local days a schedule is for.                        *)
(***************************************************************************)
Meant(s, d) ==
    CASE s.kind = "daily"   -> TRUE
      [] s.kind = "weekly"  -> Weekday(d) \in s.days
      [] s.kind = "monthly" ->
           LET m == MonthOf(d)
               n == d - MonthStart[m] + 1
           IN  \/ n = s.dom
               \/ n = MonthLengths[m] /\ (s.dom = -1 \/ s.dom > n)

(***************************************************************************)
(* next_run_at is the first instant after the moment of the computation    *)
(* whose local day the schedule is for and whose local time is the         *)
(* schedule's: no occurrence is skipped, none is in the past.              *)
(***************************************************************************)
NextIsEarliest ==
    fresh /\ schedule.kind \in {"daily", "weekly", "monthly"} =>
        next = Least({u \in {Utc(d, schedule.time, 0) : d \in
                               {e \in Local(now).day..(Local(now).day + 31) :
                                   Meant(schedule, e)}} : u > now})

(***************************************************************************)
(* A schedule of daily or weekly runs that start on time runs at most once *)
(* per local day, however long its runs take and whenever it is edited,    *)
(* over a night in which the clocks go forward too.                        *)
(***************************************************************************)
OncePerDay ==
    schedule.kind # "interval" =>
        \A t, u \in fired : t # u => Local(t).day # Local(u).day

(***************************************************************************)
(* The runs of an interval schedule are at least the interval apart,       *)
(* however long they take.                                                 *)
(***************************************************************************)
IntervalKept ==
    schedule.kind = "interval" =>
        \A t, u \in fired : t < u => u - t >= schedule.every

(***************************************************************************)
(* A biweekly schedule runs every other week: never in two weeks that      *)
(* follow each other.                                                      *)
(***************************************************************************)
EveryOtherWeek ==
    schedule.kind = "biweekly" =>
        \A t, u \in fired :
            IsoWeek(Local(u).day) # IsoWeek(Local(t).day) + 1

=============================================================================
