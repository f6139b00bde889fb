------------------------------- MODULE MCSchedule -------------------------------
(***************************************************************************)
(* Five settings of ScheduleCalculator: two months of daily, weekly and    *)
(* monthly schedules (the configuration's), the two nights in which the    *)
(* clocks change, intervals under delays, and biweekly schedules.          *)
(***************************************************************************)
EXTENDS ScheduleCalculator

VARIABLE setting

Sched(kind, time, days, dom, every) ==
    [kind |-> kind, time |-> time, days |-> days, dom |-> dom, every |-> every]

NoChange == -1
CalendarMonths == <<31, 28, 31, 30>>

\* Every set of one or two days, and the ends of the month.
CalendarSchedules ==
    {Sched("daily", t, {}, 1, 1) : t \in {0, 2}}
      \cup {Sched("weekly", t, D, 1, 1) : t \in {0, 2}, D \in
               {{d, e} : d \in {0, 3, 6}, e \in 0..6}}
      \cup {Sched("monthly", t, {}, m, 1) : t \in {0, 5}, m \in {1, 15, 30, 31, -1}}

\* Each time of the day around the change of day 3; runs start on time.
Clock ==
    INSTANCE ScheduleCalculator WITH
      LastDay <- 8, FirstWeekday <- 5, Spring <- 3,
      Schedules <- {Sched("daily", t, {}, 1, 1) : t \in 0..5}
                     \cup {Sched("weekly", t, {0, 3}, 1, 1) : t \in 0..5},
      MaxRunLength <- 3, MaxDelay <- 0, MaxEdits <- 1

\* The clocks go back on day 3; times of the day that are not shown twice.
Back ==
    INSTANCE ScheduleCalculator WITH
      LastDay <- 8, FirstWeekday <- 5, FallBack <- 3,
      Schedules <- {Sched("daily", t, {}, 1, 1) : t \in (0..5) \ Shifted}
                     \cup {Sched("weekly", t, {0, 3}, 1, 1) : t \in (0..5) \ Shifted},
      MaxRunLength <- 3, MaxDelay <- 0, MaxEdits <- 1

\* Runs that wait for the engine and last longer than their interval.
Interval ==
    INSTANCE ScheduleCalculator WITH
      LastDay <- 8, FirstWeekday <- 5,
      Schedules <- {Sched("interval", 0, {}, 1, n) : n \in {1, 3, 4}},
      MaxRunLength <- 3, MaxDelay <- 2, MaxEdits <- 1

\* One day a week, with runs that end on the day they begin.
Biweekly ==
    INSTANCE ScheduleCalculator WITH
      LastDay <- 31, FirstWeekday <- 2,
      Schedules <- {Sched("biweekly", t, {d}, 1, 1) : t \in {0, 5}, d \in 0..6},
      MaxRunLength <- 0, MaxDelay <- 0, MaxEdits <- 0

ASSUME Clock!ScheduleAssumption /\ Back!ScheduleAssumption
ASSUME Interval!ScheduleAssumption /\ Biweekly!ScheduleAssumption

MCInit ==
    \/ setting = "calendar" /\ Init
    \/ setting = "clock"    /\ Clock!Init
    \/ setting = "back"     /\ Back!Init
    \/ setting = "interval" /\ Interval!Init
    \/ setting = "biweekly" /\ Biweekly!Init

MCNext ==
    /\ \/ setting = "calendar" /\ Next
       \/ setting = "clock"    /\ Clock!Next
       \/ setting = "back"     /\ Back!Next
       \/ setting = "interval" /\ Interval!Next
       \/ setting = "biweekly" /\ Biweekly!Next
    /\ UNCHANGED setting

MCSpec == MCInit /\ [][MCNext]_<<vars, setting>>

-----------------------------------------------------------------------------
\* The variables have their types and a run in progress was due (TypeOK).
TypesOK == setting = "calendar" => TypeOK

\* next_run_at is the first occurrence after the computation (NextIsEarliest).
EarliestChosen == setting = "calendar" => NextIsEarliest

\* At most one run per local day over a spring-forward night, and over a
\* fall-back night for times that are shown once (OncePerDay).
DailyOnce == /\ setting = "clock" => Clock!OncePerDay
             /\ setting = "back"  => Back!OncePerDay

\* Interval runs are at least the interval apart (IntervalKept).
IntervalsKept == setting = "interval" => Interval!IntervalKept

\* Biweekly schedules of one day skip every second week (EveryOtherWeek).
WeeksAlternate == setting = "biweekly" => Biweekly!EveryOtherWeek

\* The computed time is the first one the schedule means, and only a run that
\* was due is in progress.
FirstOccurrence == TypesOK /\ EarliestChosen

\* Runs neither repeat nor crowd: once a day over a change of the clocks, an
\* interval apart after long and late runs, and not in two weeks that follow.
RunsApart == DailyOnce /\ IntervalsKept /\ WeeksAlternate
=================================================================================
