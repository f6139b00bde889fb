\* Two months without a change of the clocks, runs of up to a slot that begin
\* up to a slot late; and the settings of MCSchedule.
SPECIFICATION MCSpec
CONSTANTS
  LastDay = 61
  FirstWeekday = 4
  MonthLengths <- CalendarMonths
  FallBack <- NoChange
  Spring <- NoChange
  Schedules <- CalendarSchedules
  MaxRunLength = 1
  MaxDelay = 1
  MaxEdits = 0
INVARIANTS FirstOccurrence 
CHECK_DEADLOCK FALSE
