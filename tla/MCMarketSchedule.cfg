\* Two-day weeks of four slots, with edits and overrides as the calendar goes on.
SPECIFICATION ScheduleSpec
CONSTANTS
  DayLength = 4
  SearchDays = 1
  WeekLength = 2
  LastDay = 3
  MaxOverrides = 2
  Unset = Unset
INVARIANTS NextIsFirst CurrentIsLastSeen
CHECK_DEADLOCK FALSE
