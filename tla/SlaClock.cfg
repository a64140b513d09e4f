SPECIFICATION ClockSpec
CONSTANTS
  DayLength = 7
  WeekLength = 2
  MaxRounds = 9
  GapCap = 2
  Zones <- MCZones
  Schedules <- MCSchedules
  Holidays <- MCHolidays
  Starts = {0, 4, 6, 8, 14}
  Budgets = {0, 1, 3, 8, 20}
INVARIANTS
  BudgetConserved
  DueIsEarliest
  CapIsFar
CHECK_DEADLOCK FALSE
