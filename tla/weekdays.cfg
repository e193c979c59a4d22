CONSTANTS
    Every = Every
    LastDay = 27
    Shown = 3
    DayFields <- MCDayFields
    WeekFields <- MCWeekFields
SPECIFICATION CronSpec
INVARIANT RunsWhenShown
CHECK_DEADLOCK FALSE
