\* A day of 24 seconds in 2 hours of 3 minutes; see MCCalendar for the years.
SPECIFICATION Spec
CONSTANTS
    Walks <- Across
    Hours = 2
    Minutes = 3
    Seconds = 4
INVARIANTS
    CalendarRight
    TextReadBack
\* A walk ends.
CHECK_DEADLOCK FALSE
