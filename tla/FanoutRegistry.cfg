\* Three polls of two sessions, one held per session: trims, sweeps and
\* session ends overlap. Everything ends when the names are used up.
SPECIFICATION FairSpec
CONSTANTS
    Tasks = {1, 2, 3}
    Sessions = {a, b}
    NoSession = NoSession
    MaxPerSession = 1
    TaskTTL = 0
CHECK_DEADLOCK FALSE
INVARIANTS
    IndexesAgree
    OnlyIdleTasksEscape
PROPERTIES
    NewestSurvives
    EndedSessionIsSwept
