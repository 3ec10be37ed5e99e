SPECIFICATION SchedulerSpec
CONSTANTS
    twice = twice
    unread = unread
    Tasks = {twice, unread}
    Times <- MCTimes
    Day = 5
    MaxTouches = 8
INVARIANTS
    TimersFollowRows
PROPERTIES
    OncePerOccurrence
    KeepsRunning
