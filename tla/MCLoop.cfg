SPECIFICATION MCSpec
CONSTANTS
    Owners = {"o1"}
    Fd <- MCFd
    Kinds = {"read", "write", "event", "timer", "background"}
    Delays = {0, 1}
    MaxTime = 1
    MaxSignals = 1
    MaxThreads = 2
    SessionFds = {3}
    Timeouts = {0, 1}
    MaxInputs = 1
    NoPasswordCheck = TRUE
    Advanced = FALSE
    EnablePassword = TRUE
INVARIANTS
    NothingLost
    TimersOnTime
PROPERTIES
    NoStarvation
    SessionGoneIsClosed
CHECK_DEADLOCK FALSE
