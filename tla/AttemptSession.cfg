SPECIFICATION Spec
CONSTANTS
    Glitch = 1
    Rebound = 1
    Stable = 1
    FlashMin = 1
    FlashMax = 2
    PostTarget = 1
    DrainTimeout = 2
    SignalStates = {"WATCHING", "TARGET_CONFIRMED"}
    HookLate = 1
    SignalLate = 0
    MaxAttempt = 2
    MaxRestart = 1
CHECK_DEADLOCK FALSE
INVARIANTS
    TypeOK
    
    TargetRanToItsEnd
    CleanupAfterLastAttempt
PROPERTIES
    TailEnds
    HangupEndsAttempt
