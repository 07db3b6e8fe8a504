SPECIFICATION FairSpec
CONSTANTS
    Session = {s1}
    MaxStart = 1
    MaxUpset = 1
    MaxRetry = 1
CHECK_DEADLOCK FALSE
PROPERTIES
    ListeningEnds
    CleanupEnds
