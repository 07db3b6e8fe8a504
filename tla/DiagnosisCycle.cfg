\* One case with two runs; two cycles a run (the default is six), one without progress (two).
SPECIFICATION FairSpec
CONSTANTS
    Processes = 2
    MaxCycles = 2
    NoProgressLimit = 1
    MaxRun = 2
    MaxRequest = 1
INVARIANTS
    TypeOK
    OneExecutor
    
PROPERTIES
    Concludes
\* The case rests when every run and job is over.
CHECK_DEADLOCK FALSE
