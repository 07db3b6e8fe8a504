SPECIFICATION Spec
CONSTANTS
    Session = {s1}
    MaxStart = 0
    MaxUpset = 1
    MaxRetry = 0
CHECK_DEADLOCK FALSE
PROPERTIES
    TerminalStays
