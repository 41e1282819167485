\* Violation run: LoggingNeverPanics, with two loggers constructed from two
\* goroutines (no relabelling).
CONSTANTS
    g = g
    l1 = l1
    l2 = l2
    Loggers <- MCLoggers
    GLogger = g
    LabelLens = {1, 2}
    Levels = {0, 1, 2}
    Verbosity = 1
    MaxRelabels = 0
SPECIFICATION Spec
\* Every logger may go quiet.
CHECK_DEADLOCK FALSE
INVARIANT
    LoggingNeverPanics
