CONSTANTS
    Period = 3
    Points = {1, 2, 4}
    MaxUpdates = 5

SPECIFICATION Spec

INVARIANT TypeOK
INVARIANT ValueIsMeanOfLastPeriod
INVARIANT InitializedIffWindowFull

\* The data stream is finite: the indicator stops once it is exhausted.
CHECK_DEADLOCK FALSE
