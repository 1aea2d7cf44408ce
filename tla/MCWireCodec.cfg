CONSTANTS
    Symbols = {"AUDUSD.FXCM"}
    Mantissas = {1, 10}
    MaxPrec = 2
    Timestamps = {60}
    BarTypes = {"AUDUSD.FXCM-1-MINUTE-BID"}
    BarValues <- MCBarValues
    MaxBars = 2
    MaxMessages = 2

SPECIFICATION Spec

INVARIANT TypeOK
INVARIANT RoundTripExact
INVARIANT TornPayloadRejected

\* The writers stop after their messages and the reader after the last one.
CHECK_DEADLOCK FALSE
