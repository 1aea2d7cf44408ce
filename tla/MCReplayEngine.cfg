CONSTANTS
    USDJPY = USDJPY
    FXCM = FXCM
    USD = USD
    JPY = JPY
    BT_BID = BT_BID
    BT_ASK = BT_ASK
    B1 = B1
    B2 = B2
    A1 = A1
    A2 = A2
    None = None
    Registrations <- MCRegistrations
    Symbols = {USDJPY}
    Instruments <- MCInstruments
    QuoteTicks <- MCQuoteTicks
    TradeTicks <- MCTradeTicks
    BarTypes = {BT_BID, BT_ASK}
    Bars = {B1, B2, A1, A2}
    MaxTicks = 3
    MaxBatch = 1
    Prec = 3

SPECIFICATION Spec

INVARIANT TypeOK
INVARIANT CacheShowsLatest
 
PROPERTY RunTerminates

\* dispose() is final: a disposed engine takes no further step.
CHECK_DEADLOCK FALSE
