CONSTANTS
    AUDUSD = AUDUSD
    USDJPY = USDJPY
    FXCM = FXCM
    IDEALPRO = IDEALPRO
    AUD = AUD
    USD = USD
    JPY = JPY
    None = None
    Registrations <- MCRegistrations
    Symbols = {AUDUSD, USDJPY}
    Instruments <- MCInstruments
    QuoteTicks <- MCQuoteTicks
    TradeTicks <- MCTradeTicks
    BarTypes = {}
    Bars = {}
    MaxTicks = 3
    MaxBatch = 1
    Prec = 3
    Venues = {FXCM, IDEALPRO}
    FillModels = {{"BUY", "SELL"}, {"BUY"}}
    OnEvent <- MCOnEvent

SPECIFICATION Spec

INVARIANT TypeOK
INVARIANT PositionIdPolicy
INVARIANT OrdersFollowDispatch
 

\* dispose() is final: a disposed engine takes no further step.
CHECK_DEADLOCK FALSE
