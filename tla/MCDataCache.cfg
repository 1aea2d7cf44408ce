CONSTANTS
    AUDUSD = AUDUSD
    USDJPY = USDJPY
    FXCM = FXCM
    AUD = AUD
    USD = USD
    JPY = JPY
    B1 = B1
    B2 = B2
    BT1 = BT1
    None = None
    Symbols <- MCSymbols
    Instruments <- MCInstruments
    QuoteTicks <- MCQuoteTicks
    TradeTicks <- MCTradeTicks
    BarTypes <- MCBarTypes
    Bars <- MCBars
    MaxTicks = 3
    MaxBatch = 2
    Prec = 3

SPECIFICATION Spec

INVARIANT TypeOK
INVARIANT XRateFromBidAsk
 
