---------------------------- MODULE MCDataCache ----------------------------
(***************************************************************************)
(* Model of the data cache for TLC: two FX symbols at one venue, an       *)
(* instrument with two conflicting versions for AUD/USD, two quote ticks  *)
(* per symbol, two trade ticks and two bars, the cache shown to implement *)
(* the chronological log of CacheLog.                                     *)
(***************************************************************************)
EXTENDS DataCache

\* Symbols, venue and currencies (model values in the .cfg).
CONSTANTS AUDUSD, USDJPY, FXCM, AUD, USD, JPY, B1, B2, BT1

MCSymbols == {AUDUSD, USDJPY}

\* add_instrument may see a second, conflicting instrument for AUD/USD.
MCInstruments ==
    { [symbol |-> AUDUSD, venue |-> FXCM, base |-> AUD, quote |-> USD, version |-> v]
        : v \in {1, 2} }
    \cup
    { [symbol |-> USDJPY, venue |-> FXCM, base |-> USD, quote |-> JPY, version |-> 1] }

\* Prices with few digits so that every mid fits the precision and only an
\* inversion exceeds it; the mid 0.85 is not a price of precision 1.
MCQuoteTicks ==
    { [symbol |-> AUDUSD, bid |-> 8, ask |-> 9, prec |-> 1],
      [symbol |-> AUDUSD, bid |-> 7, ask |-> 9, prec |-> 1],
      [symbol |-> USDJPY, bid |-> 2, ask |-> 4, prec |-> 0],
      [symbol |-> USDJPY, bid |-> 2, ask |-> 2, prec |-> 0] }

MCTradeTicks ==
    { [symbol |-> AUDUSD, price |-> p, prec |-> 1] : p \in {8, 9} }

MCBars == {B1, B2}

MCBarTypes == {BT1}

-----------------------------------------------------------------------------
(* Refinement: the newest-first stores, read oldest first, are the logs   *)
(* of CacheLog; the instruments are its registry.                          *)

LogKeys ==
    {<<"quote", s>> : s \in MCSymbols} \cup {<<"trade", s>> : s \in MCSymbols}
    \cup {<<"bar", bt>> : bt \in MCBarTypes}

StoreOf(k) ==
    CASE k[1] = "quote" -> quote_ticks[k[2]]
      [] k[1] = "trade" -> trade_ticks[k[2]]
      [] k[1] = "bar"   -> bars[k[2]]

Log == INSTANCE CacheLog
         WITH Keys <- LogKeys, Names <- MCSymbols,
              Values <- MCInstruments,
              logs <- [k \in LogKeys |-> Reverse(StoreOf(k))],
              registry <- instruments

XRateFromBidAsk ==
    \A s \in MCSymbols :
        (instruments[s] # None /\ quote_ticks[s] # <<>>) =>
            LET q == quote_tick(s, 0)
                i == instruments[s]
                direct == get_xrate(FXCM, i.base, i.quote)
            IN /\ direct[1] * 2 * Pow10(q.prec) = direct[2] * (q.bid + q.ask)
               /\ get_xrate(FXCM, i.quote, i.base) = DecimalDiv(2 * Pow10(q.prec), q.bid + q.ask)

=============================================================================
