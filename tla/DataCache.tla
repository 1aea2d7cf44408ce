------------------------------ MODULE DataCache ------------------------------
(***************************************************************************)
(* The in-memory market data cache (spec section 4.1; its behaviour is     *)
(* pinned by tests/unit_tests/data/test_data_cache.py).  Each key keeps    *)
(* its records newest first: a record is prepended, index 0 is the most    *)
(* recent one, and a record equal to the current newest one is not        *)
(* stored again.  A bulk add is the single add applied to each item in     *)
(* list order.  Instruments are written once per symbol.  Prices are       *)
(* fixed-point [m |-> mantissa, prec |-> digits]; exchange rates are       *)
(* Python Decimals, rationals <<num, den>> rounded to Prec significant     *)
(* digits by every division.                                              *)
(***************************************************************************)
EXTENDS Integers, Sequences, SequencesExt

CONSTANTS
    Symbols,        \* instrument symbols
    Instruments,    \* [symbol, venue, base, quote, ...] records
    QuoteTicks,     \* [symbol, bid, ask, prec, ...] records
    TradeTicks,     \* [symbol, price, prec, ...] records
    BarTypes,       \* bar types
    Bars,           \* bars (compared by equality only)
    None,           \* "absent"
    MaxTicks,       \* bound: longest stored sequence per key
    MaxBatch,       \* bound: longest list passed to a bulk add
    Prec            \* decimal context precision (28 in Python)

VARIABLES
    instruments,    \* instruments[s]: the instrument of symbol s, or None
    quote_ticks,    \* quote_ticks[s]: quote ticks of s, newest first
    trade_ticks,    \* trade_ticks[s]: trade ticks of s, newest first
    bars            \* bars[bt]: bars of bar type bt, newest first

vars == <<instruments, quote_ticks, trade_ticks, bars>>

TypeOK ==
    /\ instruments \in [Symbols -> Instruments \cup {None}]
    /\ \A s \in Symbols : instruments[s] # None => instruments[s].symbol = s
    /\ quote_ticks \in [Symbols -> BoundedSeq(QuoteTicks, MaxTicks)]
    /\ trade_ticks \in [Symbols -> BoundedSeq(TradeTicks, MaxTicks)]
    /\ bars \in [BarTypes -> BoundedSeq(Bars, MaxTicks)]

-----------------------------------------------------------------------------
(* Storage *)

InsertNewest(seq, x) ==
    IF seq # <<>> /\ Head(seq) = x THEN seq ELSE <<x>> \o seq

\* One tick stored under its own symbol.
StoreTick(store, t) ==
    [store EXCEPT ![t.symbol] = InsertNewest(@, t)]

\* The stores stay within the model's bound.
WithinBound(store) == \A k \in DOMAIN store : Len(store[k]) <= MaxTicks

Init ==
    /\ instruments = [s \in Symbols |-> None]
    /\ quote_ticks = [s \in Symbols |-> <<>>]
    /\ trade_ticks = [s \in Symbols |-> <<>>]
    /\ bars = [bt \in BarTypes |-> <<>>]

\* A known symbol keeps its instrument: re-adding is a no-op.
add_instrument(instrument) ==
    /\ instruments' = IF instruments[instrument.symbol] = None
                      THEN [instruments EXCEPT ![instrument.symbol] = instrument]
                      ELSE instruments
    /\ UNCHANGED <<quote_ticks, trade_ticks, bars>>

add_quote_tick(tick) ==
    /\ quote_ticks' = StoreTick(quote_ticks, tick)
    /\ WithinBound(quote_ticks')
    /\ UNCHANGED <<instruments, trade_ticks, bars>>

add_quote_ticks(ticks) ==
    /\ quote_ticks' = FoldLeft(StoreTick, quote_ticks, ticks)
    /\ WithinBound(quote_ticks')
    /\ UNCHANGED <<instruments, trade_ticks, bars>>

\* Variant of add_trade_tick that stores into the quote tick store, a
\* copy-paste slip (for mutation analysis).
add_trade_tickIntoQuoteStore(tick) ==
    /\ trade_ticks' = StoreTick(quote_ticks, tick)
    /\ WithinBound(trade_ticks')
    /\ UNCHANGED <<instruments, quote_ticks, bars>>

add_trade_tick(tick) ==
    /\ trade_ticks' = StoreTick(trade_ticks, tick)
    /\ WithinBound(trade_ticks')
    /\ UNCHANGED <<instruments, quote_ticks, bars>>

add_trade_ticks(ticks) ==
    /\ trade_ticks' = FoldLeft(StoreTick, trade_ticks, ticks)
    /\ WithinBound(trade_ticks')
    /\ UNCHANGED <<instruments, quote_ticks, bars>>

add_bar(bar_type, bar) ==
    /\ bars' = [bars EXCEPT ![bar_type] = InsertNewest(@, bar)]
    /\ WithinBound(bars')
    /\ UNCHANGED <<instruments, quote_ticks, trade_ticks>>

add_bars(bar_type, bar_list) ==
    /\ bars' = [bars EXCEPT ![bar_type] = FoldLeft(InsertNewest, @, bar_list)]
    /\ WithinBound(bars')
    /\ UNCHANGED <<instruments, quote_ticks, trade_ticks>>

reset ==
    /\ instruments' = [s \in Symbols |-> None]
    /\ quote_ticks' = [s \in Symbols |-> <<>>]
    /\ trade_ticks' = [s \in Symbols |-> <<>>]
    /\ bars' = [bt \in BarTypes |-> <<>>]

Next ==
    \/ \E i \in Instruments : add_instrument(i)
    \/ \E t \in QuoteTicks : add_quote_tick(t)
    \/ \E ts \in BoundedSeq(QuoteTicks, MaxBatch) : add_quote_ticks(ts)
    \/ \E t \in TradeTicks : add_trade_tick(t)
    \/ \E ts \in BoundedSeq(TradeTicks, MaxBatch) : add_trade_ticks(ts)
    \/ \E bt \in BarTypes, b \in Bars : add_bar(bt, b)
    \/ \E bt \in BarTypes, bs \in BoundedSeq(Bars, MaxBatch) : add_bars(bt, bs)
    \/ reset

Spec == Init /\ [][Next]_vars

-----------------------------------------------------------------------------
(* Queries: an unknown key or an index past the end is "absent", never an *)
(* error.                                                                  *)

At(seq, index) == IF index < Len(seq) THEN seq[index + 1] ELSE None

instrument(symbol) == instruments[symbol]

quote_tick(symbol, index) == At(quote_ticks[symbol], index)

trade_tick(symbol, index) == At(trade_ticks[symbol], index)

bar(bar_type, index) == At(bars[bar_type], index)

\* BID and ASK from the newest quote, MID its average at one more digit of
\* precision, LAST from the newest trade; never LAST from a quote or a
\* quote price from a trade.
price(symbol, price_type) ==
    LET q == quote_tick(symbol, 0)
        t == trade_tick(symbol, 0)
    IN CASE price_type = "LAST" -> IF t = None THEN None
                                  ELSE [m |-> t.price, prec |-> t.prec]
         [] q = None -> None
         [] price_type = "BID" -> [m |-> q.bid, prec |-> q.prec]
         [] price_type = "ASK" -> [m |-> q.ask, prec |-> q.prec]
         [] price_type = "MID" -> [m |-> (q.bid + q.ask) * 5, prec |-> q.prec + 1]

-----------------------------------------------------------------------------
(* Decimal arithmetic: n / d rounded half-even to Prec significant digits. *)

Pow10(e) == 10 ^ e

RoundHalfEven(n, d) ==
    LET q == n \div d
        r == n % d
    IN IF 2 * r > d \/ (2 * r = d /\ q % 2 = 1) THEN q + 1 ELSE q

\* Number of decimal digits of n > 0.
RECURSIVE Digits(_)
Digits(n) == IF n < 10 THEN 1 ELSE 1 + Digits(n \div 10)

\* The exponent e with 10^(Prec-1) <= (n/d) * 10^e < 10^Prec, for n, d > 0:
\* n/d has Digits(n) - Digits(d) or one more digits before the point.
SigExponent(n, d) ==
    LET e0 == Prec - Digits(n) + Digits(d)
    IN CHOOSE e \in {e0 - 1, e0} :
        LET sn == IF e >= 0 THEN n * Pow10(e) ELSE n
            sd == IF e >= 0 THEN d ELSE d * Pow10(-e)
        IN Pow10(Prec - 1) * sd <= sn /\ sn < Pow10(Prec) * sd

DecimalDiv(n, d) ==
    LET e == SigExponent(n, d)
        q == IF e >= 0 THEN RoundHalfEven(n * Pow10(e), d)
                       ELSE RoundHalfEven(n, d * Pow10(-e))
    IN IF e >= 0 THEN <<q, Pow10(e)>> ELSE <<q * Pow10(-e), 1>>

\* Variant of QuoteMid that takes a mid price already rounded to the
\* quote's own precision (for mutation analysis).
QuoteMidAtTickPrecision(s) ==
    LET q == quote_tick(s, 0)
    IN <<RoundHalfEven(q.bid + q.ask, 2), Pow10(q.prec)>>

\* The mid of the newest quote of symbol s as a Decimal: (bid + ask) / 2.
QuoteMid(s) ==
    LET q == quote_tick(s, 0)
    IN DecimalDiv(q.bid + q.ask, 2 * Pow10(q.prec))

\* The rate from one currency to another at a venue: 1 for the same
\* currency, the mid of a direct pair, the inverse of the mid of the
\* inverse pair, or None when no pair with a quote is known.
get_xrate(venue, from_currency, to_currency) ==
    LET known == {instruments[s] : s \in Symbols} \ {None}
        Pair(b, q) == {i \in known : i.venue = venue /\ i.base = b /\ i.quote = q
                                     /\ quote_ticks[i.symbol] # <<>>}
    IN IF from_currency = to_currency THEN <<1, 1>>
       ELSE IF Pair(from_currency, to_currency) # {}
       THEN QuoteMid((CHOOSE i \in Pair(from_currency, to_currency) : TRUE).symbol)
       ELSE IF Pair(to_currency, from_currency) # {}
       THEN LET mid == QuoteMid((CHOOSE i \in Pair(to_currency, from_currency) : TRUE).symbol)
            IN DecimalDiv(mid[2], mid[1])
       ELSE None

=============================================================================
