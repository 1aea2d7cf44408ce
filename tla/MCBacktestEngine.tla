-------------------------- MODULE MCBacktestEngine --------------------------
(***************************************************************************)
(* The engine and two venues for TLC: a quote source of AUD/USD, a quote   *)
(* source of USD/JPY and a trade source, registered in every order; a      *)
(* strategy that trades AUD/USD twice and USD/JPY once at FXCM, USD/JPY    *)
(* once at IDEALPRO, and ignores the trade; either OMS type at either      *)
(* venue; a fill model that fills everything and one that fills buys only. *)
(***************************************************************************)
EXTENDS BacktestEngine

CONSTANTS AUDUSD, USDJPY, FXCM, IDEALPRO, AUD, USD, JPY

QA1 == [symbol |-> AUDUSD, bid |-> 1, ask |-> 2, prec |-> 0, ts |-> 1]
QA2 == [symbol |-> AUDUSD, bid |-> 2, ask |-> 3, prec |-> 0, ts |-> 2]
QJ1 == [symbol |-> USDJPY, bid |-> 5, ask |-> 6, prec |-> 0, ts |-> 1]
QJ2 == [symbol |-> USDJPY, bid |-> 6, ask |-> 7, prec |-> 0, ts |-> 3]
TJ1 == [symbol |-> USDJPY, price |-> 6, prec |-> 0, ts |-> 2]

Ev(ts, kind, data) == [ts |-> ts, kind |-> kind, bar_type |-> None, data |-> data]

MCRegistrations ==
    SetToSeqs({<<Ev(1, "quote", QA1), Ev(2, "quote", QA2)>>,
               <<Ev(1, "quote", QJ1), Ev(3, "quote", QJ2)>>,
               <<Ev(2, "trade", TJ1)>>})

MCQuoteTicks == {QA1, QA2, QJ1, QJ2}
MCTradeTicks == {TJ1}
MCInstruments == {[symbol |-> AUDUSD, venue |-> FXCM, base |-> AUD, quote |-> USD],
                  [symbol |-> USDJPY, venue |-> FXCM, base |-> USD, quote |-> JPY]}

Order(v, s, side) == [venue |-> v, symbol |-> s, side |-> side]

MCOnEvent(e) ==
    CASE e.data = QA1 -> Order(FXCM, AUDUSD, "BUY")
      [] e.data = QA2 -> Order(FXCM, AUDUSD, "SELL")
      [] e.data = QJ1 -> Order(FXCM, USDJPY, "BUY")
      [] e.data = QJ2 -> Order(IDEALPRO, USDJPY, "SELL")
      [] OTHER -> None

-----------------------------------------------------------------------------

\* Spec section 3: two fills at the same venue share a position id exactly
\* when that venue nets and they are fills of the same symbol; under
\* HEDGING every fill has its own id, and no id spans two symbols.
PositionIdPolicy ==
    \A i, j \in 1..Len(fills) :
        (i # j /\ fills[i].venue = fills[j].venue) =>
            ((fills[i].position_id = fills[j].position_id) <=>
                (oms_type[fills[i].venue] = "NETTING" /\ fills[i].symbol = fills[j].symbol))

\* Spec 4.3 and 5: the orders the venues decided since the last reset are
\* exactly the strategy's orders on the events dispatched since then, in
\* dispatch order: no event's order is lost to a cancellation, none is
\* applied twice, and reset() clears the venues together with the replay.
OrdersFollowDispatch ==
    LET sent == SelectSeq(dispatched, LAMBDA e : OnEvent(e) # None)
    IN [i \in 1..Len(decided) |-> decided[i].order] = [i \in 1..Len(sent) |-> OnEvent(sent[i])]

=============================================================================
