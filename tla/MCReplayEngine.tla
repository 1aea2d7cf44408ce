--------------------------- MODULE MCReplayEngine ---------------------------
(***************************************************************************)
(* The replay engine for TLC, on the data of test_backtest_engine: bid and *)
(* ask minute bars of USD/JPY with the same timestamps, with a quote       *)
(* source, a second quote source re-delivering one quote, and a trade      *)
(* source, registered with the engine in every order.                     *)
(***************************************************************************)
EXTENDS ReplayEngine

CONSTANTS USDJPY, FXCM, USD, JPY, BT_BID, BT_ASK, B1, B2, A1, A2

Q1 == [symbol |-> USDJPY, bid |-> 2, ask |-> 4, prec |-> 0, ts |-> 1]
Q2 == [symbol |-> USDJPY, bid |-> 3, ask |-> 4, prec |-> 0, ts |-> 2]
T1 == [symbol |-> USDJPY, price |-> 3, prec |-> 0, ts |-> 1]

Ev(ts, kind, bar_type, data) == [ts |-> ts, kind |-> kind, bar_type |-> bar_type, data |-> data]

BidBars == <<Ev(1, "bar", BT_BID, B1), Ev(2, "bar", BT_BID, B2)>>
AskBars == <<Ev(1, "bar", BT_ASK, A1), Ev(2, "bar", BT_ASK, A2)>>
Quotes == <<Ev(1, "quote", None, Q1), Ev(2, "quote", None, Q2)>>
Redelivered == <<Ev(2, "quote", None, Q2)>>
Trades == <<Ev(1, "trade", None, T1)>>

MCRegistrations == SetToSeqs({BidBars, AskBars, Quotes, Redelivered, Trades})

MCQuoteTicks == {Q1, Q2}
MCTradeTicks == {T1}

MCInstruments == {[symbol |-> USDJPY, venue |-> FXCM, base |-> USD, quote |-> JPY]}

-----------------------------------------------------------------------------
(* Reference: the spec's order, by a sort of all events of all sources on  *)
(* timestamp, then quotes before trades before bars, then registration     *)
(* order, then position within the source.                                 *)

KindOrder == <<"quote", "trade", "bar">>

RefKey(src, pos) ==
    <<sources[src][pos].ts,
      CHOOSE i \in 1..3 : KindOrder[i] = sources[src][pos].kind,
      src, pos>>

RefLess(a, b) ==
    \/ a[1] < b[1]
    \/ a[1] = b[1] /\ a[2] < b[2]
    \/ a[1] = b[1] /\ a[2] = b[2] /\ a[3] < b[3]
    \/ a[1] = b[1] /\ a[2] = b[2] /\ a[3] = b[3] /\ a[4] < b[4]

MergedOrder ==
    LET keys == FlattenSeq([s \in 1..Len(sources) |->
                                [p \in 1..Len(sources[s]) |-> RefKey(s, p)]])
        sorted == SortSeq(keys, RefLess)
    IN [i \in 1..Len(sorted) |-> sources[sorted[i][3]][sorted[i][4]]]

Replay == INSTANCE ReplayOrder WITH order <- MergedOrder, out <- dispatched

LastData(es) == IF es = <<>> THEN None ELSE Last(es).data

LastQuote(sym) ==
    LastData(SelectSeq(dispatched, LAMBDA e : e.kind = "quote" /\ e.data.symbol = sym))

LastBar(bt) ==
    LastData(SelectSeq(dispatched, LAMBDA e : e.kind = "bar" /\ e.bar_type = bt))

CacheShowsLatest ==
    engine_state # "Disposed" =>
        /\ \A sym \in Symbols : Cache!quote_tick(sym, 0) = LastQuote(sym)
        /\ \A bt \in BarTypes : Cache!bar(bt, 0) = LastBar(bt)

\* A run that has started eventually returns.
RunTerminates == engine_state = "Running" ~> engine_state = "Stopped"

=============================================================================
