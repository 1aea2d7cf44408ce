---------------------------- MODULE BacktestEngine ----------------------------
(***************************************************************************)
(* The backtest engine with its venues (spec 4.3 and 5): the replay of     *)
(* module ReplayEngine, whose run loop, for every event it dispatches,     *)
(* forwards the strategy's resulting order to the simulated venue it is    *)
(* for (module SimulatedExchange), synchronously and within the same       *)
(* event, so that a cancellation between events never leaves a fill       *)
(* half applied.  reset() restores the cache, the iteration counter and    *)
(* all venue state together; change_fill_model may come between any two   *)
(* events of a run or between runs.  The strategy is the constant          *)
(* OnEvent: the order an event makes it send, or None.                     *)
(***************************************************************************)
EXTENDS Integers, Sequences, SequencesExt

CONSTANTS
    Registrations, Symbols, Instruments, QuoteTicks, TradeTicks, BarTypes,
    Bars, None, MaxTicks, MaxBatch, Prec,   \* the replay's and the cache's parameters
    Venues, FillModels,                     \* the venues' parameters
    OnEvent(_)      \* the strategy: the order it sends on an event, or None

VARIABLES
    sources, engine_state, cursor, iteration, dispatched,   \* the replay
    instruments, quote_ticks, trade_ticks, bars,            \* the data cache
    oms_type, fill_model, next_id, netting_id, fills, decided,  \* the venues
    last_run        \* <<decided, fills>> of the last run that reached the end, or None (history only)

Engine == INSTANCE ReplayEngine
Venue == INSTANCE SimulatedExchange

engine_vars == <<sources, engine_state, cursor, iteration, dispatched,
                 instruments, quote_ticks, trade_ticks, bars>>
venue_vars == <<oms_type, fill_model, next_id, netting_id, fills, decided>>
vars == <<engine_vars, venue_vars, last_run>>

TypeOK == Engine!TypeOK /\ Venue!TypeOK

Init ==
    /\ Engine!Init
    /\ Venue!Init
    /\ last_run = None

run ==
    /\ Engine!run
    /\ UNCHANGED <<venue_vars, last_run>>

\* One iteration of the run loop: the event is stored and dispatched, and
\* the order the strategy sends on it is processed by its venue.
Step ==
    /\ Engine!Step
    /\ LET o == OnEvent(Last(dispatched'))
       IN IF o = None THEN UNCHANGED venue_vars ELSE Venue!ProcessOrder(o)
    /\ UNCHANGED last_run

Finish ==
    /\ Engine!Finish
    /\ last_run' = <<decided, fills>>
    /\ UNCHANGED venue_vars

Interrupt ==
    /\ Engine!Interrupt
    /\ UNCHANGED <<venue_vars, last_run>>

change_fill_model(v, model) ==
    /\ engine_state # "Disposed"
    /\ Venue!change_fill_model(v, model)
    /\ UNCHANGED <<engine_vars, last_run>>

\* Variant of reset that restores the replay and the cache but not the
\* venues (for mutation analysis).
resetEngineOnly ==
    /\ Engine!reset
    /\ UNCHANGED <<venue_vars, last_run>>

reset ==
    /\ Engine!reset
    /\ Venue!reset
    /\ UNCHANGED last_run

dispose ==
    /\ Engine!dispose
    /\ UNCHANGED <<venue_vars, last_run>>

Next ==
    \/ run \/ Step \/ Finish \/ Interrupt \/ reset \/ dispose
    \/ \E v \in Venues, m \in FillModels : change_fill_model(v, m)

\* The run loop is synchronous (spec 5); nothing forces a caller to run,
\* cancel, reset, dispose or swap a fill model.
Spec == Init /\ [][Next]_vars /\ WF_vars(Step) /\ WF_vars(Finish)

=============================================================================
