---------------------------- MODULE ReplayEngine ----------------------------
(***************************************************************************)
(* The backtest engine's replay (spec section 4.3, pinned by               *)
(* tests/unit_tests/backtest/test_backtest_engine.py): the data sources    *)
(* registered with the engine, each ordered by timestamp, are merged into  *)
(* one event sequence; run() takes the next event of the merge, stores it  *)
(* in the data cache (module DataCache) and dispatches it to the           *)
(* strategies, one event at a time, counting iterations.  Ties on the     *)
(* timestamp go to quotes, then trades, then bars, then to the source      *)
(* registered first.  run() may be cancelled between two events; reset()  *)
(* restores the pre-run state; dispose() is final.                         *)
(***************************************************************************)
EXTENDS Integers, Sequences, SequencesExt

CONSTANTS
    Registrations,  \* the source lists (in registration order) an engine may be given
    Symbols, Instruments, QuoteTicks, TradeTicks, BarTypes, Bars, None,
    MaxTicks, MaxBatch, Prec    \* the data cache's parameters

VARIABLES
    sources,        \* the registered sources: a sequence of event sequences
    engine_state,   \* "Idle", "Running", "Stopped" or "Disposed"
    cursor,         \* cursor[src]: how many events of source src were replayed
    iteration,      \* the engine's iteration counter
    dispatched,     \* the events the strategies received since the last reset
    instruments, quote_ticks, trade_ticks, bars     \* the data cache

Cache == INSTANCE DataCache

cache_vars == <<instruments, quote_ticks, trade_ticks, bars>>
vars == <<sources, engine_state, cursor, iteration, dispatched, cache_vars>>

Events == UNION {{s[i] : i \in 1..Len(s)} : s \in UNION {{r[j] : j \in 1..Len(r)} : r \in Registrations}}

TypeOK ==
    /\ sources \in Registrations
    /\ engine_state \in {"Idle", "Running", "Stopped", "Disposed"}
    /\ cursor \in [1..Len(sources) -> Nat]
    /\ \A src \in 1..Len(sources) : cursor[src] <= Len(sources[src])
    /\ iteration \in Nat
    /\ dispatched \in Seq(Events)
    /\ Cache!TypeOK

-----------------------------------------------------------------------------
(* The merge *)

KindRank == [quote |-> 0, trade |-> 1, bar |-> 2]

\* The sort key of the pos-th event of source src.
Key(src, pos) ==
    <<sources[src][pos].ts, KindRank[sources[src][pos].kind], src, pos>>

\* Lexicographic order on keys.
Before(a, b) ==
    \E i \in 1..4 : (\A j \in 1..i - 1 : a[j] = b[j]) /\ a[i] < b[i]

\* The sources with events left.
Ready == {src \in 1..Len(sources) : cursor[src] < Len(sources[src])}

\* The source whose next event comes first.
NextSource ==
    CHOOSE src \in Ready :
        \A o \in Ready \ {src} : Before(Key(src, cursor[src] + 1), Key(o, cursor[o] + 1))

\* The cache update for one event.
StoreEvent(e) ==
    CASE e.kind = "quote" -> Cache!add_quote_tick(e.data)
      [] e.kind = "trade" -> Cache!add_trade_tick(e.data)
      [] e.kind = "bar"   -> Cache!add_bar(e.bar_type, e.data)

-----------------------------------------------------------------------------

Init ==
    /\ sources \in Registrations
    /\ engine_state = "Idle"
    /\ cursor = [src \in 1..Len(sources) |-> 0]
    /\ iteration = 0
    /\ dispatched = <<>>
    /\ Cache!Init

run ==
    /\ engine_state = "Idle"
    /\ engine_state' = "Running"
    /\ UNCHANGED <<sources, cursor, iteration, dispatched, cache_vars>>

\* Variants of Step (for mutation analysis): one whose loop condition
\* stops one event short of a source's end, one that hands the strategies
\* the event's payload rather than the event.
StepStopsShort ==
    /\ engine_state = "Running"
    /\ Ready # {}
    /\ LET src == NextSource
           e == sources[src][cursor[src] + 1]
       IN /\ cursor[src] + 1 < Len(sources[src])
          /\ StoreEvent(e)
          /\ cursor' = [cursor EXCEPT ![src] = @ + 1]
          /\ dispatched' = Append(dispatched, e)
    /\ iteration' = iteration + 1
    /\ UNCHANGED <<sources, engine_state>>

StepDispatchesPayload ==
    /\ engine_state = "Running"
    /\ Ready # {}
    /\ LET src == NextSource
           e == sources[src][cursor[src] + 1]
       IN /\ StoreEvent(e)
          /\ cursor' = [cursor EXCEPT ![src] = @ + 1]
          /\ dispatched' = Append(dispatched, e.data)
    /\ iteration' = iteration + 1
    /\ UNCHANGED <<sources, engine_state>>

\* One iteration of the run loop: the next event of the merge is stored and
\* dispatched.
Step ==
    /\ engine_state = "Running"
    /\ Ready # {}
    /\ LET src == NextSource
           e == sources[src][cursor[src] + 1]
       IN /\ StoreEvent(e)
          /\ cursor' = [cursor EXCEPT ![src] = @ + 1]
          /\ dispatched' = Append(dispatched, e)
    /\ iteration' = iteration + 1
    /\ UNCHANGED <<sources, engine_state>>

\* The data is exhausted: run() returns.
Finish ==
    /\ engine_state = "Running"
    /\ Ready = {}
    /\ engine_state' = "Stopped"
    /\ UNCHANGED <<sources, cursor, iteration, dispatched, cache_vars>>

\* Cooperative cancellation between two events.
Interrupt ==
    /\ engine_state = "Running"
    /\ Ready # {}
    /\ engine_state' = "Stopped"
    /\ UNCHANGED <<sources, cursor, iteration, dispatched, cache_vars>>

\* Variant of reset that leaves the data cache as it is (for mutation
\* analysis).
resetKeepingCache ==
    /\ engine_state \in {"Idle", "Stopped"}
    /\ engine_state' = "Idle"
    /\ cursor' = [src \in 1..Len(sources) |-> 0]
    /\ iteration' = 0
    /\ dispatched' = <<>>
    /\ UNCHANGED <<sources, cache_vars>>

reset ==
    /\ engine_state \in {"Idle", "Stopped"}
    /\ engine_state' = "Idle"
    /\ cursor' = [src \in 1..Len(sources) |-> 0]
    /\ iteration' = 0
    /\ dispatched' = <<>>
    /\ Cache!reset
    /\ UNCHANGED sources

dispose ==
    /\ engine_state \in {"Idle", "Stopped"}
    /\ engine_state' = "Disposed"
    /\ Cache!reset
    /\ UNCHANGED <<sources, cursor, iteration, dispatched>>

Next == run \/ Step \/ Finish \/ Interrupt \/ reset \/ dispose

\* run() is a loop that keeps taking events until the data is exhausted
\* or it is cancelled; nothing forces a caller to run, cancel, reset or
\* dispose.
Spec == Init /\ [][Next]_vars /\ WF_vars(Step) /\ WF_vars(Finish)

=============================================================================
