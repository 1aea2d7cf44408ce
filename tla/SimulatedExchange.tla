--------------------------- MODULE SimulatedExchange ---------------------------
(***************************************************************************)
(* The simulated venues of the backtest engine (spec sections 3 and 4.3;   *)
(* set up by add_exchange and change_fill_model in                         *)
(* tests/unit_tests/backtest/test_backtest_engine.py), each added with     *)
(* generate_position_ids on and tracking its state independently.  An      *)
(* order forwarded to a venue is decided by the venue's fill model in      *)
(* force; a fill is given a position id: under HEDGING a fresh id for      *)
(* every fill, under NETTING the one id of the (venue, symbol) position.   *)
(* Ids come from the venue's counter.  change_fill_model swaps a venue's   *)
(* model for the fills still to come; reset restores every venue's state   *)
(* and keeps the configuration.                                            *)
(***************************************************************************)
EXTENDS Integers, Sequences, SequencesExt

CONSTANTS
    Venues,         \* the venues registered with add_exchange
    Symbols,        \* the symbols orders may be for
    FillModels      \* fill models, each the set of order sides it fills

VARIABLES
    oms_type,       \* oms_type[v]: the OMS type venue v was added with
    fill_model,     \* fill_model[v]: the fill model in force at v
    next_id,        \* next_id[v]: v's position id counter
    netting_id,     \* netting_id[v][s]: the position id of s at v, or 0
    fills,          \* the fills since the last reset: [venue, symbol, position_id]
    decided         \* the orders since the last reset, each with the model that decided it (history only)

venue_vars == <<oms_type, fill_model, next_id, netting_id, fills, decided>>

Orders == [venue : Venues, symbol : Symbols, side : {"BUY", "SELL"}]

TypeOK ==
    /\ oms_type \in [Venues -> {"HEDGING", "NETTING"}]
    /\ fill_model \in [Venues -> FillModels]
    /\ next_id \in [Venues -> Nat]
    /\ netting_id \in [Venues -> [Symbols -> Nat]]
    /\ fills \in Seq([venue : Venues, symbol : Symbols, position_id : Nat])
    /\ \A f \in ToSet(fills) : f.position_id \in 1..next_id[f.venue]
    /\ decided \in Seq([order : Orders, model : FillModels])

\* Variant of PositionId that hands out the counter before incrementing
\* it (for mutation analysis).
PositionIdPostIncrement(v, s) ==
    IF oms_type[v] = "NETTING" /\ netting_id[v][s] # 0
    THEN <<netting_id[v][s], next_id[v]>>
    ELSE <<next_id[v], next_id[v] + 1>>

\* The position id a fill of symbol s at venue v is given, and v's counter
\* after it.
PositionId(v, s) ==
    IF oms_type[v] = "NETTING" /\ netting_id[v][s] # 0
    THEN <<netting_id[v][s], next_id[v]>>
    ELSE <<next_id[v] + 1, next_id[v] + 1>>

\* Variant of RecordPosition that forgets the symbol's position (for
\* mutation analysis).
RecordPositionNone(v, s, id) == netting_id

\* The (venue, symbol) position a fill opened or added to.
RecordPosition(v, s, id) == [netting_id EXCEPT ![v][s] = id]

\* add_exchange for every venue: its OMS type and fill model; no position.
Init ==
    /\ oms_type \in [Venues -> {"HEDGING", "NETTING"}]
    /\ fill_model \in [Venues -> FillModels]
    /\ next_id = [v \in Venues |-> 0]
    /\ netting_id = [v \in Venues |-> [s \in Symbols |-> 0]]
    /\ fills = <<>>
    /\ decided = <<>>

\* Order o reaches its venue; the venue's fill model in force decides it.
ProcessOrder(o) ==
    LET v == o.venue
        id == PositionId(v, o.symbol)
    IN /\ IF o.side \in fill_model[v]
          THEN /\ fills' = Append(fills, [venue |-> v, symbol |-> o.symbol, position_id |-> id[1]])
               /\ next_id' = [next_id EXCEPT ![v] = id[2]]
               /\ netting_id' = RecordPosition(v, o.symbol, id[1])
          ELSE UNCHANGED <<fills, next_id, netting_id>>
       /\ decided' = Append(decided, [order |-> o, model |-> fill_model[v]])
       /\ UNCHANGED <<oms_type, fill_model>>

change_fill_model(v, model) ==
    /\ fill_model' = [fill_model EXCEPT ![v] = model]
    /\ UNCHANGED <<oms_type, next_id, netting_id, fills, decided>>

reset ==
    /\ next_id' = [v \in Venues |-> 0]
    /\ netting_id' = [v \in Venues |-> [s \in Symbols |-> 0]]
    /\ fills' = <<>>
    /\ decided' = <<>>
    /\ UNCHANGED <<oms_type, fill_model>>

\* The venues on their own, under any stream of orders.
Next ==
    \/ \E o \in Orders : ProcessOrder(o)
    \/ \E v \in Venues, m \in FillModels : change_fill_model(v, m)
    \/ reset

Spec == Init /\ [][Next]_venue_vars

=============================================================================
