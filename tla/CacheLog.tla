------------------------------ MODULE CacheLog ------------------------------
(***************************************************************************)
(* What the data cache promises, stated without its representation: for   *)
(* every key (a symbol's quote ticks, a symbol's trade ticks, a bar type's *)
(* bars) a chronological log that only grows at its end, never by a copy  *)
(* of its newest record, and a registry of reference data in which a name *)
(* is written at most once.  A reset empties both.                        *)
(***************************************************************************)
EXTENDS Sequences, SequencesExt

CONSTANTS
    Keys,       \* the log keys
    Names,      \* registry names (symbols)
    Values,     \* registry values (instruments)
    None        \* the absent registry value

VARIABLES
    logs,       \* logs[k]: the records of key k, oldest first
    registry    \* registry[n]: the value written for n, or None

vars == <<logs, registry>>

\* new extends old at its end, never by a copy of the record before it.
Grows(old, new) ==
    /\ IsPrefix(old, new)
    /\ \A i \in Len(old) + 1 .. Len(new) : i > 1 => new[i] # new[i - 1]

Init ==
    /\ logs = [k \in Keys |-> <<>>]
    /\ registry = [n \in Names |-> None]

\* A batch of records: each key's log grows by what the batch adds to it.
Log ==
    /\ \A k \in Keys : Grows(logs[k], logs'[k])
    /\ UNCHANGED registry

Register ==
    \E n \in Names, v \in Values :
        /\ registry[n] = None
        /\ registry' = [registry EXCEPT ![n] = v]
        /\ UNCHANGED logs

Clear ==
    /\ logs' = [k \in Keys |-> <<>>]
    /\ registry' = [n \in Names |-> None]

Next == Log \/ Register \/ Clear

Spec == Init /\ [][Next]_vars

=============================================================================
