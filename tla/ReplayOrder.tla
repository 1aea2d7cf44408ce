----------------------------- MODULE ReplayOrder -----------------------------
(***************************************************************************)
(* What a replay promises its strategies: they see the events of one      *)
(* fixed order from its start, one at a time; a reset starts them over    *)
(* from the beginning.  Two runs over the same inputs therefore see the   *)
(* same events in the same order.  The order is fixed by the replay's     *)
(* configuration: it never changes.                                       *)
(***************************************************************************)
EXTENDS Naturals, Sequences

VARIABLES
    order,      \* the merged event sequence every run replays
    out         \* the events dispatched since the last reset

Init == out = <<>>

Emit ==
    /\ Len(out) < Len(order)
    /\ out' = Append(out, order[Len(out) + 1])
    /\ UNCHANGED order

Restart ==
    /\ out' = <<>>
    /\ UNCHANGED order

Next == Emit \/ Restart

Spec == Init /\ [][Next]_<<order, out>>

=============================================================================
