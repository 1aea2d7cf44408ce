------------------------- MODULE SimpleMovingAverage -------------------------
(***************************************************************************)
(* The simple moving average indicator (spec section 6, indicator          *)
(* boundary; pinned by tests/unit_tests/indicators/test_sma.py): update    *)
(* appends a point to a window of at most Period inputs, the oldest one    *)
(* dropped first, sets the value to the mean of the window, counts the     *)
(* update, and marks the indicator initialized once Period points have     *)
(* arrived.  Points are small integers and the value the exact rational    *)
(* <<sum, n>> the floating-point mean approximates.                        *)
(***************************************************************************)
EXTENDS Integers, Sequences, SequencesExt

CONSTANTS
    Period,         \* the averaging period (10 in the tests)
    Points,         \* the points a data stream may deliver
    MaxUpdates      \* bound: length of the data stream

VARIABLES
    inputs,         \* the window, oldest first (a deque with maxlen Period)
    value,          \* the mean of the window as <<sum, n>>; <<0, 1>> before any input
    count,          \* the number of updates received
    has_inputs,     \* at least one point has arrived
    initialized,    \* Period points have arrived
    history         \* every point delivered, oldest first (history only)

vars == <<inputs, value, count, has_inputs, initialized, history>>

TypeOK ==
    /\ inputs \in BoundedSeq(Points, Period)
    /\ value \in Int \X (Nat \ {0})
    /\ count \in 0..MaxUpdates
    /\ has_inputs \in BOOLEAN
    /\ initialized \in BOOLEAN

\* Variant of Window with no maxlen on the deque (for mutation analysis).
WindowUnbounded(s, x) == Append(s, x)

\* deque(maxlen=Period).append: the oldest point is dropped when full.
Window(s, x) ==
    IF Len(s) < Period THEN Append(s, x) ELSE Append(Tail(s), x)

\* The sum of a sequence of points.
SumOf(s) == FoldSeq(LAMBDA x, acc : x + acc, 0, s)

\* fast_mean of the window, as the rational <<sum, n>>.
Mean(s) == <<SumOf(s), Len(s)>>

Init ==
    /\ inputs = <<>>
    /\ value = <<0, 1>>
    /\ count = 0
    /\ has_inputs = FALSE
    /\ initialized = FALSE
    /\ history = <<>>

\* Variant of update that tests the count before incrementing it (for
\* mutation analysis).
updateCheckingOldCount(point) ==
    /\ count < MaxUpdates
    /\ inputs' = Window(inputs, point)
    /\ value' = Mean(inputs')
    /\ count' = count + 1
    /\ has_inputs' = TRUE
    /\ initialized' = (initialized \/ count >= Period)
    /\ history' = Append(history, point)

update(point) ==
    /\ count < MaxUpdates
    /\ inputs' = Window(inputs, point)
    /\ value' = Mean(inputs')
    /\ count' = count + 1
    /\ has_inputs' = TRUE
    /\ initialized' = (initialized \/ count' >= Period)
    /\ history' = Append(history, point)

Next == \E p \in Points : update(p)

Spec == Init /\ [][Next]_vars

=============================================================================
