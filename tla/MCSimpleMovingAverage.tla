------------------------ MODULE MCSimpleMovingAverage ------------------------
(***************************************************************************)
(* The moving average for TLC: a period of 3 and streams of up to 5        *)
(* points, so that the window fills, then drops its oldest point twice;   *)
(* points 1, 2 and 4 give every window a different sum.                    *)
(***************************************************************************)
EXTENDS SimpleMovingAverage

\* The last k points delivered.
LastPoints(k) == SubSeq(history, Len(history) - k + 1, Len(history))

\* test_value_*: after any stream of updates the value is the mean of the
\* last min(count, Period) points delivered (once the window is full, the
\* points before those no longer count), and 0 before the first point.
ValueIsMeanOfLastPeriod ==
    LET k == IF Len(history) < Period THEN Len(history) ELSE Period
    IN IF has_inputs
       THEN value[1] * k = value[2] * SumOf(LastPoints(k))
       ELSE value[1] = 0

\* test_initialized_with_required_inputs_returns_true: the indicator is
\* initialized exactly when its window holds Period points, neither one
\* update early nor one late.
InitializedIffWindowFull ==
    initialized <=> Len(inputs) = Period
=============================================================================
