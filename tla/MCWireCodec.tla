----------------------------- MODULE MCWireCodec -----------------------------
(***************************************************************************)
(* The codec for TLC: one symbol, mantissas 1 and 10 at precisions 0 to 2 *)
(* (so that "1", "0.01", "0.10", "1.0" and "10" all occur), one bar type   *)
(* with the test's bar and a bar of those prices, in messages of one or    *)
(* two bars; two messages from either implementation, torn or not, read   *)
(* in order.                                                               *)
(***************************************************************************)
EXTENDS WireCodec

Px(m, p) == [m |-> m, p |-> p]

\* test_can_serialize_and_deserialize_bars's bar1, and a bar of short prices.
MCBarValues ==
    {[open |-> Px(100001, 5), high |-> Px(100004, 5), low |-> Px(100002, 5),
      close |-> Px(100003, 5), volume |-> 100000, ts |-> 60],
     [open |-> Px(10, 1), high |-> Px(10, 2), low |-> Px(1, 2),
      close |-> Px(1, 0), volume |-> 0, ts |-> 60]}

\* test_can_serialize_and_deserialize_ticks and _bars, and spec 4.2: every
\* payload that arrives intact decodes to exactly the message written,
\* price precision included, whichever implementation wrote it and in
\* whatever order it wrote its fields, with fields the reader does not know.
RoundTripExact ==
    \A i \in 1..Len(received) :
        received[i].intact => received[i].value = sent[i]

\* Spec section 7: a payload torn in transit is a decode error, never a
\* message built from the elements that are left of it, even when the
\* element lost was one the reader does not ask for.
TornPayloadRejected ==
    \A i \in 1..Len(received) :
        ~received[i].intact => received[i].value = DecodeError

=============================================================================
