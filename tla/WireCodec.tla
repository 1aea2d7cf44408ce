------------------------------ MODULE WireCodec ------------------------------
(***************************************************************************)
(* The wire codec (spec section 4.2; pinned by                            *)
(* tests/unit_tests/test_serialization_data.py): DataMapper.map_ticks and  *)
(* map_bars turn ticks, or the bars of one bar type, into a document of    *)
(* named fields whose data are the records' text lines ("bid,ask,ts" and   *)
(* "open,high,low,close,volume,ts"); BsonDataSerializer encodes a document *)
(* as a length-prefixed list of named elements, the data array with its   *)
(* own length, and decodes by name, ignoring names it does not know.  Two  *)
(* implementations write payloads: "V1" writes the three fields in its    *)
(* order, "V2" (the other language's writer) another order and one        *)
(* optional field more.  A transport may deliver a payload torn short;    *)
(* decoding must then fail, never return part of the data.                *)
(***************************************************************************)
EXTENDS Integers, Sequences, SequencesExt

CONSTANTS
    Symbols,        \* symbol strings
    Mantissas,      \* price mantissas
    MaxPrec,        \* largest price precision (digits after the point)
    Timestamps,     \* tick timestamps (integers)
    BarTypes,       \* bar type strings
    BarValues,      \* the bars a bar message may carry
    MaxBars,        \* bound: bars in one message
    MaxMessages     \* bound: number of messages written

Impls == {"V1", "V2"}

Prices == [m : Mantissas, p : 0..MaxPrec]

Ticks == [bid : Prices, ask : Prices, ts : Timestamps]

\* A message: the ticks of one symbol, as map_ticks receives them, or the
\* bars of one bar type, as map_bars receives them.
Messages ==
    [symbol : Symbols, ticks : {<<t>> : t \in Ticks}]
    \cup [bar_type : BarTypes, bars : BoundedSeq(BarValues, MaxBars) \ {<<>>}]

DecodeError == [error |-> "DecodeError"]

VARIABLES
    sent,           \* the messages written, in order
    wire,           \* payloads in transit, each with a ghost flag "intact"
    received        \* [value, intact] for each payload decoded, in order

vars == <<sent, wire, received>>

TypeOK ==
    /\ sent \in Seq(Messages)
    /\ \A i \in 1..Len(received) :
           /\ received[i].value \in Messages \cup {DecodeError}
           /\ received[i].intact \in BOOLEAN

-----------------------------------------------------------------------------
(* Text: numbers as sequences of characters.                              *)

DigitChars == <<"0", "1", "2", "3", "4", "5", "6", "7", "8", "9">>

\* The decimal digits of n >= 0, most significant first.
RECURSIVE DigitsOf(_)
DigitsOf(n) == IF n < 10 THEN <<n>> ELSE Append(DigitsOf(n \div 10), n % 10)

CharsOf(ds) == [i \in 1..Len(ds) |-> DigitChars[ds[i] + 1]]

ValueOfChar(c) == CHOOSE d \in 0..9 : DigitChars[d + 1] = c

\* int(s) for a string of digits.
ParseInt(s) == FoldLeft(LAMBDA acc, c : 10 * acc + ValueOfChar(c), 0, s)

\* The zeros that pad the mantissa's digits to p + 1 digits.
ZerosBefore(pr) == IF Len(DigitsOf(pr.m)) < pr.p + 1 THEN pr.p + 1 - Len(DigitsOf(pr.m)) ELSE 0

\* Variant of FormatPrice that drops trailing zeros after the point, as a
\* float's repr would (for mutation analysis).
FormatPriceTrimmed(pr) ==
    LET ds == DigitsOf(pr.m)
        padded == [i \in 1..ZerosBefore(pr) |-> 0] \o ds
        whole == SubSeq(padded, 1, Len(padded) - pr.p)
        frac == SubSeq(padded, Len(padded) - pr.p + 1, Len(padded))
        kept == LET nz == {i \in 1..Len(frac) : frac[i] # 0}
                IN IF nz = {} THEN <<>> ELSE SubSeq(frac, 1, CHOOSE i \in nz : \A j \in nz : j <= i)
    IN IF kept = <<>> THEN CharsOf(whole) ELSE CharsOf(whole) \o <<".">> \o CharsOf(kept)

\* str(Price): the mantissa's digits, left-padded with zeros to p + 1
\* digits, with a point before the last p of them ("1.00000", "0.001").
FormatPrice(pr) ==
    LET ds == DigitsOf(pr.m)
        padded == [i \in 1..ZerosBefore(pr) |-> 0] \o ds
        whole == SubSeq(padded, 1, Len(padded) - pr.p)
        frac == SubSeq(padded, Len(padded) - pr.p + 1, Len(padded))
    IN IF pr.p = 0 THEN CharsOf(ds) ELSE CharsOf(whole) \o <<".">> \o CharsOf(frac)

\* Variant of ParsePrice that counts the point as a digit of the
\* precision (for mutation analysis).
ParsePriceCountingDot(s) ==
    LET dot == SelectInSeq(s, LAMBDA c : c = ".")
    IN IF dot = 0 THEN [m |-> ParseInt(s), p |-> 0]
       ELSE [m |-> ParseInt(SubSeq(s, 1, dot - 1) \o SubSeq(s, dot + 1, Len(s))),
             p |-> Len(s) - dot + 1]

\* Price(s): the precision is the number of digits after the point.
ParsePrice(s) ==
    LET dot == SelectInSeq(s, LAMBDA c : c = ".")
    IN IF dot = 0 THEN [m |-> ParseInt(s), p |-> 0]
       ELSE [m |-> ParseInt(SubSeq(s, 1, dot - 1) \o SubSeq(s, dot + 1, Len(s))),
             p |-> Len(s) - dot]

\* s.split(","): the pieces between the commas.
Split(s) ==
    LET cuts == <<0>> \o SelectSeq([i \in 1..Len(s) |-> i], LAMBDA i : s[i] = ",")
                \o <<Len(s) + 1>>
    IN [k \in 1..(Len(cuts) - 1) |-> SubSeq(s, cuts[k] + 1, cuts[k + 1] - 1)]

\* The pieces joined with commas.
Join(pieces) == FoldLeft(LAMBDA acc, x : IF acc = <<>> THEN x ELSE acc \o <<",">> \o x,
                         <<>>, pieces)

\* The tick's text line "bid,ask,ts" and its parse.
FormatTick(t) == Join(<<FormatPrice(t.bid), FormatPrice(t.ask), CharsOf(DigitsOf(t.ts))>>)

ParseTick(s) ==
    LET f == Split(s)
    IN [bid |-> ParsePrice(f[1]), ask |-> ParsePrice(f[2]), ts |-> ParseInt(f[3])]

\* The bar's text line "open,high,low,close,volume,ts" and its parse.
FormatBar(b) ==
    Join(<<FormatPrice(b.open), FormatPrice(b.high), FormatPrice(b.low),
           FormatPrice(b.close), CharsOf(DigitsOf(b.volume)), CharsOf(DigitsOf(b.ts))>>)

ParseBar(s) ==
    LET f == Split(s)
    IN [open |-> ParsePrice(f[1]), high |-> ParsePrice(f[2]), low |-> ParsePrice(f[3]),
        close |-> ParsePrice(f[4]), volume |-> ParseInt(f[5]), ts |-> ParseInt(f[6])]

-----------------------------------------------------------------------------
(* Documents and payloads                                                 *)

\* map_ticks as each implementation writes it: a list of <<name, value>>.
MapTicks(impl, msg) ==
    LET data == [i \in 1..Len(msg.ticks) |-> FormatTick(msg.ticks[i])]
    IN IF impl = "V1"
       THEN <<<<"DataType", "Tick">>, <<"Symbol", msg.symbol>>, <<"Data", data>>>>
       ELSE <<<<"Data", data>>, <<"Symbol", msg.symbol>>, <<"DataType", "Tick">>,
              <<"Source", impl>>>>

\* map_bars as each implementation writes it.
MapBars(impl, msg) ==
    LET data == [i \in 1..Len(msg.bars) |-> FormatBar(msg.bars[i])]
    IN IF impl = "V1"
       THEN <<<<"DataType", "Bar">>, <<"BarType", msg.bar_type>>, <<"Data", data>>>>
       ELSE <<<<"Data", data>>, <<"BarType", msg.bar_type>>, <<"DataType", "Bar">>,
              <<"Source", impl>>>>

\* A length-prefixed array.
Array(xs) == [length |-> Len(xs), elements |-> xs]

\* A payload: the document's elements under a header giving their number;
\* the data lines are an array with a header of their own.
Serialize(doc) ==
    Array([i \in 1..Len(doc) |->
              IF doc[i][1] = "Data" THEN <<"Data", Array(doc[i][2])>> ELSE doc[i]])

\* Decode a payload whose headers match: the records of its data array,
\* keyed by symbol or bar type as its DataType says.
Decoded(doc) ==
    LET Get(n) == doc[SelectInSeq(doc, LAMBDA e : e[1] = n)][2]
        lines == Get("Data").elements
    IN IF Get("DataType") = "Tick"
       THEN [symbol |-> Get("Symbol"), ticks |-> [i \in 1..Len(lines) |-> ParseTick(lines[i])]]
       ELSE [bar_type |-> Get("BarType"), bars |-> [i \in 1..Len(lines) |-> ParseBar(lines[i])]]

\* Variant of Deserialize that does not compare the payload's header with
\* the elements read (for mutation analysis).
DeserializeNoLengthCheck(payload) ==
    LET doc == payload.elements
        Named(n) == SelectInSeq(doc, LAMBDA e : e[1] = n)
        Get(n) == doc[Named(n)][2]
        Key == IF Get("DataType") = "Tick" THEN "Symbol" ELSE "BarType"
    IN IF Named("DataType") = 0 THEN DecodeError
       ELSE IF \/ Named(Key) = 0 \/ Named("Data") = 0
               \/ Get("Data").length # Len(Get("Data").elements)
            THEN DecodeError
            ELSE Decoded(doc)

\* Decode by name; names not asked for are skipped.  A header that does not
\* match what follows it, or a missing required field, is a decode error.
Deserialize(payload) ==
    LET doc == payload.elements
        Named(n) == SelectInSeq(doc, LAMBDA e : e[1] = n)
        Get(n) == doc[Named(n)][2]
        Key == IF Get("DataType") = "Tick" THEN "Symbol" ELSE "BarType"
    IN IF payload.length # Len(doc) \/ Named("DataType") = 0 THEN DecodeError
       ELSE IF \/ Named(Key) = 0 \/ Named("Data") = 0
               \/ Get("Data").length # Len(Get("Data").elements)
            THEN DecodeError
            ELSE Decoded(doc)

-----------------------------------------------------------------------------

Init ==
    /\ sent = <<>>
    /\ wire = <<>>
    /\ received = <<>>

\* An implementation maps and serializes a message onto the wire.
Write(impl, msg) ==
    /\ Len(sent) < MaxMessages
    /\ sent' = Append(sent, msg)
    /\ LET doc == IF "ticks" \in DOMAIN msg THEN MapTicks(impl, msg) ELSE MapBars(impl, msg)
       IN wire' = Append(wire, [payload |-> Serialize(doc), intact |-> TRUE])
    /\ UNCHANGED received

\* The transport cuts the last element off a payload in transit.
Tear(i) ==
    /\ wire[i].payload.elements # <<>>
    /\ wire' = [wire EXCEPT ![i] = [payload |-> [@.payload EXCEPT !.elements = Front(@)],
                                    intact |-> FALSE]]
    /\ UNCHANGED <<sent, received>>

\* The reader decodes the oldest payload.
Read ==
    /\ wire # <<>>
    /\ received' = Append(received, [value |-> Deserialize(Head(wire).payload),
                                     intact |-> Head(wire).intact])
    /\ wire' = Tail(wire)
    /\ UNCHANGED sent

Next ==
    \/ \E impl \in Impls, msg \in Messages : Write(impl, msg)
    \/ \E i \in 1..Len(wire) : Tear(i)
    \/ Read

Spec == Init /\ [][Next]_vars

=============================================================================
