-------------------------------- MODULE Uuid --------------------------------
(***************************************************************************)
(* The UUID value type of nautilus_trader.core.uuid, as pinned by          *)
(* tests/unit_tests/core/test_core_uuid.py.  UUID(value) keeps its 16      *)
(* bytes as the 128-bit int_val; bytes, bytes_le, hex, str, the RFC 4122   *)
(* fields, time and clock_seq are read off int_val by shifts and masks;    *)
(* uuid4() stamps the RFC 4122 variant and version 4 onto 128 random bits. *)
(*                                                                         *)
(* These ints are up to 128 bits wide, beyond TLC's integers, so an int is *)
(* held as its 32 hexadecimal digits, most significant first.  Every shift *)
(* in the code is by a multiple of 4 bits and every mask is made of whole  *)
(* digits, so each operation below is exact at full width.                 *)
(***************************************************************************)
EXTENDS Integers, Sequences, SequencesExt, Bitwise

CONSTANTS
    Inputs          \* the 16-byte values given to UUID() or drawn by uuid4()

VARIABLES
    uuid,           \* the UUID last constructed: [int_val]
    input,          \* the bytes it was constructed from
    how             \* "UUID", "uuid4", or "none" before the first

vars == <<uuid, input, how>>

Digits == 32

Int128 == [1..Digits -> 0..15]

HexChars == <<"0", "1", "2", "3", "4", "5", "6", "7",
              "8", "9", "a", "b", "c", "d", "e", "f">>

TypeOK ==
    /\ uuid \in [int_val : Int128]
    /\ input \in [1..16 -> 0..255]
    /\ how \in {"none", "UUID", "uuid4"}

-----------------------------------------------------------------------------
(* Python int operations on 128-bit values.                              *)

\* A literal given by its hexadecimal digits: Lit(<<12, 0, 0, 0>>) = 0xc000.
Lit(ds) == [i \in 1..Digits |-> IF i > Digits - Len(ds) THEN ds[i - Digits + Len(ds)] ELSE 0]

\* x >> s and x << s for s a multiple of 4; the results here fit 128 bits.
Shr(x, s) == [i \in 1..Digits |-> IF i > s \div 4 THEN x[i - s \div 4] ELSE 0]
Shl(x, s) == [i \in 1..Digits |-> IF i + s \div 4 <= Digits THEN x[i + s \div 4] ELSE 0]

BAnd(x, y) == [i \in 1..Digits |-> x[i] & y[i]]
BOr(x, y) == [i \in 1..Digits |-> x[i] | y[i]]

\* ~m, as it acts in `v & ~m` on a 128-bit v.
BNot(x) == [i \in 1..Digits |-> 15 - x[i]]

\* int.from_bytes(value, "big") and int_val.to_bytes(16, "big").
FromBytes(b) ==
    [i \in 1..Digits |-> IF i % 2 = 1 THEN b[(i + 1) \div 2] \div 16 ELSE b[i \div 2] % 16]
ToBytes(x) == [j \in 1..16 |-> 16 * x[2 * j - 1] + x[2 * j]]

-----------------------------------------------------------------------------
(* The UUID's properties.                                                 *)

bytes(u) == ToBytes(u.int_val)

\* Variant of bytes_le that takes time_low from the last four bytes (for
\* mutation analysis).
bytes_leWrongBlock(u) ==
    LET b == bytes(u)
    IN Reverse(SubSeq(b, 13, 16)) \o Reverse(SubSeq(b, 5, 6)) \o Reverse(SubSeq(b, 7, 8))
       \o SubSeq(b, 9, 16)

bytes_le(u) ==
    LET b == bytes(u)
    IN Reverse(SubSeq(b, 1, 4)) \o Reverse(SubSeq(b, 5, 6)) \o Reverse(SubSeq(b, 7, 8))
       \o SubSeq(b, 9, 16)

time_low(u) == Shr(u.int_val, 96)
time_mid(u) == BAnd(Shr(u.int_val, 80), Lit(<<15, 15, 15, 15>>))
time_hi_version(u) == BAnd(Shr(u.int_val, 64), Lit(<<15, 15, 15, 15>>))
clock_seq_hi_variant(u) == BAnd(Shr(u.int_val, 56), Lit(<<15, 15>>))
clock_seq_low(u) == BAnd(Shr(u.int_val, 48), Lit(<<15, 15>>))
node(u) == BAnd(u.int_val, Lit([i \in 1..12 |-> 15]))

fields(u) ==
    <<time_low(u), time_mid(u), time_hi_version(u), clock_seq_hi_variant(u),
      clock_seq_low(u), node(u)>>

time(u) ==
    BOr(BOr(Shl(BAnd(time_hi_version(u), Lit(<<0, 15, 15, 15>>)), 48),
            Shl(time_mid(u), 32)),
        time_low(u))

\* Variant of clock_seq that keeps the variant bits of clock_seq_hi_variant
\* (for mutation analysis).
clock_seqUnmasked(u) ==
    BOr(Shl(clock_seq_hi_variant(u), 8), clock_seq_low(u))

clock_seq(u) ==
    BOr(Shl(BAnd(clock_seq_hi_variant(u), Lit(<<3, 15>>)), 8), clock_seq_low(u))

\* Variant of hex that formats with '%x', dropping leading zero digits
\* (for mutation analysis).
hexUnpadded(u) ==
    LET nz == {i \in 1..Digits : u.int_val[i] # 0}
        first == IF nz = {} THEN Digits ELSE CHOOSE i \in nz : \A j \in nz : i <= j
    IN [i \in 1..(Digits - first + 1) |-> HexChars[u.int_val[first + i - 1] + 1]]

\* '%032x' % int_val.
hex(u) == [i \in 1..Digits |-> HexChars[u.int_val[i] + 1]]

\* hex[:8]-hex[8:12]-hex[12:16]-hex[16:20]-hex[20:].
str(u) ==
    LET h == hex(u)
    IN SubSeq(h, 1, 8) \o <<"-">> \o SubSeq(h, 9, 12) \o <<"-">> \o SubSeq(h, 13, 16)
       \o <<"-">> \o SubSeq(h, 17, 20) \o <<"-">> \o SubSeq(h, 21, Len(h))

-----------------------------------------------------------------------------
(* Construction.                                                          *)

\* Variant of Stamp that puts the version one digit too low (for mutation
\* analysis).
StampVersionAt72(x) ==
    LET v1 == BAnd(x, BNot(Shl(Lit(<<12, 0, 0, 0>>), 48)))
        v2 == BOr(v1, Shl(Lit(<<8, 0, 0, 0>>), 48))
        v3 == BAnd(v2, BNot(Shl(Lit(<<15, 0, 0, 0>>), 64)))
    IN BOr(v3, Shl(Lit(<<4>>), 72))

\* Set the variant to RFC 4122 and the version to 4.
Stamp(x) ==
    LET v1 == BAnd(x, BNot(Shl(Lit(<<12, 0, 0, 0>>), 48)))
        v2 == BOr(v1, Shl(Lit(<<8, 0, 0, 0>>), 48))
        v3 == BAnd(v2, BNot(Shl(Lit(<<15, 0, 0, 0>>), 64)))
    IN BOr(v3, Shl(Lit(<<4>>), 76))

Init ==
    /\ uuid = [int_val |-> [i \in 1..Digits |-> 0]]
    /\ input = [j \in 1..16 |-> 0]
    /\ how = "none"

UUID(value) ==
    /\ uuid' = [int_val |-> FromBytes(value)]
    /\ input' = value
    /\ how' = "UUID"

uuid4(random) ==
    /\ uuid' = [int_val |-> Stamp(FromBytes(random))]
    /\ input' = random
    /\ how' = "uuid4"

\* A UUID is immutable: it is constructed once and then only read.
Next ==
    /\ how = "none"
    /\ \/ \E v \in Inputs : UUID(v)
       \/ \E r \in Inputs : uuid4(r)

Spec == Init /\ [][Next]_vars

=============================================================================
