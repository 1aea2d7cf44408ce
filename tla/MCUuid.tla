------------------------------- MODULE MCUuid -------------------------------
(***************************************************************************)
(* The UUID for TLC: byte j of a value is j, or 0xc0 + j for j in Varied, *)
(* in every combination.  Every byte differs from every other, so a field  *)
(* read from the wrong place shows; 0x01 begins the value with a zero      *)
(* digit; 0xc7 and 0xc9 set the bits the version and variant masks remove; *)
(* the varied bytes sit at both ends of every field.                      *)
(***************************************************************************)
EXTENDS Uuid

Varied == {1, 2, 4, 5, 7, 8, 9, 10, 13, 16}

MCInputs == {[j \in 1..16 |-> IF j \in S THEN 192 + j ELSE j] : S \in SUBSET Varied}

\* The hexadecimal digits of the bytes b[i..j], as a 128-bit value.
Span(b, i, j) ==
    Lit(FlattenSeq([k \in 1..(j - i + 1) |-> <<b[i + k - 1] \div 16, b[i + k - 1] % 16>>]))

\* The n hexadecimal digits of a small natural x.
NumDigits(x, n) == [k \in 1..n |-> (x \div 16^(n - k)) % 16]

ValueOfHex(c) == CHOOSE d \in 0..15 : HexChars[d + 1] = c

-----------------------------------------------------------------------------

\* str() is the canonical 8-4-4-4-12 text: 36 characters, dashes at 9, 14,
\* 19 and 24, and the other 32, two per byte, spell the UUID's bytes, which
\* are the value UUID() was given.  A '%x' that drops leading zeros would
\* shorten it whenever the value begins with a zero digit.
StrIsCanonical ==
    how # "none" =>
        LET s == str(uuid)
            h == SelectSeq(s, LAMBDA c : c # "-")
        IN /\ Len(s) = 36
           /\ \A k \in {9, 14, 19, 24} : s[k] = "-"
           /\ Len(h) = 32
           /\ [j \in 1..16 |-> 16 * ValueOfHex(h[2 * j - 1]) + ValueOfHex(h[2 * j])]
                  = bytes(uuid)
           /\ how = "UUID" => bytes(uuid) = input

\* The fields, read off int_val by shifts and masks, are the RFC 4122 byte
\* ranges of the value; time is the 60 bits of time_hi (version removed),
\* time_mid and time_low, and clock_seq the 14 bits of clock_seq_hi
\* (variant removed) and clock_seq_low.
FieldsFollowRfcLayout ==
    how # "none" =>
        LET b == bytes(uuid)
        IN /\ fields(uuid) = <<Span(b, 1, 4), Span(b, 5, 6), Span(b, 7, 8), Span(b, 9, 9),
                               Span(b, 10, 10), Span(b, 11, 16)>>
           /\ time(uuid) = Lit(<<b[7] % 16>> \o SubSeq(Span(b, 8, 8), 31, 32)
                                \o SubSeq(Span(b, 5, 6), 29, 32) \o SubSeq(Span(b, 1, 4), 25, 32))
           /\ clock_seq(uuid) = Lit(NumDigits((b[9] % 64) * 256 + b[10], 4))

\* bytes_le, read back little-endian field by field, gives time_low,
\* time_mid and time_hi_version, and keeps the last eight bytes in order.
BytesLeReadsFields ==
    how # "none" =>
        LET le == bytes_le(uuid)
            LE(i, j) == Span(Reverse(SubSeq(le, i, j)), 1, j - i + 1)
        IN /\ <<LE(1, 4), LE(5, 6), LE(7, 8)>>
                  = <<time_low(uuid), time_mid(uuid), time_hi_version(uuid)>>
           /\ SubSeq(le, 9, 16) = SubSeq(bytes(uuid), 9, 16)

\* uuid4() sets the version digit to 4 and the variant bits to 10, and
\* nothing else: time, clock_seq and node, which mask those bits out, are
\* those of the random bits drawn.
Uuid4StampsOnlyVersionAndVariant ==
    how = "uuid4" =>
        LET r == [int_val |-> FromBytes(input)]
        IN /\ uuid.int_val[13] = 4
           /\ uuid.int_val[17] \in 8..11
           /\ time(uuid) = time(r)
           /\ clock_seq(uuid) = clock_seq(r)
           /\ node(uuid) = node(r)

=============================================================================
