--------------------------- MODULE Serialization ----------------------------
(***************************************************************************)
(* The byte streams of Include/WAVM/Inline/Serialization.h.  As in the     *)
(* code one operator serves both directions.  A stream s has               *)
(*   input   whether it is an InputStream                                  *)
(*   bytes   what is left to read, or what has been written                *)
(*   ok      FALSE once a FatalSerializationException has been thrown      *)
(*   v       the value that the last operation read or wrote               *)
(* An operation on a stream that has failed has no effect that anybody     *)
(* sees.  Integers that the code encodes in 32 or 64 bits have Width32 or  *)
(* Width64 bits; bytes have eight and carry seven of an integer.           *)
(***************************************************************************)
EXTENDS Integers, Sequences, SequencesExt

CONSTANTS Width32, Width64

-----------------------------------------------------------------------------
(***************************************************************************)
(* The UTF-8 coder of Include/WAVM/Inline/Unicode.h. A string is a         *)
(* sequence of bytes.                                                      *)
(***************************************************************************)

Pow2(n) == 2 ^ n

\* The six bits of codePoint that the continuation byte at position k holds.
Continuation(codePoint, k) == ((codePoint \div Pow2(6 * k)) % 64) + 128

encodeUTF8CodePoint(codePoint) ==
    CASE codePoint < 128 -> <<codePoint>>
      [] codePoint \in 128 .. 2047 ->
            <<(codePoint \div 64) + 192, Continuation(codePoint, 0)>>
      [] codePoint \in 2048 .. 65535 ->
            <<(codePoint \div 4096) + 224,
              Continuation(codePoint, 1), Continuation(codePoint, 0)>>
      [] OTHER ->
            <<(codePoint \div 262144) + 240, Continuation(codePoint, 2),
              Continuation(codePoint, 1), Continuation(codePoint, 0)>>

\* The number of bytes a lead byte announces, 0 for a byte that leads none.
SequenceLength(lead) ==
    CASE lead < 128 -> 1
      [] lead \in 194 .. 223 -> 2
      [] lead \in 224 .. 239 -> 3
      [] lead \in 240 .. 244 -> 4
      [] OTHER -> 0

\* The second bytes that the code lets follow a lead byte.  After 0xED it
\* asks for a byte that is at least 0xA0 and at most 0x9F.
SecondBytes(lead) ==
    CASE lead = 224 -> 160 .. 191
      [] lead = 237 -> 160 .. 159
      [] lead = 240 -> 144 .. 191
      [] lead = 244 -> 128 .. 143
      [] OTHER -> 128 .. 191

\* The code point that s begins with and the bytes it takes; 0 bytes where
\* the code returns false.
decodeUTF8CodePoint(s) ==
    LET n == SequenceLength(s[1])
        lead == IF n = 1 THEN s[1] ELSE s[1] % Pow2(7 - n)
    IN  IF /\ n > 0
           /\ n <= Len(s)
           /\ n > 1 => s[2] \in SecondBytes(s[1])
           /\ \A i \in 3 .. n : s[i] \in 128 .. 191
        THEN [length |-> n,
              codePoint |->
                FoldLeft(LAMBDA acc, byte : acc * 64 + (byte % 64), lead,
                         SubSeq(s, 2, n))]
        ELSE [length |-> 0, codePoint |-> 0]

\* How many bytes of s the validating loop passes over.
RECURSIVE validateUTF8String(_)
validateUTF8String(s) ==
    IF s = <<>> THEN 0
    ELSE LET n == decodeUTF8CodePoint(s).length
         IN  IF n = 0 THEN 0
             ELSE n + validateUTF8String(SubSeq(s, n + 1, Len(s)))

-----------------------------------------------------------------------------
(***************************************************************************)
(* Integers, arrays and strings in a stream.                               *)
(***************************************************************************)


UINT32_MAX == Pow2(Width32) - 1

UINT64_MAX == Pow2(Width64) - 1

\* e, for the one value that its variable has in [x \in {value} |-> e]
With(binding) == binding[CHOOSE x \in DOMAIN binding : TRUE]

-----------------------------------------------------------------------------
(* Streams.                                                                *)

MemoryInputStream(bytes) ==
    [input |-> TRUE, bytes |-> bytes, ok |-> TRUE, v |-> 0]

ArrayOutputStream == [input |-> FALSE, bytes |-> <<>>, ok |-> TRUE, v |-> 0]

Yield(s, v) == [s EXCEPT !.v = v]

Throw(s) == [s EXCEPT !.ok = FALSE, !.bytes = <<>>]

ThrowUnless(s, condition) == IF s.ok /\ ~condition THEN Throw(s) ELSE s

\* Reads n bytes, or writes the bytes of v.
serializeBytes(s, v, n) ==
    CASE ~s.input -> [s EXCEPT !.v = v, !.bytes = @ \o v]
      [] s.input /\ n <= Len(s.bytes) ->
            [s EXCEPT !.v = SubSeq(s.bytes, 1, n),
                      !.bytes = SubSeq(s.bytes, n + 1, Len(s.bytes))]
      [] OTHER -> Yield(Throw(s), <<>>)

serializeNativeValue(s, v) ==
    With([t \in {serializeBytes(s, <<v>>, 1)} |->
        Yield(t, IF t.v = <<>> THEN 0 ELSE t.v[1])])

serializeConstant(s, constant) ==
    With([t \in {serializeNativeValue(s, constant)} |->
        ThrowUnless(t, t.v = constant)])

-----------------------------------------------------------------------------
(* LEB128.                                                                 *)

RECURSIVE LEB128(_, _)
LEB128(value, signed) ==
    LET byte == value % 128
        rest == value \div 128
        more == IF signed
                THEN \/ rest \notin {0, -1}
                     \/ rest >= 0 /\ byte >= 64
                     \/ rest < 0 /\ byte < 64
                ELSE rest # 0
    IN  IF more THEN <<byte + 128>> \o LEB128(rest, signed) ELSE <<byte>>

writeVarInt(s, signed, minValue, maxValue, value) ==
    IF value \in minValue .. maxValue
    THEN Yield(serializeBytes(s, LEB128(value, signed), 0), value)
    ELSE Throw(s)

\* The number whose seven bit digits the bytes carry.
RECURSIVE UnsignedOf(_)
UnsignedOf(bytes) ==
    IF bytes = <<>> THEN 0 ELSE (Head(bytes) % 128) + 128 * UnsignedOf(Tail(bytes))

IntOf(bytes, signed) ==
    LET raw == UnsignedOf(bytes)
    IN  IF signed /\ raw >= Pow2(7 * Len(bytes) - 1) THEN raw - Pow2(7 * Len(bytes)) ELSE raw

\* numBytes is the number of bytes that the reading loop takes; the bytes it
\* does not read are 0.
readVarInt(s, maxBits, signed, minValue, maxValue) ==
    LET maxBytes == (maxBits + 6) \div 7
        used == maxBits - (maxBytes - 1) * 7
    IN
    With([ends \in {{n \in 1 .. maxBytes :
                        n <= Len(s.bytes) /\ (n = maxBytes \/ s.bytes[n] < 128)}} |->
        IF ends = {} THEN Yield(Throw(s), 0)
        ELSE With([numBytes \in {Min(ends)} |->
             With([lastByte \in {IF numBytes = maxBytes THEN s.bytes[maxBytes] ELSE 0} |->
             With([value \in {IntOf(SubSeq(s.bytes, 1, numBytes), signed)} |->
                ThrowUnless(
                    Yield(serializeBytes(s, <<>>, numBytes), value),
                    /\ lastByte - (lastByte % Pow2(used)) =
                            IF signed /\ (lastByte \div Pow2(used - 1)) % 2 = 1
                            THEN 128 - Pow2(used) ELSE 0
                    /\ value \in minValue .. maxValue)])])])])

serializeVarInt(s, v, maxBits, signed, minValue, maxValue) ==
    IF s.input THEN readVarInt(s, maxBits, signed, minValue, maxValue)
    ELSE writeVarInt(s, signed, minValue, maxValue, v)

serializeVarUInt1(s, v) == serializeVarInt(s, v, 1, FALSE, 0, 1)

serializeVarUInt7(s, v) == serializeVarInt(s, v, 7, FALSE, 0, 127)

serializeVarUInt8(s, v) == serializeVarInt(s, v, 8, FALSE, 0, 255)

serializeVarUInt32(s, v) == serializeVarInt(s, v, Width32, FALSE, 0, UINT32_MAX)

serializeVarInt7(s, v) == serializeVarInt(s, v, 7, TRUE, -64, 63)

serializeVarInt32(s, v) ==
    serializeVarInt(s, v, Width32, TRUE, -Pow2(Width32 - 1), Pow2(Width32 - 1) - 1)

serializeVarInt64(s, v) ==
    serializeVarInt(s, v, Width64, TRUE, -Pow2(Width64 - 1), Pow2(Width64 - 1) - 1)

-----------------------------------------------------------------------------
(* Containers.                                                             *)

\* A string, or a vector of bytes.
serializeString(s, v) ==
    With([t \in {serializeVarUInt32(s, Len(v))} |->
        serializeBytes(t, v, t.v)])

\* A loop over seq that an exception ends.
Loop(s, seq, step(_, _)) ==
    LET RECURSIVE from(_, _)
        from(t, i) == IF ~t.ok \/ i > Len(seq) THEN t ELSE from(step(t, seq[i]), i + 1)
    IN  from(s, 1)

\* The loop yields what its steps yield.
Each(s, seq, step(_, _)) ==
    Loop(Yield(s, <<>>), seq,
         LAMBDA t, x : LET u == step(t, x) IN Yield(u, Append(t.v, u.v)))

Indices(n) == [i \in 1 .. n |-> i]

\* element(s, x) reads one element, or writes x.
serializeArray(s, v, element(_, _)) ==
    With([t \in {serializeVarUInt32(s, Len(v))} |->
        IF s.input THEN Each(t, Indices(t.v), element)
        ELSE Each(t, v, element)])

throwIfNotValidUTF8(s, string) ==
    ThrowUnless(s, validateUTF8String(string) = Len(string))
=============================================================================
