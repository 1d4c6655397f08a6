-------------------------------- MODULE EHABI --------------------------------
(***************************************************************************)
(* libunwind's unwinder for ARM: an entry of the exception index gives the *)
(* byte codes that undo a function's prologue, and _Unwind_VRS_Interpret   *)
(* executes them on the virtual registers.                                 *)
(*                                                                         *)
(* A word of the tables is its four bytes, the least significant first.    *)
(* Words of the stack are counted, not bytes; a double is two words.  The  *)
(* assembler, which writes the entry for a prologue, and the processor,    *)
(* which executes the prologue, are external.                              *)
(***************************************************************************)
EXTENDS Integers, Sequences, FiniteSets, SequencesExt

CONSTANT Prologues    \* prologues to undo, with the model of their table entry

VARIABLES prologue, unwound
ehabiVars == <<prologue, unwound>>

R_SP == 13
R_LR == 14
R_PC == 15
Ascending(S) == [i \in 1..Cardinality(S) |-> CHOOSE x \in S : Cardinality({y \in S : y < x}) = i - 1]
Bits(byte) == {i \in 0..7 : (byte \div 2^i) % 2 = 1}
Shifted(S, n) == {i + n : i \in S}

----------------------------------------------------------------------------
(***************************************************************************)
(* The virtual registers: 16 core registers and 32 doubles.                *)
(***************************************************************************)

\* Core registers are popped in order; a popped stack pointer is kept.
_Unwind_VRS_Pop_CORE(c, registers, mem) ==
    LET order == Ascending(registers)
        sp == c.core[R_SP]
        popped == [r \in 0..15 |-> IF r \in registers THEN mem[sp + (CHOOSE i \in DOMAIN order : order[i] = r) - 1]
                                   ELSE c.core[r]]
    IN [c EXCEPT !.core = IF R_SP \in registers THEN popped
                          ELSE [popped EXCEPT ![R_SP] = sp + Len(order)]]
\* Doubles first, first + 1, ...; the FSTMX form ("X") has a padding word and
\* reaches d0 to d15 only: past them the pop stops, its result is not looked at
\* and the stack pointer stays.
_Unwind_VRS_Pop_VFP(c, first, count, X, mem) ==
    LET sp == c.core[R_SP]
        limit == IF X THEN 15 ELSE 31
        Popped(r) == first <= r /\ r < first + count /\ r <= limit
        vfp == [r \in 0..31 |-> IF Popped(r) THEN <<mem[sp + 2 * (r - first)], mem[sp + 2 * (r - first) + 1]>>
                                ELSE c.vfp[r]]
    IN [c EXCEPT !.vfp = vfp,
                 !.core[R_SP] = IF first + count - 1 > limit THEN @
                                ELSE sp + 2 * count + (IF X THEN 1 ELSE 0)]

----------------------------------------------------------------------------
(***************************************************************************)
(* The table entry and its byte codes.                                     *)
(***************************************************************************)

\* Words in order, but inside a word from the most to the least significant.
getByte(data, offset) == data[offset \div 4 + 1][4 - (offset % 4)]

\* Where the codes of the entry start, and how many bytes it has.
Format(word) == (word[4] % 16)
decode_eht_entry(data) ==
    IF data[1][4] < 128
      THEN [data |-> Tail(data), off |-> 1, len |-> (data[2][4] + 1) * 4]
    ELSE IF Format(data[1]) = 0 THEN [data |-> data, off |-> 1, len |-> 4]
    ELSE IF Format(data[1]) \in {1, 3} THEN [data |-> data, off |-> 2, len |-> 4 + 4 * data[1][3]]
    ELSE [data |-> << >>, off |-> 0, len |-> 0]

\* A uleb128 value: [value, offset of the next byte].
RECURSIVE Uleb(_, _, _, _)
Uleb(data, offset, value, weight) ==
    LET v == getByte(data, offset)
        sum == value + (v % 128) * weight IN
    IF v < 128 THEN [value |-> sum, offset |-> offset + 1] ELSE Uleb(data, offset + 1, sum, weight * 128)

Failure == [result |-> "_URC_FAILURE", context |-> << >>]
Interpreted(c, wrotePC) ==
    [result |-> "_URC_CONTINUE_UNWIND",
     context |-> IF wrotePC THEN c ELSE [c EXCEPT !.core[R_PC] = c.core[R_LR]]]

\* Codes of one byte: the context they lead to.  They pop registers, or move sp.
OneByte == (0..127) \cup (144..175) \cup (184..191) \cup (208..215)
OneByteCode(byte, c, mem) ==
    CASE byte < 64 -> [c EXCEPT !.core[R_SP] = @ + byte + 1]
      [] byte \in 64..127 -> [c EXCEPT !.core[R_SP] = @ - (byte - 64 + 1)]
      [] byte \in 144..159 -> [c EXCEPT !.core[R_SP] = c.core[(byte % 16)]]
      [] byte \in 160..175 ->
           _Unwind_VRS_Pop_CORE(c, (4..(4 + (byte % 8))) \cup (IF (byte % 16) >= 8 THEN {R_LR} ELSE {}), mem)
      [] byte \in 184..191 -> _Unwind_VRS_Pop_VFP(c, 8, (byte % 8) + 1, TRUE, mem)
      [] byte \in 208..215 -> _Unwind_VRS_Pop_VFP(c, 8, (byte % 8) + 1, FALSE, mem)

\* Codes with a second byte v.
TwoBytes == (128..143) \cup {177, 179, 200, 201}
CoreMask(byte, v) ==
    IF byte = 177 THEN Bits(v) ELSE Shifted(Bits(v), 4) \cup Shifted(Bits(byte % 16), 12)
TwoByteCode(byte, v, c, mem) ==
    CASE byte \in (128..143) \cup {177} -> _Unwind_VRS_Pop_CORE(c, CoreMask(byte, v), mem)
      [] byte = 179 -> _Unwind_VRS_Pop_VFP(c, v \div 16, (v % 16) + 1, TRUE, mem)
      [] OTHER -> _Unwind_VRS_Pop_VFP(c, (IF byte = 200 THEN 16 ELSE 0) + v \div 16, (v % 16) + 1, FALSE, mem)
\* What the interpreter refuses.
BadCode(byte, v) ==
    \/ byte \in {144 + R_SP, 144 + R_PC} \cup (180..183) \cup (192..199) \cup (202..207) \cup (216..255)
    \/ byte \in (128..143) \cup {177} /\ CoreMask(byte, v) = {}
    \/ byte = 177 /\ v >= 16
    \/ byte \in {200, 201} /\ (IF byte = 200 THEN 16 ELSE 0) + v \div 16 + (v % 16) >= 32

RECURSIVE _Unwind_VRS_Interpret(_, _, _, _, _, _)
_Unwind_VRS_Interpret(c, data, offset, len, wrotePC, mem) ==
    IF offset >= len THEN Interpreted(c, wrotePC)
    ELSE LET byte == getByte(data, offset)
             v == IF byte \in TwoBytes /\ offset + 1 < len THEN getByte(data, offset + 1) ELSE 0 IN
         IF byte = 176 THEN Interpreted(c, wrotePC)
         ELSE IF BadCode(byte, v) THEN Failure
         ELSE IF byte = 178
           THEN LET u == Uleb(data, offset + 1, 0, 1) IN
                _Unwind_VRS_Interpret([c EXCEPT !.core[R_SP] = @ + 129 + u.value], data, u.offset, len, wrotePC, mem)
         ELSE IF byte \in OneByte
           THEN _Unwind_VRS_Interpret(OneByteCode(byte, c, mem), data, offset + 1, len, wrotePC, mem)
         ELSE _Unwind_VRS_Interpret(TwoByteCode(byte, v, c, mem), data, offset + 2, len,
                                    wrotePC \/ (byte \in 128..143 /\ R_PC \in CoreMask(byte, v)), mem)

----------------------------------------------------------------------------
(***************************************************************************)
(* getInfoFromEHABISection: the entry of the last function that starts at  *)
(* or before pc, and where its language specific data begins, as an index  *)
(* into the words of the entry (0 is none).                                *)
(***************************************************************************)
NoInfo == [found |-> FALSE, entry |-> << >>, lsda |-> 0, flags |-> 0]
LSDAOf(entry, isSingleWordEHT) ==
    IF entry[1][4] < 128 THEN entry[2][4] + 3
    ELSE IF Format(entry[1]) = 0 THEN (IF isSingleWordEHT THEN 0 ELSE 2)
    ELSE entry[1][3] + 2
getInfoFromEHABISection(table, pc) ==
    LET before == {k \in DOMAIN table : table[k].start <= pc}
        t == table[Cardinality(before)]
    IN IF before = {} THEN NoInfo
       ELSE IF t.kind = "cantunwind" THEN NoInfo
       ELSE [found |-> TRUE, entry |-> t.entry, lsda |-> LSDAOf(t.entry, t.kind = "inline"),
             flags |-> IF t.kind = "inline" THEN 1
                       ELSE IF t.entry[1][4] >= 128 /\ Format(t.entry[1]) = 2 THEN 2 ELSE 0]

----------------------------------------------------------------------------
(***************************************************************************)
(* External: the processor runs a prologue; the assembler encodes it.      *)
(***************************************************************************)
StackTop == 200
EntryContext ==
    [core |-> [r \in 0..15 |-> IF r = R_SP THEN StackTop ELSE 1000 + r], vfp |-> [r \in 0..31 |-> <<2000 + r, 3000 + r>>]]
Execute_PUSH(s, o) ==
    LET order == Ascending(o.registers)
        sp == s.c.core[R_SP] - Len(order)
    IN [c |-> [s.c EXCEPT !.core = [r \in 0..15 |-> IF r = R_SP THEN sp ELSE IF r \in o.registers THEN 0 ELSE @[r]]],
        mem |-> [a \in DOMAIN s.mem |-> IF a \in sp..(sp + Len(order) - 1) THEN s.c.core[order[a - sp + 1]] ELSE s.mem[a]]]
Execute_VPUSH(s, o) ==
    LET sp == s.c.core[R_SP] - 2 * o.count - (IF o.X THEN 1 ELSE 0)
    IN [c |-> [s.c EXCEPT !.core[R_SP] = sp,
                 !.vfp = [r \in 0..31 |-> IF r \in o.first..(o.first + o.count - 1) THEN <<0, 0>> ELSE @[r]]],
        mem |-> [a \in DOMAIN s.mem |-> IF a \in sp..(sp + 2 * o.count - 1)
                                        THEN s.c.vfp[o.first + (a - sp) \div 2][((a - sp) % 2) + 1] ELSE s.mem[a]]]
Execute_op(s, o) ==
    CASE o.op = "push" -> Execute_PUSH(s, o)
      [] o.op = "vpush" -> Execute_VPUSH(s, o)
      [] o.op = "sub" -> [s EXCEPT !.c.core[R_SP] = @ - o.n]
      [] o.op = "setfp" -> [s EXCEPT !.c.core[o.n] = s.c.core[R_SP]]
AfterPrologue(p) ==
    FoldLeft(Execute_op, [c |-> EntryContext, mem |-> [a \in 1..StackTop |-> 0]], p)

MaskByte(S) == FoldLeft(LAMBDA n, i : n + 2^i, 0, Ascending(S))
UlebBytes(n) == IF n < 128 THEN <<n>> ELSE <<128 + (n % 128), n \div 128>>
CodeOf(o) ==
    CASE o.op = "push" /\ o.registers \subseteq 0..3 -> <<177, MaskByte(o.registers)>>
      [] o.op = "push" /\ \E n \in 0..7 : o.registers \ {R_LR} = 4..(4 + n) ->
           <<160 + Cardinality(o.registers \ {R_LR}) - 1 + (IF R_LR \in o.registers THEN 8 ELSE 0)>>
      [] o.op = "push" /\ ~(o.registers \subseteq 0..3) /\ ~(\E n \in 0..7 : o.registers \ {R_LR} = 4..(4 + n)) ->
           <<128 + MaskByte(Shifted(o.registers \cap 12..15, -12)), MaskByte(Shifted(o.registers \cap 4..11, -4))>>
      [] o.op = "vpush" /\ o.first = 8 /\ o.count <= 8 -> <<(IF o.X THEN 184 ELSE 208) + o.count - 1>>
      [] o.op = "vpush" /\ ~(o.first = 8 /\ o.count <= 8) ->
           <<IF o.X THEN 179 ELSE IF o.first >= 16 THEN 200 ELSE 201, (o.first % 16) * 16 + o.count - 1>>
      [] o.op = "sub" /\ o.n <= 64 -> <<o.n - 1>>
      [] o.op = "sub" /\ o.n \in 65..128 -> <<63, o.n - 65>>
      [] o.op = "sub" /\ o.n > 128 -> <<178>> \o UlebBytes(o.n - 129)
      [] o.op = "setfp" -> <<144 + o.n>>
CodesOf(p) == FlattenSeq([k \in DOMAIN p |-> CodeOf(p[Len(p) + 1 - k])])
Word4(b) == <<b[4], b[3], b[2], b[1]>>
Words(header, codes) ==
    LET all == header \o codes
        n == (Len(all) + 3) \div 4
        padded == all \o [k \in 1..(4 * n - Len(all)) |-> 176]
    IN [k \in 1..n |-> Word4(SubSeq(padded, 4 * k - 3, 4 * k))]
\* The word count in a header is of the words after the first.
EntryFor(model, codes) ==
    CASE model \in {"inline", "pr0"} -> Words(<<128>>, codes)
      [] model = "pr1" -> Words(<<129, (Len(codes) + 2 + 3) \div 4 - 1>>, codes)
      [] model = "generic" -> <<<<0, 0, 0, 0>>>> \o Words(<<(Len(codes) + 1 + 3) \div 4 - 1>>, codes)

----------------------------------------------------------------------------
\* The function at 100 has the prologue; the ones around it have other entries.
TableFor(p) ==
    <<[start |-> 50, kind |-> "table", entry |-> EntryFor("pr0", <<0>>)],
      [start |-> 100, kind |-> IF p.model = "inline" THEN "inline" ELSE "table", entry |-> EntryFor(p.model, CodesOf(p.ops))],
      [start |-> 120, kind |-> "cantunwind", entry |-> << >>]>>

EHABIInit == prologue \in Prologues /\ unwound = [done |-> FALSE, info |-> NoInfo, step |-> Failure]
EHABINext ==
    /\ ~unwound.done
    /\ LET info == getInfoFromEHABISection(TableFor(prologue), prologue.pc)
           after == AfterPrologue(prologue.ops)
           eht == decode_eht_entry(info.entry)
       IN unwound' = [done |-> TRUE, info |-> info,
                      step |-> IF ~info.found THEN Failure
                               ELSE _Unwind_VRS_Interpret(after.c, eht.data, eht.off, eht.len, FALSE, after.mem)]
    /\ UNCHANGED prologue

\* Interpreting the codes of a function's entry, in whichever of the models it is
\* written, gives back every register the prologue saved, the caller's stack
\* pointer and its return address; and the language specific data begins right
\* after the codes.
InterpretUndoesPrologue ==
    unwound.done =>
        IF prologue.pc >= 120 THEN ~unwound.info.found
        ELSE /\ unwound.info.lsda =
                  (IF prologue.model = "inline" THEN 0
                   ELSE Len(EntryFor(prologue.model, CodesOf(prologue.ops))) + 1)
             /\ LET c == unwound.step.context IN
                /\ unwound.step.result = "_URC_CONTINUE_UNWIND"
                /\ c.core[R_PC] = EntryContext.core[R_LR]
                /\ \A r \in (0..13) \ {prologue.scratch} : c.core[r] = EntryContext.core[r]
                /\ c.vfp = EntryContext.vfp
=============================================================================
