------------------------------ MODULE Numerics ------------------------------
(***************************************************************************)
(* The numeric, conversion and memory operators of Lib/LLVMJIT             *)
(* (EmitNumeric, EmitConvert, EmitMem) at a small width: an integer has    *)
(* W bits, a float 1 + EB + M bits.  An emitted operator denotes the set   *)
(* of values its LLVM code can produce: an LLVM operation whose result is  *)
(* undefined produces every value.  Trap stands for a trap and Escape for  *)
(* an access outside the memory's reservation.                             *)
(***************************************************************************)
EXTENDS Integers, Sequences, FiniteSets, Bitwise

CONSTANTS
    W, EB,
    Bytes,          \* the linear memory, [0 .. size - 1 -> bytes of W/2 bits]
    Questions       \* [op, a, b, c, m]: an operator, its operands and M

VARIABLES
    question,       \* the operator being computed
    answer          \* the values emitted code may give, and those it should

numericVars == <<question, answer>>

M == question.m

Trap == -1
Escape == -2

Pow(k) == 2 ^ k
N == Pow(W)
Ints == 0 .. N - 1
AnyInt == Ints

S(x, w) == IF x >= Pow(w - 1) THEN x - Pow(w) ELSE x
Abs(x) == IF x < 0 THEN -x ELSE x
TruncDiv(x, y) ==
    IF (x < 0) = (y < 0) THEN Abs(x) \div Abs(y) ELSE -(Abs(x) \div Abs(y))

\* The values f can have when its operand has one of the values in set.
Map(f(_), set) == UNION {f(x) : x \in set}

-----------------------------------------------------------------------------
(* LLVM's instructions.                                                    *)

Shl(x, k)  == IF k < W THEN {(x * Pow(k)) % N} ELSE AnyInt
LShr(x, k) == IF k < W THEN {x \div Pow(k)} ELSE AnyInt
AShr(x, k) == IF k < W THEN {(S(x, W) \div Pow(k)) % N} ELSE AnyInt
SDiv(x, y) == IF y = 0 \/ (x = N \div 2 /\ y = N - 1) THEN AnyInt
              ELSE {TruncDiv(S(x, W), S(y, W)) % N}
SRem(x, y) ==
    IF y = 0 \/ (x = N \div 2 /\ y = N - 1) THEN AnyInt
    ELSE {(S(x, W) - S(y, W) * TruncDiv(S(x, W), S(y, W))) % N}
Sext(x, from, to) == S(x, from) % Pow(to)
Zext(x, from, to) == x
TruncTo(x, to) == x % Pow(to)

\* ctlz and cttz take a flag that makes zero undefined.
Ctlz(x, zeroUndefined) ==
    IF x = 0 THEN IF zeroUndefined THEN AnyInt ELSE {W}
    ELSE {CHOOSE k \in 0 .. W - 1 : Pow(W - 1 - k) <= x /\ x < Pow(W - k)}
Cttz(x, zeroUndefined) ==
    IF x = 0 THEN IF zeroUndefined THEN AnyInt ELSE {W}
    ELSE {CHOOSE k \in 0 .. W - 1 : x % Pow(k + 1) = Pow(k)}

\* Floats as bit patterns.  Mag is a finite magnitude in units of the least
\* positive float; infinity is a magnitude above all of them.
Floats == 0 .. Pow(1 + EB + M) - 1
SignBit(f) == f \div Pow(EB + M)
ExpBits(f) == (f \div Pow(M)) % Pow(EB)
ManBits(f) == f % Pow(M)
IsNaN(f) == ExpBits(f) = Pow(EB) - 1 /\ ManBits(f) # 0
Mag(f) == IF ExpBits(f) = 0 THEN ManBits(f)
          ELSE (Pow(M) + ManBits(f)) * Pow(ExpBits(f) - 1)
Scaled(f) == IF SignBit(f) = 1 THEN -Mag(f) ELSE Mag(f)
IsInf(f) == ExpBits(f) = Pow(EB) - 1 /\ ManBits(f) = 0

\* The integer 1 in units of the least positive float.
UnitOne == Pow(Pow(EB - 1) - 2 + M)

UNO(x, y) == IsNaN(x) \/ IsNaN(y)
OLT(x, y) == ~UNO(x, y) /\ Scaled(x) < Scaled(y)
OLE(x, y) == ~UNO(x, y) /\ Scaled(x) <= Scaled(y)

\* fptosi and fptoui: undefined unless the truncated value fits.
FPToInt(f, isSigned) ==
    LET v == TruncDiv(Scaled(f), UnitOne)
        fits == IF isSigned THEN v \in -(N \div 2) .. N \div 2 - 1 ELSE v \in Ints
    IN  IF ~IsNaN(f) /\ ~IsInf(f) /\ fits THEN {v % N} ELSE AnyInt

\* A C++ conversion of an integer to float: the nearest, ties to even.
ToFloat(v) ==
    LET distance(f) == Abs(Scaled(f) - v * UnitOne)
        finite == {f \in Floats : ~IsNaN(f)}
    IN  CHOOSE f \in finite : \A g \in finite :
            \/ distance(f) < distance(g)
            \/ /\ distance(f) = distance(g) /\ ManBits(f) % 2 <= ManBits(g) % 2
               /\ SignBit(f) <= SignBit(g)

-----------------------------------------------------------------------------
(* Integer operators.                                                      *)

\* A mutant: the mask is the number of bits.
emitShiftCountMask_NumBits(shiftCount, numBits) == shiftCount & numBits

emitShiftCountMask(shiftCount, numBits) == shiftCount & (numBits - 1)

emitRotl(left, right) ==
    {x | y : x \in Shl(left, emitShiftCountMask(right, W)),
             y \in LShr(left, emitShiftCountMask((W - right) % N, W))}

emitRotr(left, right) ==
    {x | y : x \in Shl(left, emitShiftCountMask((W - right) % N, W)),
             y \in LShr(left, emitShiftCountMask(right, W))}

trapDivideByZero(right, values) == IF right = 0 THEN {Trap} ELSE values

trapDivideByZeroOrIntegerOverflow(left, right, values) ==
    IF (left = N \div 2 /\ right = N - 1) \/ right = 0 THEN {Trap} ELSE values

\* The overflowing remainder is branched around: its PHI value is zero.
emitSRem(left, right) ==
    trapDivideByZero(right,
        IF left # N \div 2 \/ right # N - 1 THEN SRem(left, right) ELSE {0})

emitIntBinary(op, left, right) ==
    CASE op = "rotl"  -> emitRotl(left, right)
      [] op = "rotr"  -> emitRotr(left, right)
      [] op = "div_s" -> trapDivideByZeroOrIntegerOverflow(left, right,
                                                           SDiv(left, right))
      [] op = "rem_s" -> emitSRem(left, right)
      [] op = "div_u" -> trapDivideByZero(right, {left \div right})
      [] op = "rem_u" -> trapDivideByZero(right, {left % right})
      [] op = "shl"   -> Shl(left, emitShiftCountMask(right, W))
      [] op = "shr_s" -> AShr(left, emitShiftCountMask(right, W))
      [] op = "shr_u" -> LShr(left, emitShiftCountMask(right, W))

emitIntUnary(op, operand) ==
    CASE op = "clz" -> Ctlz(operand, FALSE)
      [] op = "ctz" -> Cttz(operand, FALSE)
      [] op = "eqz" -> {IF operand = 0 THEN 1 ELSE 0}

\* EMIT_INT_COMPARE: zero-extended for a scalar, sign-extended for a lane.
ICmp(op, x, y) ==
    CASE op = "eq"   -> x = y
      [] op = "ne"   -> x # y
      [] op = "lt_s" -> S(x, W) < S(y, W)
      [] op = "lt_u" -> x < y
      [] op = "le_s" -> S(x, W) <= S(y, W)
      [] op = "le_u" -> x <= y
      [] op = "gt_s" -> S(x, W) > S(y, W)
      [] op = "gt_u" -> x > y
      [] op = "ge_s" -> S(x, W) >= S(y, W)
      [] op = "ge_u" -> x >= y

Bit(b) == IF b THEN 1 ELSE 0

emitIntCompare(op, left, right) == {Bit(ICmp(op, left, right))}

emitLaneCompare(op, left, right) == {Sext(Bit(ICmp(op, left, right)), 1, W)}

-----------------------------------------------------------------------------
(* Floating point operators.                                               *)

emitFPCompare(op, left, right) ==
    {Bit(CASE op = "f_eq" -> OLE(left, right) /\ OLE(right, left)
           [] op = "f_ne" -> UNO(left, right) \/ Scaled(left) # Scaled(right)
           [] op = "f_lt" -> OLT(left, right)
           [] op = "f_le" -> OLE(left, right)
           [] op = "f_gt" -> OLT(right, left)
           [] op = "f_ge" -> OLE(right, left))}

\* Equal operands are combined bit by bit, so that a zero of either sign wins.
emitFloatMin(left, right) ==
    {CASE UNO(left, left)   -> left
       [] ~UNO(left, left) /\ UNO(right, right) -> right
       [] OLT(left, right)  -> left
       [] OLT(right, left)  -> right
       [] OTHER             -> left | right}

emitFloatMax(left, right) ==
    {CASE UNO(left, left)   -> left
       [] ~UNO(left, left) /\ UNO(right, right) -> right
       [] OLT(left, right)  -> right
       [] OLT(right, left)  -> left
       [] OTHER             -> left & right}

\* The bounds of i32_trunc_f32_s and its kin: the nearest floats that are out
\* of the target's range after truncation.
MinInt(isSigned) == IF isSigned THEN -(N \div 2) ELSE 0
MaxInt(isSigned) == IF isSigned THEN N \div 2 - 1 ELSE N - 1

minBounds(isSigned) ==
    LET below == {f \in Floats : ~IsNaN(f) /\
                        Scaled(f) <= (MinInt(isSigned) - 1) * UnitOne}
    IN  CHOOSE f \in below : \A g \in below : Scaled(g) <= Scaled(f)

maxBounds(isSigned) ==
    LET above == {f \in Floats : ~IsNaN(f) /\
                        Scaled(f) >= (MaxInt(isSigned) + 1) * UnitOne}
    IN  CHOOSE f \in above : \A g \in above : Scaled(f) <= Scaled(g)

emitTruncFloatToInt(isSigned, operand) ==
    CASE UNO(operand, operand) -> {Trap}
      [] OLE(maxBounds(isSigned), operand) -> {Trap}
      [] OLE(operand, minBounds(isSigned)) -> {Trap}
      [] OTHER -> FPToInt(operand, isSigned)

\* The later a select is emitted, the more it overrides.
emitTruncFloatToIntSat(isSigned, operand) ==
    CASE UNO(operand, operand) -> {0}
      [] OLE(operand, ToFloat(MinInt(isSigned))) -> {MinInt(isSigned) % N}
      [] OLE(ToFloat(MaxInt(isSigned)), operand) -> {MaxInt(isSigned)}
      [] OTHER -> FPToInt(operand, isSigned)

emitBitSelect(mask, trueValue, falseValue) ==
    (trueValue & mask) | (falseValue & (N - 1 - mask))

\* emitVectorSelect: the condition, sign-extended to the lane, selects bits.
emitVectorSelect(condition, trueValue, falseValues) ==
    {emitBitSelect(Sext(Bit(condition), 1, W), trueValue, x) : x \in falseValues}

emitTruncVectorFloatToIntSat(isSigned, operand) ==
    emitVectorSelect(UNO(operand, operand), 0,
        emitVectorSelect(OLE(operand, ToFloat(MinInt(isSigned))),
                         MinInt(isSigned) % N,
            emitVectorSelect(OLE(ToFloat(MaxInt(isSigned)), operand),
                             MaxInt(isSigned), FPToInt(operand, isSigned))))

-----------------------------------------------------------------------------
(* Lanes.  A vector is a sequence of lanes of W bits.                      *)

Lanes(x, num) == [i \in 1 .. num |-> (x \div Pow(W * (i - 1))) % N]

emitAddUnsignedSaturated(left, right) ==
    LET add == (left + right) % N IN IF left > add THEN N - 1 ELSE add

emitSubUnsignedSaturated(left, right) ==
    ((IF left > right THEN left ELSE right) - right) % N

emitAnyTrue(v) == {Bit(\E i \in DOMAIN v : v[i] # 0)}

emitAllTrue(v) == {Bit(\A i \in DOMAIN v : v[i] # 0)}

\* pshufb: the top bit of an index clears the lane, else the index counts
\* modulo the number of lanes.
PShufB(v, index) ==
    IF index >= N \div 2 THEN 0 ELSE v[(index % Len(v)) + 1]

\* The constant, 112 of 128 for 16 lanes of 8 bits, moves every index from
\* the number of lanes on into the top half.
v8x16_swizzle(v, index) ==
    {PShufB(v, emitAddUnsignedSaturated(index, N \div 2 - Len(v)))}

v8x16_shuffle(left, right, laneIndex) == {(left \o right)[laneIndex + 1]}

\* From a lane to a value of 2W bits and back.
extract_lane(op, v, lane) ==
    {IF op = "extract_lane_s" THEN Sext(v[lane + 1], W, 2 * W)
     ELSE Zext(v[lane + 1], W, 2 * W)}

replace_lane(v, scalar, lane) ==
    {LET r == [v EXCEPT ![lane + 1] = TruncTo(scalar, W)]
     IN  r[1] + N * r[2]}

splat(scalar) == {LET x == TruncTo(scalar, W) IN x + N * x}

\* wrap, extend_s, extend_u and the extendN_s operators: a is 2W bits wide.
emitExtend(op, x) ==
    {CASE op = "wrap"      -> TruncTo(x, W)
       [] op = "extend_s"  -> Sext(TruncTo(x, W), W, 2 * W)
       [] op = "extend_u"  -> Zext(TruncTo(x, W), W, 2 * W)
       [] op = "extendN_s" -> Sext(TruncTo(x, W \div 2), W \div 2, 2 * W)}

-----------------------------------------------------------------------------
(* Memory.  An address has A bits; the reservation behind the memory traps *)
(* (see Memory), anything before it is not the memory's.                   *)

A == 3
Half == W \div 2
Size == Cardinality(DOMAIN Bytes)

\* The address is zero-extended before the offset is added, so that neither
\* wraps at the address's width.
getOffsetAndBoundedAddress(address, offset) == Zext(address, A, A + 2) + offset

Accessible(at, size, values) ==
    CASE at < 0 -> {Escape}
      [] at + size > Size -> {Trap}
      [] OTHER -> values

Read(at, size) == Bytes[at] + (IF size = 2 THEN Pow(Half) * Bytes[at + 1] ELSE 0)

\* The memory after a write, as one number.
Written(at, size, value) ==
    LET new(i) == CASE i = at -> value % Pow(Half)
                    [] i = at + 1 /\ size = 2 -> value \div Pow(Half)
                    [] OTHER -> Bytes[i]
        RECURSIVE sum(_)
        sum(i) == IF i = Size THEN 0 ELSE new(i) + Pow(Half) * sum(i + 1)
    IN  sum(0)

Width(op) == IF op \in {"load8_s", "load8_u", "store8", "rmw8_add", "rmw8_cmpxchg"}
             THEN 1 ELSE 2

Load(op, address, offset) ==
    LET at == getOffsetAndBoundedAddress(address, offset)
    IN  Accessible(at, Width(op),
            {IF op = "load8_s" THEN Sext(Read(at, 1), Half, W) ELSE Read(at, Width(op))})

Store(op, address, offset, value) ==
    LET at == getOffsetAndBoundedAddress(address, offset)
    IN  Accessible(at, Width(op),
            {Written(at, Width(op), TruncTo(value, Half * Width(op)))})

trapIfMisalignedAtomic(at, alignmentLog2, values) ==
    IF alignmentLog2 > 0 /\ at & (Pow(alignmentLog2) - 1) # 0 THEN {Trap} ELSE values

\* The value an atomic operator stores over previous.
Updated(op, previous, value, expected, w) ==
    CASE op \in {"rmw8_add", "rmw_add"} -> (previous + value) % Pow(w)
      [] op = "rmw_sub"  -> (previous - value) % Pow(w)
      [] op = "rmw_and"  -> previous & value
      [] op = "rmw_or"   -> previous | value
      [] op = "rmw_xor"  -> previous ^^ value
      [] op = "rmw_xchg" -> value
      [] op \in {"rmw8_cmpxchg", "rmw_cmpxchg"} ->
            IF previous = expected THEN value ELSE previous

\* EMIT_ATOMIC_RMW and EMIT_ATOMIC_CMPXCHG: the value operands are truncated
\* to the width in memory; the previous value and the memory are the outcome.
Atomic(op, address, value, expected) ==
    LET at == getOffsetAndBoundedAddress(address, 0)
        w == Half * Width(op)
        written(previous) ==
            Written(at, Width(op),
                    Updated(op, previous, TruncTo(value, w), TruncTo(expected, w), w))
    IN  trapIfMisalignedAtomic(at, Width(op) - 1,
            Accessible(at, Width(op),
                {Read(at, Width(op)) + N * written(Read(at, Width(op)))}))

-----------------------------------------------------------------------------
(* The emitted code of a question's operator.                              *)

IntBinary == {"rotl", "rotr", "div_s", "rem_s", "div_u", "rem_u", "shl",
              "shr_s", "shr_u"}
IntUnary == {"clz", "ctz", "eqz"}
Compare == {"eq", "ne", "lt_s", "lt_u", "le_s", "le_u", "gt_s", "gt_u", "ge_s",
            "ge_u"}
LaneCompare == {"lane_lt_s", "lane_ge_u"}
FPCompare == {"f_eq", "f_ne", "f_lt", "f_le", "f_gt", "f_ge"}
Extends == {"wrap", "extend_s", "extend_u", "extendN_s"}
Loads == {"load", "load8_s", "load8_u"}
Stores == {"store", "store8"}
Atomics == {"rmw8_add", "rmw_add", "rmw_sub", "rmw_and", "rmw_or", "rmw_xor",
            "rmw_xchg", "rmw8_cmpxchg", "rmw_cmpxchg"}

Vector == <<5, 9, 14, 3>>
Other == <<1, 2, 4, 8>>

Emitted(q) ==
    CASE q.op \in IntBinary -> emitIntBinary(q.op, q.a, q.b)
      [] q.op \in IntUnary  -> emitIntUnary(q.op, q.a)
      [] q.op \in Compare   -> emitIntCompare(q.op, q.a, q.b)
      [] q.op = "lane_lt_s" -> emitLaneCompare("lt_s", q.a, q.b)
      [] q.op = "lane_ge_u" -> emitLaneCompare("ge_u", q.a, q.b)
      [] q.op \in FPCompare -> emitFPCompare(q.op, q.a, q.b)
      [] q.op = "min"       -> emitFloatMin(q.a, q.b)
      [] q.op = "max"       -> emitFloatMax(q.a, q.b)
      [] q.op = "trunc_s"   -> emitTruncFloatToInt(TRUE, q.a)
      [] q.op = "trunc_u"   -> emitTruncFloatToInt(FALSE, q.a)
      [] q.op = "trunc_sat_s" -> emitTruncFloatToIntSat(TRUE, q.a)
      [] q.op = "trunc_sat_u" -> emitTruncFloatToIntSat(FALSE, q.a)
      [] q.op = "lane_trunc_sat_s" -> emitTruncVectorFloatToIntSat(TRUE, q.a)
      [] q.op = "lane_trunc_sat_u" -> emitTruncVectorFloatToIntSat(FALSE, q.a)
      [] q.op = "add_saturate_u" -> {emitAddUnsignedSaturated(q.a, q.b)}
      [] q.op = "sub_saturate_u" -> {emitSubUnsignedSaturated(q.a, q.b)}
      [] q.op = "any_true"  -> emitAnyTrue(Lanes(q.a, 2))
      [] q.op = "all_true"  -> emitAllTrue(Lanes(q.a, 2))
      [] q.op = "swizzle"   -> v8x16_swizzle(Vector, q.a)
      [] q.op = "shuffle"   -> v8x16_shuffle(Vector, Other, q.a)
      [] q.op \in {"extract_lane_s", "extract_lane_u"} ->
            extract_lane(q.op, Vector, q.a)
      [] q.op = "replace_lane" -> replace_lane(<<5, 9>>, q.b, q.a)
      [] q.op = "splat"     -> splat(q.a)
      [] q.op \in Extends   -> emitExtend(q.op, q.a)
      [] q.op = "bitselect" -> {emitBitSelect(q.a, q.b, q.c)}
      [] q.op \in Loads     -> Load(q.op, q.a, q.b)
      [] q.op \in Stores    -> Store(q.op, q.a, q.b, q.c)
      [] q.op \in Atomics   -> Atomic(q.op, q.a, q.b, q.c)

-----------------------------------------------------------------------------
(* What WebAssembly defines the operators to give: the acceptable values.  *)

BitOf(x, i) == (x \div Pow(i)) % 2

\* The number whose bit i is bit(i).
FromBits(bit(_), w) ==
    CHOOSE x \in 0 .. Pow(w) - 1 : \A i \in 0 .. w - 1 : BitOf(x, i) = bit(i)

\* Bits move by k places modulo the width; places left empty are filled.
Moved(x, k, fill) ==
    FromBits(LAMBDA i : IF i + k \in 0 .. W - 1 THEN BitOf(x, i + k) ELSE fill, W)

Rotated(x, k) == FromBits(LAMBDA i : BitOf(x, (i + k) % W), W)

Quotient(x, y) ==
    CHOOSE z \in -N .. N : /\ Abs(z * y) <= Abs(x) /\ Abs(x) - Abs(z * y) < Abs(y)
                           /\ z # 0 => (z > 0) = ((x < 0) = (y < 0))

DefinedBinary(op, x, y) ==
    LET k == y % W
        sx == S(x, W)
        sy == S(y, W)
    IN  CASE op = "shl"   -> {Moved(x, -k, 0)}
          [] op = "shr_u" -> {Moved(x, k, 0)}
          [] op = "shr_s" -> {Moved(x, k, BitOf(x, W - 1))}
          [] op = "rotr"  -> {Rotated(x, k)}
          [] op = "rotl"  -> {Rotated(x, W - k)}
          [] op \in {"div_s", "rem_s", "div_u", "rem_u"} /\ y = 0 -> {Trap}
          [] op = "div_s" /\ y # 0 ->
                IF Quotient(sx, sy) = N \div 2 THEN {Trap}
                ELSE {Quotient(sx, sy) % N}
          [] op = "rem_s" /\ y # 0 -> {(sx - sy * Quotient(sx, sy)) % N}
          [] op = "div_u" /\ y # 0 -> {Quotient(x, y)}
          [] op = "rem_u" /\ y # 0 -> {x - y * Quotient(x, y)}

DefinedUnary(op, x) ==
    CASE op = "clz" -> {Cardinality({i \in 0 .. W - 1 : x < Pow(i)})}
      [] op = "ctz" -> {Cardinality({i \in 1 .. W : x % Pow(i) = 0})}
      [] op = "eqz" -> {Bit(\A i \in 0 .. W - 1 : BitOf(x, i) = 0)}

\* A float's place in the total order in which -0 is before +0.
Place(f) == IF SignBit(f) = 1 THEN -1 - Mag(f) ELSE Mag(f)

NaNs == {f \in Floats : IsNaN(f)}

DefinedMinMax(op, x, y) ==
    IF IsNaN(x) \/ IsNaN(y) THEN NaNs
    ELSE {f \in {x, y} : \A g \in {x, y} :
                IF op = "min" THEN Place(f) <= Place(g) ELSE Place(g) <= Place(f)}

DefinedTrunc(f, isSigned, saturates) ==
    LET v == TruncDiv(Scaled(f), UnitOne)
    IN  CASE IsNaN(f) -> {IF saturates THEN 0 ELSE Trap}
          [] ~IsNaN(f) /\ v \in MinInt(isSigned) .. MaxInt(isSigned) -> {v % N}
          [] OTHER -> IF ~saturates THEN {Trap}
                      ELSE {(IF v < 0 THEN MinInt(isSigned) ELSE MaxInt(isSigned)) % N}

DefinedCompare(op, x, y) ==
    {Bit(CASE op = "eq" -> x = y
           [] op = "ne" -> x # y
           [] op \in {"lt_s", "lane_lt_s"} -> S(y, W) - S(x, W) > 0
           [] op = "le_s" -> S(y, W) - S(x, W) >= 0
           [] op = "gt_s" -> S(x, W) - S(y, W) > 0
           [] op = "ge_s" -> S(x, W) - S(y, W) >= 0
           [] op = "lt_u" -> y - x > 0
           [] op = "le_u" -> y - x >= 0
           [] op = "gt_u" -> x - y > 0
           [] op \in {"ge_u", "lane_ge_u"} -> x - y >= 0)}

\* Comparisons with a NaN are false but for ne; both zeros are equal.
DefinedFPCompare(op, x, y) ==
    LET ordered == ~IsNaN(x) /\ ~IsNaN(y)
        equal == ordered /\ (x = y \/ (Mag(x) = 0 /\ Mag(y) = 0))
        less == ordered /\ ~equal /\ Place(x) < Place(y)
    IN  {Bit(CASE op = "f_eq" -> equal
               [] op = "f_ne" -> ~equal
               [] op = "f_lt" -> less
               [] op = "f_le" -> less \/ equal
               [] op = "f_gt" -> ordered /\ ~less /\ ~equal
               [] op = "f_ge" -> ordered /\ ~less)}

\* The effective address is a mathematical sum.
DefinedAccess(op, address, offset, values) ==
    IF address + offset + Width(op) > Size THEN {Trap} ELSE values

DefinedAtomic(op, at, value, expected) ==
    LET w == Half * Width(op)
        previous == Read(at, Width(op))
    IN  IF at % Width(op) # 0 THEN {Trap}
        ELSE DefinedAccess(op, at, 0,
            {previous + N * Written(at, Width(op),
                Updated(op, previous, value % Pow(w), expected % Pow(w), w))})

AllOnes(set) == {IF x = 1 THEN N - 1 ELSE 0 : x \in set}

Defined(q) ==
    CASE q.op \in IntBinary -> DefinedBinary(q.op, q.a, q.b)
      [] q.op \in IntUnary  -> DefinedUnary(q.op, q.a)
      [] q.op \in Compare   -> DefinedCompare(q.op, q.a, q.b)
      [] q.op \in LaneCompare -> AllOnes(DefinedCompare(q.op, q.a, q.b))
      [] q.op \in FPCompare -> DefinedFPCompare(q.op, q.a, q.b)
      [] q.op \in {"min", "max"} -> DefinedMinMax(q.op, q.a, q.b)
      [] q.op = "trunc_s"   -> DefinedTrunc(q.a, TRUE, FALSE)
      [] q.op = "trunc_u"   -> DefinedTrunc(q.a, FALSE, FALSE)
      [] q.op \in {"trunc_sat_s", "lane_trunc_sat_s"} -> DefinedTrunc(q.a, TRUE, TRUE)
      [] q.op \in {"trunc_sat_u", "lane_trunc_sat_u"} -> DefinedTrunc(q.a, FALSE, TRUE)
      [] q.op = "add_saturate_u" -> {IF q.a + q.b >= N THEN N - 1 ELSE q.a + q.b}
      [] q.op = "sub_saturate_u" -> {IF q.a >= q.b THEN q.a - q.b ELSE 0}
      [] q.op = "any_true"  -> {Bit(q.a # 0)}
      [] q.op = "all_true"  -> {Bit(q.a % N # 0 /\ q.a \div N # 0)}
      [] q.op = "swizzle"   -> {IF q.a < 4 THEN Vector[q.a + 1] ELSE 0}
      [] q.op = "shuffle"   -> {IF q.a < 4 THEN Vector[q.a + 1] ELSE Other[q.a - 3]}
      [] q.op = "extract_lane_s" -> {S(Vector[q.a + 1], W) % Pow(2 * W)}
      [] q.op = "extract_lane_u" -> {Vector[q.a + 1]}
      [] q.op = "replace_lane" ->
            {IF q.a = 0 THEN (q.b % N) + 9 * N ELSE 5 + N * (q.b % N)}
      [] q.op = "splat"     -> {(q.a % N) * (N + 1)}
      [] q.op = "wrap"      -> {q.a % N}
      [] q.op = "extend_s"  -> {S(q.a % N, W) % Pow(2 * W)}
      [] q.op = "extend_u"  -> {q.a % N}
      [] q.op = "extendN_s" -> {S(q.a % Pow(Half), Half) % Pow(2 * W)}
      [] q.op = "bitselect" ->
            {FromBits(LAMBDA i : IF BitOf(q.a, i) = 1 THEN BitOf(q.b, i)
                                 ELSE BitOf(q.c, i), W)}
      [] q.op \in Loads     ->
            DefinedAccess(q.op, q.a, q.b,
                {IF q.op = "load8_s" THEN S(Bytes[q.a + q.b], Half) % N
                 ELSE Read(q.a + q.b, Width(q.op))})
      [] q.op \in Stores    ->
            DefinedAccess(q.op, q.a, q.b,
                {Written(q.a + q.b, Width(q.op), q.c % Pow(Half * Width(q.op)))})
      [] q.op \in Atomics   -> DefinedAtomic(q.op, q.a, q.b, q.c)

-----------------------------------------------------------------------------
NumericInit == question \in Questions /\ answer = [emitted |-> {}, defined |-> {}]

Compute ==
    /\ answer.emitted = {}
    /\ answer' = [emitted |-> Emitted(question), defined |-> Defined(question)]
    /\ UNCHANGED question

\* Whatever LLVM may make of an undefined result, the code emitted for an
\* operator (EmitNumeric.cpp, EmitConvert.cpp, EmitMem.cpp) gives only values
\* that WebAssembly defines, and traps exactly where it traps.
OperatorsAreExact == answer.emitted \subseteq answer.defined
=============================================================================
