----------------------------- MODULE MCUnwind -----------------------------
(* libunwind on small instances: the register files of the processors it   *)
(* supports, or a thread of a program of five functions and two JIT        *)
(* compiled images at the same addresses.                                  *)
EXTENDS Registers, Unwind, CompactUnwind, EHABI

-----------------------------------------------------------------------------
(***************************************************************************)
(* What evaluateExpression computes, against the meaning of the term that  *)
(* a compiler turned into the expression.                                  *)
(***************************************************************************)

CONSTANTS Terms,        \* terms to compile
          TermRegs,     \* the registers they read
          TermMemory    \* and the memory

VARIABLES term, result
expressionVars == <<term, result>>

\* The value of a term: arithmetic on integers, taken as a word.
RECURSIVE Meaning(_)
Meaning(t) ==
    CASE t.k = "number" -> Word(t.n)
      [] t.k = "register" -> Word(TermRegs[t.r] + t.n)
      [] t.k = "load" -> TermMemory[Meaning(t.a)] % 2^(8 * t.n)
      [] t.k = "negate" -> Word(-Meaning(t.a))
      [] t.k = "magnitude" -> LET v == Meaning(t.a) IN IF v < 2^(WordBits - 1) THEN v ELSE 2^WordBits - v
      [] t.k = "complement" -> 2^WordBits - 1 - Meaning(t.a)
      [] t.k = "sum" -> Word(Meaning(t.a) + Meaning(t.b))
      [] t.k = "difference" -> Word(Meaning(t.a) - Meaning(t.b))
      [] t.k = "product" -> Word(Meaning(t.a) * Meaning(t.b))
      [] t.k = "square" -> LET v == Meaning(t.a) IN Word(v * v)
      [] t.k = "less" -> IF Meaning(t.a) < Meaning(t.b) THEN 1 ELSE 0
      [] t.k = "atmost" -> IF Meaning(t.a) <= Meaning(t.b) THEN 1 ELSE 0
      [] t.k = "equal" -> IF Meaning(t.a) = Meaning(t.b) THEN 1 ELSE 0
      [] t.k = "divide" ->
           LET a == Signed(Meaning(t.a))
               b == Signed(Meaning(t.b))
               m == (IF a < 0 THEN -a ELSE a) \div (IF b < 0 THEN -b ELSE b)
           IN Word(IF (a < 0) = (b < 0) THEN m ELSE -m)
      [] t.k = "double" -> Word(2 * Meaning(t.a))
      [] t.k = "half" -> Meaning(t.a) \div 2
      [] t.k = "halfsigned" -> Word(Signed(Meaning(t.a)) \div 2)
      [] t.k = "choose" -> IF Meaning(t.c) # 0 THEN Meaning(t.a) ELSE Meaning(t.b)

\* A compiler's translation (external): operands first, "turned" ones in the
\* other order and then swapped.
Turned(t, a, b, op) == IF t.turned THEN b \o a \o <<<<"DW_OP_swap">>>> \o op ELSE a \o b \o op
RECURSIVE Compile(_)
Compile(t) ==
    CASE t.k = "number" -> <<IF t.n \in 0..31 THEN <<"DW_OP_lit", t.n>> ELSE <<"DW_OP_consts", t.n>>>>
      [] t.k = "register" -> <<IF t.n = 0 THEN <<"DW_OP_reg", t.r>> ELSE <<"DW_OP_breg", t.r, t.n>>>>
      [] t.k = "load" -> Compile(t.a) \o <<IF 8 * t.n >= WordBits THEN <<"DW_OP_deref">> ELSE <<"DW_OP_deref_size", t.n>>>>
      [] t.k = "negate" -> Compile(t.a) \o <<<<"DW_OP_neg">>>>
      [] t.k = "magnitude" -> Compile(t.a) \o <<<<"DW_OP_abs">>>>
      [] t.k = "complement" -> Compile(t.a) \o <<<<"DW_OP_not">>>>
      [] t.k = "sum" -> IF t.b.k = "number" /\ ~t.turned THEN Compile(t.a) \o <<<<"DW_OP_plus_uconst", t.b.n>>>>
                        ELSE Turned(t, Compile(t.a), Compile(t.b), <<<<"DW_OP_plus">>>>)
      [] t.k = "difference" -> Turned(t, Compile(t.a), Compile(t.b), <<<<"DW_OP_minus">>>>)
      [] t.k = "product" -> Turned(t, Compile(t.a), Compile(t.b), <<<<"DW_OP_mul">>>>)
      [] t.k = "square" -> Compile(t.a) \o <<<<"DW_OP_dup">>, <<"DW_OP_mul">>>>
      [] t.k = "less" -> IF t.turned THEN Compile(t.b) \o Compile(t.a) \o <<<<"DW_OP_gt">>>>
                         ELSE Compile(t.a) \o Compile(t.b) \o <<<<"DW_OP_lt">>>>
      [] t.k = "atmost" -> IF t.turned THEN Compile(t.b) \o Compile(t.a) \o <<<<"DW_OP_ge">>>>
                           ELSE Compile(t.a) \o Compile(t.b) \o <<<<"DW_OP_le">>>>
      [] t.k = "equal" -> IF t.turned THEN Compile(t.a) \o Compile(t.b) \o <<<<"DW_OP_ne">>, <<"DW_OP_lit", 1>>, <<"DW_OP_xor">>>>
                          ELSE Compile(t.a) \o Compile(t.b) \o <<<<"DW_OP_eq">>>>
      [] t.k = "divide" -> Turned(t, Compile(t.a), Compile(t.b), <<<<"DW_OP_div">>>>)
      \* a; 2a by way of the third element and the rotation
      [] t.k = "double" -> IF t.turned THEN Compile(t.a) \o <<<<"DW_OP_lit", 1>>, <<"DW_OP_shl">>>>
                           ELSE Compile(t.a) \o <<<<"DW_OP_lit", 9>>, <<"DW_OP_over">>, <<"DW_OP_rot">>, <<"DW_OP_drop">>,
                                                  <<"DW_OP_plus">>>>
      [] t.k = "half" -> Compile(t.a) \o <<<<"DW_OP_lit", 1>>, <<"DW_OP_shr">>>>
      [] t.k = "halfsigned" -> Compile(t.a) \o <<<<"DW_OP_lit", 1>>, <<"DW_OP_shra">>>>
      [] t.k = "choose" ->
           LET a == Compile(t.a)
               b == Compile(t.b)
           IN Compile(t.c) \o <<<<"DW_OP_bra", Len(b) + 1>>>> \o b \o <<<<"DW_OP_skip", Len(a)>>>> \o a

ExpressionsInit == term \in Terms /\ result = -1
ExpressionsNext ==
    /\ result = -1
    /\ result' = evaluateExpression(Compile(term), 0, TermRegs, TermMemory)
    /\ UNCHANGED term

\* The stack machine of evaluateExpression computes the meaning of the term the
\* expression was compiled from, whatever the order of its operands, its
\* branches and the signs of its values.
ExpressionsEvaluate == result # -1 => result = Meaning(term)

-----------------------------------------------------------------------------
(***************************************************************************)
(* The instances.                                                          *)
(***************************************************************************)

AllArchs == {"x86", "x86_64", "ppc", "ppc64", "arm64", "arm", "or1k", "mips_o32", "mips_newabi"}
OneSet == [a \in AllArchs |-> IF a = "arm" THEN 2 ELSE 1]

----------------------------------------------------------------------------
\* A push, a move or an adjustment is one byte of code here, a call two.

CIE(personality) ==
    [codeAlignFactor |-> 1, dataAlignFactor |-> -1, returnAddressRegister |-> 16, personality |-> personality,
     instructions |-> <<<<"DW_CFA_def_cfa", rsp, 1>>, <<"DW_CFA_offset", 16, 1>>>>]
SimpleCIE == [CIE(FALSE) EXCEPT !.instructions = << >>]
Fn(start, end, cie, instructions, sites) ==
    [pcStart |-> start, pcEnd |-> end, cie |-> cie, instructions |-> instructions, sites |-> sites]
Plain(path, ra) == [path |-> path, ra |-> ra, region |-> "none", pad |-> 0, padRA |-> 0, popped |-> 0]
Padded(path, ra, region, pad, padRA) ==
    [path |-> path, ra |-> ra, region |-> region, pad |-> pad, padRA |-> padRA, popped |-> 0]
Advance(n) == <<"DW_CFA_advance_loc", n>>

\* The thread's first function: 2 words of locals.
EntryFn == Fn(200, 210, CIE(FALSE), <<Advance(1), <<"DW_CFA_def_cfa_offset", 3>>>>,
              {Plain(<<<<"sub", 2>>>>, 203)})
\* With a frame pointer; its second call pushes an argument.
FrameSave == <<<<"push", rbp>>, <<"mov", rbp, rsp>>, <<"push", rbx>>, <<"set", rbx>>>>
FrameFn ==
    Fn(210, 234, CIE(TRUE),
       <<Advance(1), <<"DW_CFA_def_cfa_offset", 2>>, <<"DW_CFA_offset", rbp, 2>>,
         <<"DW_CFA_advance_loc1", 1>>, <<"DW_CFA_def_cfa_register", rbp>>,
         <<"DW_CFA_advance_loc2", 1>>, <<"DW_CFA_offset_extended", rbx, 3>>,
         Advance(4), <<"DW_CFA_GNU_args_size", 1>>, <<"DW_CFA_advance_loc4", 3>>, <<"DW_CFA_GNU_args_size", 0>>>>,
       {Padded(FrameSave, 216, "cleanup", 230, 233),
        [Padded(FrameSave \o <<<<"push", rax>>>>, 219, "catch", 230, 233) EXCEPT !.popped = 1]})
\* Without one; it returns in the middle and ends in a call that does not return,
\* so that the call's return address is the first address of the next function.
LeafSave == <<<<"push", rbx>>, <<"set", rbx>>>>
FramelessFn ==
    Fn(234, 245, CIE(TRUE),
       <<Advance(1), <<"DW_CFA_def_cfa_offset", 2>>, <<"DW_CFA_offset", rbx, 2>>,
         Advance(4), <<"DW_CFA_remember_state">>, <<"DW_CFA_restore", rbx>>, <<"DW_CFA_def_cfa_offset", 1>>,
         Advance(1), <<"DW_CFA_restore_state">>>>,
       {Padded(LeafSave, 238, "cleanup", 240, 243), Padded(LeafSave, 245, "catch", 240, 243)})
\* forkedStackTrampoline: the context is at the stack pointer.
AtSP(k) == <<<<"DW_OP_breg", rsp, k>>, <<"DW_OP_deref">>>>
forkedStackTrampoline ==
    Fn(245, 250, SimpleCIE,
       <<<<"DW_CFA_def_cfa_expression", AtSP(1)>>, <<"DW_CFA_val_expression", rbx, AtSP(0)>>,
         <<"DW_CFA_val_expression", rbp, AtSP(2)>>, <<"DW_CFA_val_expression", r12, AtSP(3)>>,
         <<"DW_CFA_val_expression", 16, AtSP(4)>>>>,
       {Plain(<<<<"fork", 20>>>>, 247)})
RaiseFn == Fn(260, 270, CIE(FALSE), <<Advance(1), <<"DW_CFA_def_cfa_offset", 2>>, <<"DW_CFA_offset", r12, 2>>>>,
              {Plain(<<<<"push", r12>>, <<"set", r12>>>>, 264)})
ResumeFn == Fn(270, 280, CIE(FALSE), <<Advance(1), <<"DW_CFA_def_cfa_offset", 3>>>>, {Plain(<<<<"sub", 2>>>>, 273)})

JIT1 ==
    Fn(300, 313, CIE(TRUE), <<Advance(1), <<"DW_CFA_def_cfa_offset", 2>>, <<"DW_CFA_offset", r12, 2>>, Advance(1),
         <<"DW_CFA_def_cfa_offset", 4>>>>,
       {Padded(<<<<"push", r12>>, <<"sub", 2>>, <<"set", r12>>>>, 305, "catch", 306, 309)})
JIT2 ==
    Fn(300, 309, CIE(TRUE), <<Advance(1), <<"DW_CFA_def_cfa_offset", 2>>, <<"DW_CFA_offset", rbp, 2>>, Advance(1),
         <<"DW_CFA_def_cfa_register", rbp>>>>,
       {Padded(<<<<"push", rbp>>, <<"mov", rbp, rsp>>>>, 304, "cleanup", 305, 308)})
JIT3 == Fn(309, 313, CIE(FALSE), <<Advance(1), <<"DW_CFA_def_cfa_offset", 4>>>>, {Plain(<<<<"sub", 3>>>>, 312)})

Program == <<RaiseFn, FramelessFn, EntryFn, forkedStackTrampoline, FrameFn, ResumeFn>>
Images == {<<JIT1>>, <<JIT2, JIT3>>}
Called == {FrameFn, FramelessFn}
Threads == {<<EntryFn>>, <<EntryFn, forkedStackTrampoline>>}

----------------------------------------------------------------------------
\* Terms over small and extreme words.
Num(n) == [k |-> "number", n |-> n]
Reg(r, n) == [k |-> "register", r |-> r, n |-> n]
Leaves == {Num(0), Num(5), Num(-2), Num(40), Num(2^11), Reg(rbx, 0), Reg(rsp, 3)}
Un(k, a) == [k |-> k, a |-> a]
Bin(k, a, b, turned) == [k |-> k, a |-> a, b |-> b, turned |-> turned]
Unary == {Un(k, a) : k \in {"negate", "magnitude", "complement", "square", "half", "halfsigned"}, a \in Leaves}
         \cup {[Un("double", a) EXCEPT !.a = a] @@ [turned |-> t] : a \in Leaves, t \in BOOLEAN}
Binary(A, B) == {Bin(k, a, b, t) : k \in {"sum", "difference", "product", "less", "atmost", "equal"},
                                   a \in A, b \in B, t \in BOOLEAN}
Divisions == {Bin("divide", a, b, t) : a \in Leaves, b \in {Num(5), Num(-2)}, t \in BOOLEAN}
Loads == {[k |-> "load", a |-> Num(n), n |-> w] : n \in {0, 5}, w \in {1, 2}}
Inner == {Bin("difference", Num(5), Reg(rbx, 0), FALSE), Un("negate", Reg(rsp, 3)), Num(40)}
Alternatives == {[k |-> "choose", c |-> c, a |-> a, b |-> b] : c \in Inner \cup {Num(0)}, a \in Inner, b \in Loads \cup {Num(0)}}
AllTerms == Leaves \cup Unary \cup Binary(Leaves, Leaves) \cup Divisions \cup Loads \cup Alternatives \cup Binary(Inner, Inner)
TermRegisters == rbx :> 7 @@ rsp :> 4000
TermWords == [a \in 0..5 |-> 300 + a]

----------------------------------------------------------------------------
\* Frames of x86_64: memory at words 1 to 30; the caller's registers are 101...
CallerRegs(sp) == [r \in 1..8 |-> IF r = SP THEN sp ELSE 100 + r]
MemoryWith(f) == [a \in 1..30 |-> IF a \in DOMAIN f THEN f[a] ELSE 0]
ArrangementsOf(S) == {s \in UNION {[1..n -> S] : n \in 0..Cardinality(S)} : \A i, j \in DOMAIN s : i # j => s[i] # s[j]}
\* The compiler's number of an arrangement: its rank among the arrangements of
\* that many of the six registers, in lexicographic order.
RECURSIVE Falling(_, _)
Falling(n, k) == IF k = 0 THEN 1 ELSE n * Falling(n - 1, k - 1)
RankAt(s, i) == Cardinality({r \in 1..(s[i] - 1) : \A j \in 1..(i - 1) : s[j] # r})
ArrangementNumber(s) ==
    LET n == Len(s)
        sum[i \in 0..n] == IF i = 0 THEN 0 ELSE sum[i - 1] + RankAt(s, i) * Falling(6 - i, n - i)
    IN sum[n]
\* Without a frame pointer: size words from sp to the return address included.
FramelessFrame(s, indirect) ==
    LET n == Len(s)
        size == n + 4
        ra == 5 + size - 1
    IN [arm |-> FALSE, caller |-> CallerRegs(ra + 1),
        regs |-> [r \in 1..8 |-> IF r = SP THEN 5 ELSE IF r = IP THEN 900 ELSE IF r \in ToSet(s) THEN 0 ELSE 100 + r],
        mem |-> MemoryWith([a \in (ra - n)..ra |-> IF a = ra THEN 100 + IP ELSE 100 + s[a - (ra - n) + 1]]),
        encoding |-> [mode |-> IF indirect THEN "STACK_IND" ELSE "STACK_IMMD", size |-> size, subl |-> size - 2,
                      adjust |-> 2, count |-> n, permutation |-> ArrangementNumber(s)]]
\* With one: five slots from offset words below it, 0 for none.
BPFrame(locations, offset) ==
    [arm |-> FALSE, caller |-> CallerRegs(22),
     regs |-> [r \in 1..8 |-> IF r = BP THEN 20 ELSE IF r = SP THEN 3 ELSE IF r = IP THEN 900
                              ELSE IF r \in ToSet(locations) THEN 0 ELSE 100 + r],
     mem |-> MemoryWith([a \in ((20 - offset)..(20 - offset + 4)) \cup {20, 21} |->
                 IF a = 20 THEN 100 + BP ELSE IF a = 21 THEN 100 + IP
                 ELSE IF locations[a - (20 - offset) + 1] = 0 THEN 0 ELSE 100 + locations[a - (20 - offset) + 1]]),
     encoding |-> [mode |-> "RBP_FRAME", offset |-> offset, locations |-> locations]]
Slots == {s \in [1..5 -> {0, 1, 3, 5}] : \A i, j \in 1..5 : i # j /\ s[i] # 0 => s[i] # s[j]}
\* arm64: the pairs below the saved fp and lr, or none and lr in its register.
ArmFrame(pairs) ==
    LET order == PairRegisters(pairs) IN
    [arm |-> TRUE, caller |-> [r \in 1..22 |-> IF r = ARMSP THEN 27 ELSE IF r = LR THEN 0 ELSE 100 + r],
     regs |-> [r \in 1..22 |-> IF r = FP THEN 25 ELSE IF r = ARMSP THEN 2 ELSE IF r = LR THEN 0
                               ELSE IF r = ARMPC THEN 900 ELSE IF r \in ToSet(order) THEN 0 ELSE 100 + r],
     mem |-> MemoryWith([a \in ((25 - Len(order))..26) |->
                 IF a = 25 THEN 100 + FP ELSE IF a = 26 THEN 100 + ARMPC ELSE 100 + order[25 - a]]),
     encoding |-> [mode |-> "FRAME", pairs |-> pairs]]
ArmLeaf(size) ==
    [arm |-> TRUE, caller |-> [r \in 1..22 |-> IF r = ARMSP THEN 10 + size ELSE IF r \in {LR, ARMPC} THEN 777 ELSE 100 + r],
     regs |-> [r \in 1..22 |-> IF r = ARMSP THEN 10 ELSE IF r = ARMPC THEN 900 ELSE IF r = LR THEN 777 ELSE 100 + r],
     mem |-> MemoryWith(<< >>), encoding |-> [mode |-> "FRAMELESS", pairs |-> {}, size |-> size]]
AllFrames ==
    {FramelessFrame(s, FALSE) : s \in ArrangementsOf(1..6)} \cup {FramelessFrame(s, TRUE) : s \in ArrangementsOf({2, 4, 6})}
    \cup {BPFrame(s, o) : s \in Slots, o \in {5, 8}} \cup {ArmFrame(p) : p \in SUBSET (1..9)} \cup {ArmLeaf(n) : n \in 0..3}

\* Five functions on a regular page and a compressed one.
Enc(m, lsda, personality) == [mode |-> m, hasLSDA |-> lsda, personality |-> personality]
Fun(start, end, encoding, lsda, personality) ==
    [start |-> start, end |-> end, encoding |-> encoding, lsda |-> lsda, personality |-> personality]
TwoPages ==
    [functions |-> {Fun(10, 14, 1, 0, 0), Fun(14, 15, 2, 71, 91), Fun(15, 20, 3, 72, 92), Fun(20, 24, 1, 0, 0), Fun(24, 30, 4, 73, 91)},
     common |-> <<Enc(1, FALSE, 0)>>, personalities |-> <<91, 92>>,
     index |->
       <<[first |-> 10, page |-> [kind |-> "regular", offsets |-> <<10, 14, 15>>,
                                  encodings |-> <<Enc(1, FALSE, 0), Enc(2, TRUE, 1), Enc(3, TRUE, 2)>>],
          lsdas |-> <<[function |-> 14, lsda |-> 71], [function |-> 15, lsda |-> 72]>>],
         [first |-> 20, page |-> [kind |-> "compressed", offsets |-> <<0, 4>>, indices |-> <<0, 1>>,
                                  encodings |-> <<Enc(4, TRUE, 1)>>],
          lsdas |-> <<[function |-> 24, lsda |-> 73]>>],
         [first |-> 30, page |-> [kind |-> "none"], lsdas |-> << >>]>>]
CompactSections == {TwoPages}

----------------------------------------------------------------------------
\* ARM prologues; r7 may become the frame pointer.
Push(S) == [op |-> "push", registers |-> S, first |-> 0, count |-> 0, X |-> FALSE, n |-> 0]
VPush(first, count, X) == [op |-> "vpush", registers |-> {}, first |-> first, count |-> count, X |-> X, n |-> 0]
Sub(n) == [op |-> "sub", registers |-> {}, first |-> 0, count |-> 0, X |-> FALSE, n |-> n]
SetFP(r) == [op |-> "setfp", registers |-> {}, first |-> 0, count |-> 0, X |-> FALSE, n |-> r]
Saves == {<<Push({4, R_LR})>>, <<Push({4, 5, 6, 7, R_LR})>>, <<Push(4..11)>>, <<Push({5, 9, R_LR})>>, <<Push({4, 11, 12, R_LR})>>,
          <<Push(0..3), Push({7, R_LR})>>, <<Push({1, 3}), Push({4, 7, R_LR})>>}
Doubles == {<< >>, <<VPush(8, 2, FALSE)>>, <<VPush(8, 8, TRUE)>>, <<VPush(3, 4, TRUE)>>, <<VPush(4, 2, FALSE)>>, <<VPush(18, 3, FALSE)>>}
Locals == {<< >>, <<Sub(1)>>, <<Sub(64)>>, <<Sub(100)>>, <<Sub(129)>>, <<SetFP(7), Sub(5)>>}
Fits(model, ops) ==
    LET n == Len(CodesOf(ops)) IN model \in {"pr1", "generic"} \/ n <= 3
PrologueCase(m, ops, pc) == [model |-> m, ops |-> ops, pc |-> pc, scratch |-> IF SetFP(7) \in ToSet(ops) THEN 7 ELSE R_SP]
AllPrologues ==
    {PrologueCase(m, s \o d \o l, pc) : m \in {"inline", "pr0", "pr1", "generic"}, s \in Saves, d \in Doubles, l \in Locals,
                                        pc \in {105, 130}}
CheckedPrologues ==
    {[p EXCEPT !.scratch = IF @ = R_SP THEN -1 ELSE @] : p \in {q \in AllPrologues :
        /\ Fits(q.model, q.ops) /\ (q.pc = 105 \/ (q.model = "pr1" /\ Len(q.ops) = 1))
        /\ SetFP(7) \in ToSet(q.ops) => \E k \in DOMAIN q.ops : 7 \in q.ops[k].registers}}

----------------------------------------------------------------------------
\* One part is checked at a time; the others stay as they start.
VARIABLE part
mcVars == <<part, registerVars, unwindVars, compactVars, ehabiVars, phaseVars, expressionVars>>
RegistersIdle ==
    arch = "x86" /\ machine = << >> /\ context = << >> /\ lazy = {} /\ logical = << >> /\ phase = "idle"
    /\ sets = 0
UnwindIdle ==
    /\ lookup = "index" /\ loaded = << >> /\ cache = << >> /\ room = 0 /\ regs = << >> /\ stack = << >>
    /\ frames = << >> /\ mode = "idle" /\ cursor = << >> /\ level = 0 /\ private_1 = 0 /\ private_2 = 0
    /\ target = 0 /\ due = << >> /\ cleaned = << >> /\ throws = 0
CompactIdle == work = << >> /\ answer = NoAnswer
EHABIIdle == prologue = << >> /\ unwound = [done |-> FALSE]
PhasesIdle ==
    /\ flavour = "ehabi" /\ chain = << >> /\ top = 0 /\ at = 0 /\ doing = "idle" /\ resuming = FALSE
    /\ forced = FALSE /\ marked = 0 /\ expected = << >> /\ ran = << >>
ExpressionsIdle == term = << >> /\ result = -1
Init ==
    \/ part = "registers" /\ RegistersInit /\ UnwindIdle /\ CompactIdle /\ EHABIIdle /\ PhasesIdle /\ ExpressionsIdle
    \/ part = "unwind" /\ UnwindInit /\ RegistersIdle /\ CompactIdle /\ EHABIIdle /\ PhasesIdle /\ ExpressionsIdle
    \/ part = "compact" /\ CompactInit /\ RegistersIdle /\ UnwindIdle /\ EHABIIdle /\ PhasesIdle /\ ExpressionsIdle
    \/ part = "ehabi" /\ EHABIInit /\ RegistersIdle /\ UnwindIdle /\ CompactIdle /\ PhasesIdle /\ ExpressionsIdle
    \/ part = "phases" /\ PhasesInit /\ RegistersIdle /\ UnwindIdle /\ CompactIdle /\ EHABIIdle /\ ExpressionsIdle
    \/ part = "expressions" /\ ExpressionsInit /\ RegistersIdle /\ UnwindIdle /\ CompactIdle /\ EHABIIdle /\ PhasesIdle
Next ==
    /\ \/ part = "registers" /\ RegistersNext /\ UNCHANGED <<unwindVars, compactVars, ehabiVars, phaseVars, expressionVars>>
       \/ part = "unwind" /\ UnwindNext /\ UNCHANGED <<registerVars, compactVars, ehabiVars, phaseVars, expressionVars>>
       \/ part = "compact" /\ CompactNext /\ UNCHANGED <<registerVars, unwindVars, ehabiVars, phaseVars, expressionVars>>
       \/ part = "ehabi" /\ EHABINext /\ UNCHANGED <<registerVars, unwindVars, compactVars, phaseVars, expressionVars>>
       \/ part = "phases" /\ PhasesNext /\ UNCHANGED <<registerVars, unwindVars, compactVars, ehabiVars, expressionVars>>
       \/ part = "expressions" /\ ExpressionsNext /\ UNCHANGED <<registerVars, unwindVars, compactVars, ehabiVars, phaseVars>>
    /\ UNCHANGED part
Spec == Init /\ [][Next]_mcVars

----------------------------------------------------------------------------
\* unw_getcontext, the accessors and jumpto together lose no register: setting one
\* changes no other, and a landing pad gets the cursor's registers.
RegistersSurvive == RegistersAreIndependent /\ LandingPadSeesContext
\* The second phase of each unwinder ends where its first phase decided, with
\* every cleanup on the way run once, from the inside out.
EveryUnwinderAgrees == PhasesAgree /\ ChainPhasesAgree
=============================================================================
