------------------------------- MODULE Dwarf -------------------------------
(***************************************************************************)
(* libunwind's reading of DWARF call frame information.                    *)
(*                                                                         *)
(* A CIE or an FDE is a record, its instructions a sequence of tuples of   *)
(* an opcode and its operands, a DWARF expression a sequence of such       *)
(* tuples; how they are laid out in bytes is left out, and a branch of an  *)
(* expression counts operations.  Registers have the DWARF numbers of      *)
(* x86_64.  A word has WordBits bits and the stack is addressed by words.  *)
(***************************************************************************)
EXTENDS Integers, Sequences, FiniteSets, SequencesExt

CONSTANT WordBits

LOCAL INSTANCE Bitwise

\* kMaxRegisterNumber, here the last number of x86_64: the return address.
kMaxRegisterNumber == 16
rax == 0
rbx == 3
rbp == 6
rsp == 7
r12 == 12
ReturnAddressColumn == 16

Word(v) == v % 2^WordBits
Signed(v) == IF v >= 2^(WordBits - 1) THEN v - 2^WordBits ELSE v
Flag(b) == IF b THEN 1 ELSE 0
\* Division of C: towards zero, the remainder with the sign of the dividend.
AbsOf(v) == IF v < 0 THEN -v ELSE v
Quotient(a, b) == (AbsOf(a) \div AbsOf(b)) * (IF (a < 0) = (b < 0) THEN 1 ELSE -1)
Remainder(a, b) == a - b * Quotient(a, b)

----------------------------------------------------------------------------
(***************************************************************************)
(* evaluateExpression: a stack machine.  regs is the register file and mem *)
(* the memory as functions; the top of the stack is its last element.      *)
(***************************************************************************)

Top(s) == s[Len(s)]
Below(s, n) == s[Len(s) - n]
Pop(s) == SubSeq(s, 1, Len(s) - 1)
\* Replaces the top n elements by v.
Put(s, n, v) == Append(SubSeq(s, 1, Len(s) - n), v)

PushOps ==
    {"DW_OP_addr", "DW_OP_const1u", "DW_OP_const1s", "DW_OP_const2u", "DW_OP_const2s", "DW_OP_const4u",
     "DW_OP_const4s", "DW_OP_const8u", "DW_OP_const8s", "DW_OP_constu", "DW_OP_consts"}
PushConstant(s, o) == Append(s, Word(o[2]))

StackOp(s, o) ==
    CASE o[1] = "DW_OP_dup" -> Append(s, Top(s))
      [] o[1] = "DW_OP_drop" -> Pop(s)
      [] o[1] = "DW_OP_over" -> Append(s, Below(s, 1))
      [] o[1] = "DW_OP_pick" -> Append(s, Below(s, o[2]))
      [] o[1] = "DW_OP_swap" -> Put(Put(s, 2, Top(s)), 0, Below(s, 1))
      [] o[1] = "DW_OP_rot" -> SubSeq(s, 1, Len(s) - 3) \o <<Top(s), Below(s, 2), Below(s, 1)>>

\* The divisor, the subtrahend and the shift count are on top.
ArithmeticOps ==
    {"DW_OP_abs", "DW_OP_and", "DW_OP_div", "DW_OP_minus", "DW_OP_mod", "DW_OP_mul", "DW_OP_neg",
     "DW_OP_not", "DW_OP_or", "DW_OP_plus", "DW_OP_plus_uconst", "DW_OP_shl", "DW_OP_shr", "DW_OP_shra",
     "DW_OP_xor"}
ArithmeticOp(s, o) ==
    LET v == Top(s) IN
    CASE o[1] = "DW_OP_abs" -> Put(s, 1, Word(AbsOf(Signed(v))))
      [] o[1] = "DW_OP_neg" -> Put(s, 1, Word(0 - v))
      [] o[1] = "DW_OP_not" -> Put(s, 1, Word(-1 - Signed(v)))
      [] o[1] = "DW_OP_plus_uconst" -> Put(s, 1, Word(v + o[2]))
      [] OTHER ->
         LET u == Below(s, 1) IN
         Put(s, 2,
           CASE o[1] = "DW_OP_and" -> u & v
             [] o[1] = "DW_OP_or" -> u | v
             [] o[1] = "DW_OP_xor" -> u ^^ v
             [] o[1] = "DW_OP_plus" -> Word(u + v)
             [] o[1] = "DW_OP_minus" -> Word(u - v)
             [] o[1] = "DW_OP_mul" -> Word(Signed(u) * Signed(v))
             [] o[1] = "DW_OP_div" -> Word(Quotient(Signed(u), Signed(v)))
             [] o[1] = "DW_OP_mod" -> Word(Remainder(Signed(u), Signed(v)))
             [] o[1] = "DW_OP_shl" -> Word(u * 2^v)
             [] o[1] = "DW_OP_shr" -> u \div 2^v
             [] o[1] = "DW_OP_shra" -> Word(Signed(u) \div 2^v))

\* The comparisons are of unsigned words.
CompareOps == {"DW_OP_eq", "DW_OP_ge", "DW_OP_gt", "DW_OP_le", "DW_OP_lt", "DW_OP_ne"}
CompareOp(s, o) ==
    LET v == Top(s)
        u == Below(s, 1) IN
    Put(s, 2, Flag(CASE o[1] = "DW_OP_eq" -> u = v
                     [] o[1] = "DW_OP_ge" -> u >= v
                     [] o[1] = "DW_OP_gt" -> u > v
                     [] o[1] = "DW_OP_le" -> u <= v
                     [] o[1] = "DW_OP_lt" -> u < v
                     [] o[1] = "DW_OP_ne" -> u # v))

LiteralOp(s, o) == Append(s, o[2])

\* DW_OP_reg is the register's contents, as for breg with no offset.
RegisterOp(s, o, regs) ==
    CASE o[1] \in {"DW_OP_reg", "DW_OP_regx"} -> Append(s, regs[o[2]])
      [] o[1] \in {"DW_OP_breg", "DW_OP_bregx"} -> Append(s, Word(o[3] + regs[o[2]]))

\* A sized load keeps the low bytes; all words here are of the largest size.
MemoryOp(s, o, mem) ==
    CASE o[1] \in {"DW_OP_deref", "DW_OP_xderef"} -> Put(s, 1, mem[Top(s)])
      [] o[1] = "DW_OP_deref_size" -> Put(s, 1, mem[Top(s)] % 2^(8 * o[2]))

\* The position after operation p, and the stack: bra pops its condition.
Branch(s, o, p) ==
    IF o[1] = "DW_OP_skip" \/ Top(s) # 0 THEN p + 1 + o[2] ELSE p + 1

RECURSIVE Evaluate(_, _, _, _, _)
Evaluate(expr, p, s, regs, mem) ==
    IF p > Len(expr) THEN Top(s)
    ELSE LET o == expr[p]
             next(t) == Evaluate(expr, p + 1, t, regs, mem) IN
         CASE o[1] \in PushOps -> next(PushConstant(s, o))
           [] o[1] = "DW_OP_lit" -> next(LiteralOp(s, o))
           [] o[1] \in {"DW_OP_dup", "DW_OP_drop", "DW_OP_over", "DW_OP_pick", "DW_OP_swap",
                        "DW_OP_rot"} -> next(StackOp(s, o))
           [] o[1] \in ArithmeticOps -> next(ArithmeticOp(s, o))
           [] o[1] \in CompareOps -> next(CompareOp(s, o))
           [] o[1] \in {"DW_OP_reg", "DW_OP_regx", "DW_OP_breg", "DW_OP_bregx"} ->
                next(RegisterOp(s, o, regs))
           [] o[1] \in {"DW_OP_deref", "DW_OP_xderef", "DW_OP_deref_size"} -> next(MemoryOp(s, o, mem))
           [] o[1] = "DW_OP_skip" -> Evaluate(expr, Branch(s, o, p), s, regs, mem)
           [] o[1] = "DW_OP_bra" -> Evaluate(expr, Branch(s, o, p), Pop(s), regs, mem)

\* The stack starts with the initial value above an unused element.
evaluateExpression(expr, initial, regs, mem) == Evaluate(expr, 1, <<0, initial>>, regs, mem)

----------------------------------------------------------------------------
(***************************************************************************)
(* parseFDEInstructions: run the instructions of the CIE, then those of    *)
(* the FDE up to a position of the function.  The state of a run has the   *)
(* PrologInfo (where the CFA is, where each register was saved, the bytes  *)
(* of arguments pushed), the code offset reached, and remembered states.   *)
(***************************************************************************)

Unused == [location |-> "Unused", value |-> 0]
ClearProlog ==
    [cfaRegister |-> 0, cfaRegisterOffset |-> 0, cfaExpression |-> << >>, spExtraArgSize |-> 0,
     savedRegisters |-> [r \in 0..kMaxRegisterNumber |-> Unused]]

LocationOps ==
    {"DW_CFA_set_loc", "DW_CFA_advance_loc", "DW_CFA_advance_loc1", "DW_CFA_advance_loc2",
     "DW_CFA_advance_loc4"}
NewOffset(i, codeOffset, cie) ==
    IF i[1] = "DW_CFA_set_loc" THEN i[2] ELSE codeOffset + i[2] * cie.codeAlignFactor

\* Where a register is from now on.  "Undefined" and "same value" are both as
\* if it had never been saved.
SaveOps ==
    {"DW_CFA_offset", "DW_CFA_offset_extended", "DW_CFA_offset_extended_sf",
     "DW_CFA_GNU_negative_offset_extended", "DW_CFA_val_offset", "DW_CFA_val_offset_sf",
     "DW_CFA_register", "DW_CFA_undefined", "DW_CFA_same_value"}
ExpressionOps == {"DW_CFA_expression", "DW_CFA_val_expression"}
SavedAt(i, cie) ==
    CASE i[1] \in {"DW_CFA_offset", "DW_CFA_offset_extended", "DW_CFA_offset_extended_sf"} ->
            [location |-> "InCFA", value |-> i[3] * cie.dataAlignFactor]
      [] i[1] = "DW_CFA_GNU_negative_offset_extended" ->
            [location |-> "InCFA", value |-> -(i[3] * cie.dataAlignFactor)]
      [] i[1] \in {"DW_CFA_val_offset", "DW_CFA_val_offset_sf"} ->
            [location |-> "OffsetFromCFA", value |-> i[3] * cie.dataAlignFactor]
      [] i[1] = "DW_CFA_register" -> [location |-> "InRegister", value |-> i[3]]
      [] i[1] \in {"DW_CFA_undefined", "DW_CFA_same_value"} -> Unused
SavedByExpression(i) ==
    IF i[1] = "DW_CFA_expression" THEN [location |-> "AtExpression", value |-> i[3]]
    ELSE [location |-> "IsExpression", value |-> i[3]]

CFAOps ==
    {"DW_CFA_def_cfa", "DW_CFA_def_cfa_sf", "DW_CFA_def_cfa_register", "DW_CFA_def_cfa_offset",
     "DW_CFA_def_cfa_offset_sf", "DW_CFA_def_cfa_expression", "DW_CFA_GNU_args_size"}
DefinedCFA(i, prolog, cie) ==
    CASE i[1] = "DW_CFA_def_cfa" -> [prolog EXCEPT !.cfaRegister = i[2], !.cfaRegisterOffset = i[3]]
      [] i[1] = "DW_CFA_def_cfa_sf" ->
            [prolog EXCEPT !.cfaRegister = i[2], !.cfaRegisterOffset = i[3] * cie.dataAlignFactor]
      [] i[1] = "DW_CFA_def_cfa_register" -> [prolog EXCEPT !.cfaRegister = i[2]]
      [] i[1] = "DW_CFA_def_cfa_offset" -> [prolog EXCEPT !.cfaRegisterOffset = i[2]]
      [] i[1] = "DW_CFA_def_cfa_offset_sf" ->
            [prolog EXCEPT !.cfaRegisterOffset = i[2] * cie.dataAlignFactor]
      [] i[1] = "DW_CFA_def_cfa_expression" ->
            [prolog EXCEPT !.cfaRegister = 0, !.cfaExpression = i[2]]
      [] i[1] = "DW_CFA_GNU_args_size" -> [prolog EXCEPT !.spExtraArgSize = i[2]]

NamesRegister(i) ==
    i[1] \in SaveOps \cup ExpressionOps
             \cup {"DW_CFA_restore", "DW_CFA_restore_extended", "DW_CFA_def_cfa", "DW_CFA_def_cfa_sf",
                   "DW_CFA_def_cfa_register"}
TooBig(i) ==
    \/ NamesRegister(i) /\ i[2] > kMaxRegisterNumber
    \/ i[1] = "DW_CFA_register" /\ i[3] > kMaxRegisterNumber

\* One instruction.  A restored register has the rule it had when this sequence
\* of instructions began, that is, the rule of the CIE.
ParseInstruction(st, i, cie, initialState) ==
    LET p == st.prolog IN
    CASE TooBig(i) -> [st EXCEPT !.ok = FALSE]
      [] i[1] = "DW_CFA_nop" -> st
      [] i[1] \in LocationOps -> [st EXCEPT !.codeOffset = NewOffset(i, st.codeOffset, cie)]
      [] i[1] \in SaveOps -> [st EXCEPT !.prolog.savedRegisters[i[2]] = SavedAt(i, cie)]
      [] i[1] \in ExpressionOps -> [st EXCEPT !.prolog.savedRegisters[i[2]] = SavedByExpression(i)]
      [] i[1] \in {"DW_CFA_restore", "DW_CFA_restore_extended"} ->
            [st EXCEPT !.prolog.savedRegisters[i[2]] = initialState.savedRegisters[i[2]]]
      [] i[1] \in CFAOps -> [st EXCEPT !.prolog = DefinedCFA(i, p, cie)]
      [] i[1] = "DW_CFA_remember_state" -> [st EXCEPT !.remember = <<p>> \o @]
      [] i[1] = "DW_CFA_restore_state" ->
            IF st.remember = << >> THEN [st EXCEPT !.ok = FALSE]
            ELSE [st EXCEPT !.prolog = Head(st.remember), !.remember = Tail(@)]
      [] OTHER -> [st EXCEPT !.ok = FALSE]

\* The instructions that apply before code offset "limit".
parseInstructions(instructions, st0, cie, limit) ==
    FoldLeft(LAMBDA st, i : IF ~st.ok \/ st.codeOffset >= limit THEN st
                            ELSE ParseInstruction(st, i, cie, st0.prolog), st0, instructions)

parseFDEInstructions(fde, cie, upToPC) ==
    LET clear == [prolog |-> ClearProlog, codeOffset |-> 0, remember |-> << >>, ok |-> TRUE]
        fromCIE == parseInstructions(cie.instructions, clear, cie, 2^WordBits)
    IN IF ~fromCIE.ok THEN fromCIE
       ELSE parseInstructions(fde.instructions, [fromCIE EXCEPT !.codeOffset = 0], cie,
                              upToPC - fde.pcStart)

----------------------------------------------------------------------------
(***************************************************************************)
(* stepWithDwarf: the registers the caller of the frame had.               *)
(***************************************************************************)

getCFA(prolog, regs, mem) ==
    IF prolog.cfaRegister # 0 THEN Word(regs[prolog.cfaRegister] + prolog.cfaRegisterOffset)
    ELSE evaluateExpression(prolog.cfaExpression, 0, regs, mem)

\* A rule of the other locations aborts the program.
Supported(saved) == saved.location \in {"InCFA", "AtExpression", "IsExpression", "InRegister"}
getSavedRegister(saved, cfa, regs, mem) ==
    CASE saved.location = "InCFA" -> mem[Word(cfa + saved.value)]
      [] saved.location = "AtExpression" -> mem[evaluateExpression(saved.value, cfa, regs, mem)]
      [] saved.location = "IsExpression" -> evaluateExpression(saved.value, cfa, regs, mem)
      [] saved.location = "InRegister" -> regs[saved.value]

\* A return address that was not saved is zero; the stack pointer is the CFA,
\* and the return address becomes the instruction pointer.
stepWithDwarf(fde, cie, pc, regs, mem) ==
    LET run == parseFDEInstructions(fde, cie, pc)
        cfa == getCFA(run.prolog, regs, mem)
        saved == run.prolog.savedRegisters
        rules == {r \in DOMAIN saved : saved[r].location # "Unused"}
        ra == cie.returnAddressRegister
    IN IF ~run.ok THEN [result |-> "UNW_EBADFRAME", regs |-> regs]
       ELSE IF \E r \in rules : ~Supported(saved[r]) THEN [result |-> "abort", regs |-> regs]
       ELSE [result |-> "UNW_STEP_SUCCESS",
             regs |-> [r \in DOMAIN regs |->
                          CASE r = rsp -> cfa
                            [] r = ra ->
                                 IF ra \in rules THEN getSavedRegister(saved[ra], cfa, regs, mem) ELSE 0
                            [] r \in rules \ {rsp, ra} -> getSavedRegister(saved[r], cfa, regs, mem)
                            [] OTHER -> regs[r]]]
=============================================================================
