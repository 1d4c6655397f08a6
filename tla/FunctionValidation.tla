------------------------- MODULE FunctionValidation -------------------------
(***************************************************************************)
(* The function validator of Lib/IR/Validate.cpp: an abstract interpreter  *)
(* over operand types that is fed one operator at a time.  A context c is  *)
(* a FunctionValidationContext; c.ok turns FALSE where the code throws a   *)
(* ValidationException, and c.popped is the value the last                 *)
(* popAndValidateOperand returned.                                         *)
(*                                                                         *)
(* An operator is a record: op is its name and imm its immediate.          *)
(***************************************************************************)
EXTENDS IRTypes

CONSTANT
    OpSigs          \* name of a non-parametric operator ->
                    \*  [params, results, feature, imm, natural]: imm is
                    \*  the kind of its immediate, natural its natural
                    \*  alignment or its number of lanes

-----------------------------------------------------------------------------
validBlockType(imm) ==
    CASE imm[1] = "void"  -> TRUE
      [] imm[1] = "one"   -> validType(imm[2])
      [] imm[1] = "index" ->
            /\ InRange(imm[2], IRModule.types)
            /\ \/ "multipleResultsAndBlockParams" \in Features
               \/ /\ resolveBlockType(imm).params = <<>>
                  /\ Len(resolveBlockType(imm).results) <= 1

-----------------------------------------------------------------------------
(* The operand stack and the control stack.                                *)

Require(c, condition) == [c EXCEPT !.ok = @ /\ condition]

pushControlStack(c, type, params, results, elseParams) ==
    [c EXCEPT !.control = Append(@,
        [type |-> type, outer |-> Len(c.stack), params |-> params,
         results |-> results, reachable |-> TRUE, elseParams |-> elseParams])]

newContext(params, results, localTypes) ==
    Require(pushControlStack(
                [ok |-> TRUE, control |-> <<>>, stack |-> <<>>,
                 locals |-> params \o localTypes, popped |-> "none"],
                "function", results, results, <<>>),
            \A i \in DOMAIN localTypes : validType(localTypes[i]))

\* Below the operands of the current control structure an unreachable
\* context yields the bottom type, a reachable one no operand at all.
operandType(c, depth) ==
    CASE Len(c.stack) > Last(c.control).outer + depth ->
            c.stack[Len(c.stack) - depth]
      [] OTHER -> IF Last(c.control).reachable THEN "missing" ELSE "none"

peekAndValidateOperand(c, depth, type) ==
    With([operand \in {operandType(c, depth)} |->
        Require(c, operand # "missing" /\ isSubtype(operand, type))])

popAndValidateOperand(c, type) ==
    [peekAndValidateOperand(c, 0, type) EXCEPT
        !.popped = operandType(c, 0),
        !.stack = IF Len(@) > Last(c.control).outer THEN Front(@) ELSE @]

RECURSIVE popAndValidateTypeTuple(_, _)
popAndValidateTypeTuple(c, types) ==
    IF types = <<>> THEN c
    ELSE popAndValidateTypeTuple(popAndValidateOperand(c, Last(types)), Front(types))

peekAndValidateTypeTuple(c, types) ==
    FoldLeftDomain(
        LAMBDA d, i : peekAndValidateOperand(d, Len(types) - i, types[i]),
        c, types)

pushOperandTuple(c, types) == [c EXCEPT !.stack = @ \o types]

validateStackEmptyAtEndOfControlStructure(c) ==
    Require(c, Len(c.stack) = Last(c.control).outer)

enterUnreachable(c) ==
    [c EXCEPT !.stack = SubSeq(@, 1, Last(c.control).outer),
              !.control[Len(c.control)].reachable = FALSE]

validBranchDepth(c, depth) == depth < Len(c.control)

getBranchTargetByDepth(c, depth) == c.control[Len(c.control) - depth]

-----------------------------------------------------------------------------
(* The control operators.                                                  *)

Structured(c, type, imm, params) ==
    With([t \in {resolveBlockType(imm)} |->
        pushOperandTuple(
            pushControlStack(popAndValidateTypeTuple(c, t.params), type, params, t.results,
                             IF type = "ifThen" THEN t.params ELSE <<>>),
            t.params)])

block(c, imm) == Structured(c, "block", imm, resolveBlockType(imm).results)

loop(c, imm) == Structured(c, "loop", imm, resolveBlockType(imm).params)

if_(c, imm) ==
    Structured(popAndValidateOperand(c, "i32"), "ifThen", imm,
               resolveBlockType(imm).results)

try_(c, imm) ==
    Require(Structured(c, "try", imm, resolveBlockType(imm).results),
            "exceptionHandling" \in Features)

\* The end of one arm of the current structure: its results, and only they,
\* are on the stack.
finishArm(c) ==
    validateStackEmptyAtEndOfControlStructure(
        popAndValidateTypeTuple(c, Last(c.control).results))

enterArm(c, type) ==
    [c EXCEPT !.control[Len(c.control)].type = type,
              !.control[Len(c.control)].reachable = TRUE]

else_(c) ==
    pushOperandTuple(
        enterArm(Require(finishArm(c), Last(c.control).type = "ifThen"), "ifElse"),
        Last(c.control).elseParams)

end(c) ==
    LET top == Last(c.control)
        valid == /\ top.type # "try"
                 /\ top.type = "ifThen" => top.results = top.elseParams
    IN
    With([popped \in {[Require(finishArm(c), valid) EXCEPT !.control = Front(@)]} |->
        IF popped.control = <<>> THEN popped
        ELSE pushOperandTuple(popped, top.results)])

validateCatch(c) ==
    enterArm(Require(finishArm(c), Last(c.control).type \in {"try", "catch"}),
             "catch")

catch_(c, imm) ==
    IF "exceptionHandling" \in Features /\ InRange(imm, IRModule.exceptionTypes)
    THEN pushOperandTuple(validateCatch(c), At0(IRModule.exceptionTypes, imm))
    ELSE Require(c, FALSE)

catch_all(c) ==
    Require(validateCatch(c), "exceptionHandling" \in Features)

return_(c) ==
    enterUnreachable(popAndValidateTypeTuple(c, c.control[1].results))

br(c, imm) ==
    enterUnreachable(
        popAndValidateTypeTuple(c, getBranchTargetByDepth(c, imm).params))

br_if(c, imm) ==
    LET params == getBranchTargetByDepth(c, imm).params
    IN  pushOperandTuple(
            popAndValidateTypeTuple(popAndValidateOperand(c, "i32"), params),
            params)

\* imm[1] is the default target and imm[2] the table of targets.
br_table(c, imm) ==
    LET params(depth) == getBranchTargetByDepth(c, depth).params
        default == params(imm[1])
        target(d, depth) ==
            Require(peekAndValidateTypeTuple(d, params(depth)),
                    Len(params(depth)) = Len(default))
    IN  enterUnreachable(
            popAndValidateTypeTuple(
                FoldLeft(target, popAndValidateOperand(c, "i32"), imm[2]),
                default))

throw_(c, imm) ==
    IF "exceptionHandling" \in Features /\ InRange(imm, IRModule.exceptionTypes)
    THEN enterUnreachable(
            popAndValidateTypeTuple(c, At0(IRModule.exceptionTypes, imm)))
    ELSE Require(c, FALSE)

rethrow(c, imm) ==
    enterUnreachable(
        Require(c, /\ "exceptionHandling" \in Features
                   /\ getBranchTargetByDepth(c, imm).type = "catch"))

-----------------------------------------------------------------------------
(* Parametric and variable operators, calls.                               *)

select(c, imm) ==
    With([f \in {popAndValidateOperand(popAndValidateOperand(c, "i32"), imm)} |->
    With([t \in {popAndValidateOperand(f, imm)} |->
    LET numeric(type) == type \in NumericTypes \cup {"none"}
    IN
        IF imm # "any"
        THEN Require(pushOperandTuple(t, <<imm>>),
                     "referenceTypes" \in Features /\ validType(imm))
        ELSE Require(
                pushOperandTuple(t,
                    <<IF f.popped = "none" THEN t.popped ELSE f.popped>>),
                /\ numeric(f.popped) /\ numeric(t.popped)
                /\ "none" \in {f.popped, t.popped} \/ f.popped = t.popped)])])

local_get(c, imm) ==
    IF InRange(imm, c.locals) THEN pushOperandTuple(c, <<At0(c.locals, imm)>>)
    ELSE Require(c, FALSE)

local_set(c, imm) ==
    IF InRange(imm, c.locals) THEN popAndValidateOperand(c, At0(c.locals, imm))
    ELSE Require(c, FALSE)

\* The operand keeps its own type, which may be a subtype of the local's.
local_tee(c, imm) ==
    With([d \in {local_set(c, imm)} |->
        pushOperandTuple(d, <<d.popped>>)])

validGlobalIndex(index, mustBeMutable) ==
    /\ InRange(index, IRModule.globals)
    /\ mustBeMutable => At0(IRModule.globals, index).mutable

global_get(c, imm) ==
    IF validGlobalIndex(imm, FALSE)
    THEN pushOperandTuple(c, <<At0(IRModule.globals, imm).type>>)
    ELSE Require(c, FALSE)

global_set(c, imm) ==
    IF validGlobalIndex(imm, TRUE)
    THEN popAndValidateOperand(c, At0(IRModule.globals, imm).type)
    ELSE Require(c, FALSE)

\* table.get, table.set, table.grow and table.fill: the operand types of each
\* around the element type of the table.
TableSignature(name, elem) ==
    CASE name = "table_get"  -> [params |-> <<"i32">>, results |-> <<elem>>]
      [] name = "table_set"  -> [params |-> <<"i32", elem>>, results |-> <<>>]
      [] name = "table_grow" -> [params |-> <<elem, "i32">>, results |-> <<"i32">>]
      [] name = "table_fill" ->
            [params |-> <<"i32", elem, "i32">>, results |-> <<>>]

applySignature(c, signature) ==
    pushOperandTuple(popAndValidateTypeTuple(c, signature.params),
                     signature.results)

tableOperator(c, name, imm) ==
    IF InRange(imm, IRModule.tables)
    THEN applySignature(c, TableSignature(name, At0(IRModule.tables, imm)))
    ELSE Require(c, FALSE)

call(c, imm) ==
    IF InRange(imm, IRModule.functions)
    THEN applySignature(c, At0(IRModule.types, At0(IRModule.functions, imm)))
    ELSE Require(c, FALSE)

maxReturnValues == 16

validFunctionType(index) ==
    /\ InRange(index, IRModule.types)
    /\ Len(At0(IRModule.types, index).results) <= maxReturnValues

\* imm[1] is the index of the callee's type and imm[2] that of the table.
call_indirect(c, imm) ==
    IF /\ InRange(imm[2], IRModule.tables)
       /\ At0(IRModule.tables, imm[2]) = "funcref"
       /\ validFunctionType(imm[1])
    THEN applySignature(popAndValidateOperand(c, "i32"),
                        At0(IRModule.types, imm[1]))
    ELSE Require(c, FALSE)

\* validateImm: the indices, alignments and lanes an immediate may hold.
validImm(kind, natural, imm) ==
    LET hasMemory(i) == InRange(i, IRModule.memories)
        hasTable(i) == InRange(i, IRModule.tables)
        hasData(i) == i < IRModule.numDataSegments
        hasElem(i) == i < IRModule.numElemSegments
    IN  CASE kind \in {"none", "literal"} -> TRUE
          [] kind = "load" -> imm[1] <= natural /\ hasMemory(0)
          [] kind = "atomic" ->
                /\ hasMemory(0)
                /\ "requireSharedFlagForAtomicOperators" \in Features =>
                        At0(IRModule.memories, 0)
                /\ imm[1] = natural
          [] kind = "memory" -> hasMemory(imm)
          [] kind = "memoryCopy" -> hasMemory(imm[1]) /\ hasMemory(imm[2])
          [] kind = "table" -> hasTable(imm)
          [] kind = "tableCopy" ->
                /\ hasTable(imm[1]) /\ hasTable(imm[2])
                /\ isSubtype(At0(IRModule.tables, imm[1]),
                             At0(IRModule.tables, imm[2]))
          [] kind = "function" -> InRange(imm, IRModule.functions)
          [] kind = "lane" -> imm < natural
          [] kind = "shuffle" -> \A i \in DOMAIN imm : imm[i] < natural * 2
          [] kind = "dataAndMemory" -> hasMemory(imm[2]) /\ hasData(imm[1])
          [] kind = "data" -> hasData(imm)
          [] kind = "elemAndTable" -> hasElem(imm[1]) /\ hasTable(imm[2])
          [] kind = "elem" -> hasElem(imm)

\* VALIDATE_OP: every operator with a fixed signature.
nonParametric(c, o) ==
    With([sig \in {OpSigs[o.op]} |->
        Require(applySignature(c, sig),
                /\ sig.feature \in Features
                /\ validImm(sig.imm, sig.natural, o.imm))])

-----------------------------------------------------------------------------
(* CodeValidationStream.                                                   *)

\* The depths an operator names; each must be that of an enclosing structure.
depthsOf(o) ==
    CASE o.op \in {"br", "br_if", "rethrow"} -> {o.imm}
      [] o.op = "br_table" -> {o.imm[1]} \cup ToSet(o.imm[2])
      [] OTHER -> {}

visit(c, o) ==
    CASE c.control = <<>> -> Require(c, FALSE)
      [] \E depth \in depthsOf(o) : ~validBranchDepth(c, depth) ->
            Require(c, FALSE)
      [] o.op \in {"block", "loop", "if", "try"} /\ ~validBlockType(o.imm) ->
            Require(c, FALSE)
      [] o.op = "block"       -> block(c, o.imm)
      [] o.op = "loop"        -> loop(c, o.imm)
      [] o.op = "if"          -> if_(c, o.imm)
      [] o.op = "else"        -> else_(c)
      [] o.op = "end"         -> end(c)
      [] o.op = "try"         -> try_(c, o.imm)
      [] o.op = "catch"       -> catch_(c, o.imm)
      [] o.op = "catch_all"   -> catch_all(c)
      [] o.op = "return"      -> return_(c)
      [] o.op = "br"          -> br(c, o.imm)
      [] o.op = "br_table"    -> br_table(c, o.imm)
      [] o.op = "br_if"       -> br_if(c, o.imm)
      [] o.op = "unreachable" -> enterUnreachable(c)
      [] o.op = "drop"        -> popAndValidateOperand(c, "any")
      [] o.op = "select"      -> select(c, o.imm)
      [] o.op = "local_get"   -> local_get(c, o.imm)
      [] o.op = "local_set"   -> local_set(c, o.imm)
      [] o.op = "local_tee"   -> local_tee(c, o.imm)
      [] o.op = "global_get"  -> global_get(c, o.imm)
      [] o.op = "global_set"  -> global_set(c, o.imm)
      [] o.op \in {"table_get", "table_set", "table_grow", "table_fill"} ->
            tableOperator(c, o.op, o.imm)
      [] o.op = "throw"       -> throw_(c, o.imm)
      [] o.op = "rethrow"     -> rethrow(c, o.imm)
      [] o.op = "call"        -> call(c, o.imm)
      [] o.op = "call_indirect" -> call_indirect(c, o.imm)
      [] OTHER                -> nonParametric(c, o)

\* finish(): the last end has closed the function.
finished(c) == c.control = <<>>
=============================================================================
