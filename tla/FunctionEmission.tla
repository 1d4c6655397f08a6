-------------------------- MODULE FunctionEmission --------------------------
(***************************************************************************)
(* The code generator of Lib/LLVMJIT (EmitFunction, EmitCore, EmitVar,     *)
(* EmitExceptions, EmitContext): a decoded function becomes LLVM basic     *)
(* blocks, one operator at a time.  e is an EmitFunctionContext:           *)
(*   blocks   the basic blocks: instructions and terminator                *)
(*   phis     the PHI nodes: their block and their incoming values         *)
(*   at       the block the IRBuilder inserts into                         *)
(*   stack, control, targets, tries, catches                               *)
(*            stack, controlStack, branchTargetStack, tryStack, catchStack *)
(*   skipped  UnreachableOpVisitor::unreachableControlDepth                *)
(*   n        the number of instructions that have a result                *)
(*   sound    no wavmAssert or errorUnless has failed, and no block got a  *)
(*            second terminator                                            *)
(*                                                                         *)
(* An LLVM value is <<"lit", c>>, <<"ssa", n>> or <<"phi", n>>; an i32 is  *)
(* a number below WordSize.                                                *)
(***************************************************************************)
EXTENDS IRTypes

Assert0(e, condition) == [e EXCEPT !.sound = @ /\ condition]

Pending == [t |-> "none"]

\* A new block, whose index is the new number of blocks.
newBlock(e) ==
    [e EXCEPT !.blocks = Append(@, [code |-> <<>>, term |-> Pending])]

setInsertPoint(e, b) == [e EXCEPT !.at = b]

terminate(e, t) ==
    [Assert0(e, e.blocks[e.at].term = Pending)
        EXCEPT !.blocks[e.at].term = t]

\* Appends an instruction; its result is value <<"ssa", n>> of the new e.
instr(e, i, args) ==
    [e EXCEPT !.n = @ + 1,
              !.blocks[e.at].code =
                    Append(@, [i |-> i, args |-> args, dst |-> e.n + 1])]

result(e) == <<"ssa", e.n>>

literal(c) == <<"lit", c>>

createBr(e, b) == terminate(e, [t |-> "br", to |-> b])

createCondBr(e, v, b1, b2) ==
    terminate(e, [t |-> "cond", v |-> v, yes |-> b1, no |-> b2])

createUnreachable(e) == terminate(e, [t |-> "unreachable"])

-----------------------------------------------------------------------------
(* PHI nodes and the operand stack.                                        *)

createPHIs(e, b, types) ==
    [e EXCEPT !.phis = @ \o [i \in DOMAIN types |-> [block |-> b, in |-> <<>>]]]

\* The PHIs a call of createPHIs that gave e added.
lastPHIs(e, types) ==
    [i \in DOMAIN types |-> Len(e.phis) - Len(types) + i]

addIncoming(e, phi, value, from) ==
    [e EXCEPT !.phis[phi].in = Append(@, [value |-> value, from |-> from])]

\* values[i] reaches phis[i] from the block being emitted.
addIncomings(e, phis, values) ==
    FoldLeftDomain(LAMBDA f, i : addIncoming(f, phis[i], values[i], e.at),
                   e, phis)

top(e) == Last(e.control)

operands(e) == Len(e.stack) - (IF e.control = <<>> THEN 0 ELSE top(e).outer)

topValues(e, num) == SubSeq(e.stack, Len(e.stack) - num + 1, Len(e.stack))

popMultiple(e, num) ==
    [Assert0(e, operands(e) >= num)
        EXCEPT !.stack = SubSeq(@, 1, Len(@) - num)]

pop(e) == popMultiple(e, 1)

push(e, v) == [e EXCEPT !.stack = Append(@, v)]

pushMultiple(e, values) == [e EXCEPT !.stack = @ \o values]

\* An i1 from an i32, and the other way round.
coerceI32ToBool(e, v) == instr(e, "ne", <<v, literal(0)>>)

-----------------------------------------------------------------------------
(* Calls.  Inside a try a call is an invoke that unwinds to the innermost  *)
(* landing pad; outside it is an instruction.                              *)

getInnermostUnwindToBlock(e) == IF e.tries = <<>> THEN 0 ELSE Last(e.tries)

callOrInvoke(e, callee, args) ==
    IF getInnermostUnwindToBlock(e) = 0
    THEN instr(e, "call", <<callee>> \o args)
    ELSE LET f == newBlock(e)
             b == Len(f.blocks)
         IN  [setInsertPoint(
                terminate(f, [t |-> "invoke", args |-> <<callee>> \o args,
                              dst |-> e.n + 1, normal |-> b,
                              unwind |-> getInnermostUnwindToBlock(e)]),
                b) EXCEPT !.n = @ + 1]


\* The result of a wasm call is a structure that also holds the context to go
\* on in; the memory base belongs to that context's compartment.
emitWasmCall(e, callee, args, numResults) ==
    LET c == instr(e, "loadContext", <<>>)
        f == callOrInvoke(c, callee, <<result(c)>> \o args)
        g == instr(f, "storeContext", <<result(f)>>)
        h == instr(g, "reloadMemoryBase", <<>>)
        x(k, i) == instr(k, "extract", <<result(f), literal(i)>>)
    IN  FoldLeft(LAMBDA k, i : push(x(k, i), result(x(k, i))), h,
                 [i \in 1 .. numResults |-> i])

emitRuntimeIntrinsic(e, name, args) == callOrInvoke(e, <<"intrinsic", name>>, args)

emitConditionalTrapIntrinsic(e, condition, name) ==
    LET f == newBlock(newBlock(e))
        trap == Len(f.blocks) - 1
        skip == Len(f.blocks)
        g == setInsertPoint(createCondBr(f, condition, trap, skip), trap)
    IN  setInsertPoint(createUnreachable(emitRuntimeIntrinsic(g, name, <<>>)),
                       skip)

-----------------------------------------------------------------------------
(* The control stack.                                                      *)

pushControlStack(e, type, results, endBlock, endPHIs, elseBlock, elseArgs) ==
    [Assert0(e, e.control # <<>> => top(e).reachable)
        EXCEPT !.control = Append(@,
            [type |-> type, end |-> endBlock, endPHIs |-> endPHIs,
             else |-> elseBlock, elseArgs |-> elseArgs, results |-> results,
             outer |-> Len(e.stack), outerTargets |-> Len(e.targets),
             reachable |-> TRUE])]

pushBranchTarget(e, params, b, phis) ==
    [e EXCEPT !.targets =
                Append(@, [params |-> params, block |-> b, phis |-> phis])]

branchToEndOfControlContext(e) ==
    LET c == top(e)
        num == Len(c.results)
        f == IF c.reachable
             THEN createBr(addIncomings(popMultiple(e, num), c.endPHIs,
                                        topValues(e, num)),
                           c.end)
             ELSE e
    IN  Assert0(f, Len(f.stack) = c.outer)

enterUnreachable(e) ==
    [Assert0(e, top(e).outer <= Len(e.stack))
        EXCEPT !.stack = SubSeq(@, 1, top(e).outer),
               !.control[Len(e.control)].reachable = FALSE]

getBranchTargetByDepth(e, depth) == e.targets[Len(e.targets) - depth]

-----------------------------------------------------------------------------
(* Structured control.                                                     *)

block(e, imm, type) ==
    LET t == resolveBlockType(imm)
        f == newBlock(e)
        b == Len(f.blocks)
        g == createPHIs(f, b, t.results)
        phis == lastPHIs(g, t.results)
        args == topValues(e, Len(t.params))
        h == popMultiple(g, Len(t.params))
    IN  pushMultiple(
            pushBranchTarget(
                pushControlStack(h, type, t.results, b, phis, 0, <<>>),
                t.results, b, phis),
            args)

loop(e, imm) ==
    LET t == resolveBlockType(imm)
        f == newBlock(newBlock(e))
        body == Len(f.blocks) - 1
        end0 == Len(f.blocks)
        g == createPHIs(f, body, t.params)
        params == lastPHIs(g, t.params)
        h == createPHIs(g, end0, t.results)
        k == addIncomings(popMultiple(h, Len(t.params)), params,
                          topValues(e, Len(t.params)))
        l == setInsertPoint(createBr(k, body), body)
    IN  pushMultiple(
            pushBranchTarget(
                pushControlStack(l, "loop", t.results, end0,
                                 lastPHIs(h, t.results), 0, <<>>),
                t.params, body, params),
            [i \in DOMAIN params |-> <<"phi", params[i]>>])

if_(e, imm) ==
    LET t == resolveBlockType(imm)
        f == newBlock(newBlock(newBlock(e)))
        b == Len(f.blocks)
        g == createPHIs(f, b, t.results)
        phis == lastPHIs(g, t.results)
        c == coerceI32ToBool(pop(g), Last(e.stack))
        h == createCondBr(c, result(c), b - 2, b - 1)
        args == topValues(h, Len(t.params))
        k == setInsertPoint(popMultiple(h, Len(t.params)), b - 2)
    IN  pushMultiple(
            pushBranchTarget(
                pushControlStack(k, "ifThen", t.results, b, phis, b - 1, args),
                t.results, b, phis),
            args)

else_(e) ==
    LET c == top(e)
        f == Assert0(branchToEndOfControlContext(e),
                     c.else # 0 /\ c.type = "ifThen")
    IN  [pushMultiple(setInsertPoint(f, c.else), c.elseArgs)
            EXCEPT !.control[Len(e.control)].type = "ifElse",
                   !.control[Len(e.control)].reachable = TRUE,
                   !.control[Len(e.control)].else = 0]

-----------------------------------------------------------------------------
(* Exceptions.  A catch context names the exception caught, its type, and  *)
(* the block in which the next handler of the chain is tested.             *)

\* Leaving a catch clause at its end destroys the exception it caught.
exitCatch(e) ==
    LET f == Assert0(e, top(e).type = "catch" /\ e.catches # <<>>)
    IN  IF top(e).reachable
        THEN emitRuntimeIntrinsic(f, "destroyException",
                                  <<Last(e.catches).pointer>>)
        ELSE f

\* The chain of handlers ends by throwing on what none of them caught.
endTryCatch(e) ==
    LET f == exitCatch(e)
        g == emitRuntimeIntrinsic(
                setInsertPoint(f, Last(f.catches).next), "throwException",
                <<Last(f.catches).pointer>>)
    IN  [setInsertPoint(createUnreachable(g), f.at)
            EXCEPT !.catches = Front(@)]

endTryWithoutCatch(e) ==
    endTryCatch([Assert0(e, e.tries # <<>>) EXCEPT !.tries = Front(@)])

try_(e, imm) ==
    LET f == newBlock(e)
        pad == Len(f.blocks)
        g == instr(setInsertPoint(f, pad), "landingPad", <<>>)
        h == instr(g, "typeId", <<result(g)>>)
    IN  block(setInsertPoint(
                [h EXCEPT !.tries = Append(@, pad),
                          !.catches = Append(@, [pointer |-> result(g),
                                                 typeId |-> result(h),
                                                 next |-> pad])],
                e.at),
              imm, "try")

\* The first catch clause ends the try's scope, a later one leaves the clause
\* before it; the arm's results go to the end either way.
endArm(e) ==
    LET f == Assert0(e, top(e).type \in {"try", "catch"} /\ e.catches # <<>>)
    IN  branchToEndOfControlContext(
            IF top(e).type = "try"
            THEN [Assert0(f, e.tries # <<>>) EXCEPT !.tries = Front(@)]
            ELSE exitCatch(f))

\* e is at the block that tests the handler; condition is its last result.
enterHandler(e) ==
    LET f == newBlock(newBlock(e))
        b == Len(f.blocks)
    IN  [setInsertPoint(createCondBr(f, result(f), b - 1, b), b - 1)
            EXCEPT !.catches[Len(e.catches)].next = b,
                   !.control[Len(e.control)].type = "catch",
                   !.control[Len(e.control)].reachable = TRUE]

\* Argument i is loaded from slot n - i - 1.
catch_(e, imm) ==
    LET c == Last(e.catches)
        n == Len(At0(IRModule.exceptionTypes, imm))
        f == setInsertPoint(endArm(e), c.next)
        g == enterHandler(instr(f, "eq", <<c.typeId, literal(imm)>>))
        load(h, i) == instr(h, "loadArgument", <<c.pointer, literal(n - i + 1)>>)
    IN  FoldLeft(LAMBDA h, i : push(load(h, i), result(load(h, i))), g,
                 [i \in 1 .. n |-> i])

catch_all(e) ==
    LET f == setInsertPoint(endArm(e), Last(e.catches).next)
    IN  enterHandler(instr(f, "isUserException", <<Last(e.catches).pointer>>))

throw_(e, imm) ==
    LET n == Len(At0(IRModule.exceptionTypes, imm))
        f == emitRuntimeIntrinsic(popMultiple(e, n), "createException",
                                  <<literal(imm)>> \o topValues(e, n))
        g == emitRuntimeIntrinsic(f, "throwException", <<result(f)>>)
    IN  enterUnreachable(createUnreachable(g))

\* The immediate counts entries of the catch stack.
rethrow(e, imm) ==
    LET f == Assert0(e, imm < Len(e.catches))
        c == e.catches[Len(e.catches) - imm]
    IN  IF f.sound
        THEN enterUnreachable(createUnreachable(
                emitRuntimeIntrinsic(f, "throwException", <<c.pointer>>)))
        ELSE f

-----------------------------------------------------------------------------
(* The end of a structure, and branches.                                   *)

\* An end PHI that nothing reaches gives way to a dummy zero.
end(e) ==
    LET c == top(e)
        f == CASE c.type = "try"   -> endTryWithoutCatch(e)
               [] c.type = "catch" -> endTryCatch(e)
               [] OTHER            -> e
        g == branchToEndOfControlContext(f)
        passThrough == FoldLeftDomain(
            LAMBDA k, i : addIncoming(k, c.endPHIs[i], c.elseArgs[i], c.else),
            Assert0(g, Len(c.elseArgs) = Len(c.endPHIs)), c.endPHIs)
        h == IF c.else = 0 THEN g
             ELSE createBr(setInsertPoint(passThrough, c.else), c.end)
        value(i) == IF h.phis[c.endPHIs[i]].in = <<>> THEN literal(0)
                    ELSE <<"phi", c.endPHIs[i]>>
        k == pushMultiple(setInsertPoint(h, c.end),
                          [i \in DOMAIN c.endPHIs |-> value(i)])
    IN  [Assert0(k, c.outerTargets <= Len(k.targets))
            EXCEPT !.targets = SubSeq(@, 1, c.outerTargets),
                   !.control = Front(@)]

br_if(e, imm) ==
    LET target == getBranchTargetByDepth(e, imm)
        f == pop(e)
        g == addIncomings(f, target.phis, topValues(f, Len(target.params)))
        h == newBlock(g)
        c == coerceI32ToBool(h, Last(e.stack))
    IN  setInsertPoint(
            createCondBr(c, result(c), target.block, Len(h.blocks)),
            Len(h.blocks))

br(e, imm) ==
    LET target == getBranchTargetByDepth(e, imm)
        num == Len(target.params)
        f == addIncomings(popMultiple(e, num), target.phis, topValues(e, num))
    IN  enterUnreachable(createBr(f, target.block))


\* One edge, and one incoming value per PHI, for each case of the switch.
br_table(e, imm) ==
    LET default == getBranchTargetByDepth(e, imm[1])
        f == pop(e)
        args == topValues(f, Len(default.params))
        g == addIncomings(popMultiple(f, Len(args)), default.phis, args)
        case(h, depth) ==
            LET phis == getBranchTargetByDepth(e, depth).phis
            IN  Assert0(addIncomings(h, phis, args), Len(phis) = Len(args))
        targetBlock(depth) == getBranchTargetByDepth(e, depth).block
    IN  enterUnreachable(
            terminate(FoldLeft(case, g, imm[2]),
                [t |-> "switch", v |-> Last(e.stack), default |-> default.block,
                 cases |-> [i \in DOMAIN imm[2] |-> targetBlock(imm[2][i])]]))

return_(e) ==
    LET c == e.control[1]
        num == Len(c.results)
        f == addIncomings(popMultiple(e, num), c.endPHIs, topValues(e, num))
    IN  enterUnreachable(createBr(f, c.end))

unreachable(e) ==
    enterUnreachable(
        createUnreachable(emitRuntimeIntrinsic(e, "unreachableTrap", <<>>)))

-----------------------------------------------------------------------------
(* Calls, variables and operators without control.                         *)

\* num operands become the arguments of a runtime intrinsic in operand order;
\* its result, when it has one, is pushed.
intrinsicOperator(e, name, num, hasResult) ==
    LET f == emitRuntimeIntrinsic(popMultiple(e, num), name, topValues(e, num))
    IN  IF hasResult THEN push(f, result(f)) ELSE f

memoryOperator(e, o) ==
    CASE o.op = "memory_grow" -> intrinsicOperator(e, o.op, 1, TRUE)
      [] o.op = "memory_size" -> intrinsicOperator(e, o.op, 0, TRUE)
      [] o.op = "data_drop"   -> intrinsicOperator(e, o.op, 0, FALSE)
      [] o.op \in {"memory_init", "memory_copy", "memory_fill"} ->
            intrinsicOperator(e, o.op, 3, FALSE)

tableOperator(e, o) ==
    CASE o.op = "table_get"  -> intrinsicOperator(e, o.op, 1, TRUE)
      [] o.op = "table_set"  -> intrinsicOperator(e, o.op, 2, FALSE)
      [] o.op = "table_grow" -> intrinsicOperator(e, o.op, 2, TRUE)
      [] o.op = "table_size" -> intrinsicOperator(e, o.op, 0, TRUE)
      [] o.op = "elem_drop"  -> intrinsicOperator(e, o.op, 0, FALSE)
      [] o.op \in {"table_init", "table_copy", "table_fill"} ->
            intrinsicOperator(e, o.op, 3, FALSE)

call(e, imm) ==
    LET t == At0(IRModule.types, At0(IRModule.functions, imm))
        num == Len(t.params)
    IN  emitWasmCall(popMultiple(e, num), literal(imm), topValues(e, num),
                     Len(t.results))

\* The element is loaded without a bounds check: past the end of the table
\* the memory holds elements of no function type (see Table).
call_indirect(e, imm) ==
    LET t == At0(IRModule.types, imm[1])
        num == Len(t.params)
        index == Last(e.stack)
        f == pop(e)
        args == topValues(f, num)
        g == instr(popMultiple(f, num), "tableElement", <<literal(imm[2]), index>>)
        function == result(g)
        h == instr(instr(g, "functionType", <<function>>), "ne",
                   <<<<"ssa", g.n + 1>>, literal(imm[1])>>)
        k == emitConditionalTrapIntrinsic(h, result(h), "callIndirectFail")
    IN  emitWasmCall(k, function, args, Len(t.results))

select(e) ==
    LET v == topValues(e, 3)
        c == coerceI32ToBool(popMultiple(e, 3), v[3])
        f == instr(c, "select", <<result(c), v[1], v[2]>>)
    IN  push(f, result(f))

local_get(e, imm) ==
    LET f == instr(e, "loadLocal", <<literal(imm)>>) IN push(f, result(f))

local_set(e, imm) == instr(pop(e), "storeLocal", <<literal(imm), Last(e.stack)>>)

local_tee(e, imm) == instr(e, "storeLocal", <<literal(imm), Last(e.stack)>>)

\* A mutable global lives in the context; an immutable definition is a
\* literal.
global_get(e, imm) ==
    LET g == At0(IRModule.globals, imm)
        f == instr(e, "loadGlobal", <<literal(imm)>>)
    IN  IF g.mutable THEN push(f, result(f)) ELSE push(e, literal(g.value))

global_set(e, imm) ==
    instr(Assert0(pop(e), At0(IRModule.globals, imm).mutable),
          "storeGlobal", <<literal(imm), Last(e.stack)>>)

\* EMIT_LOAD_OP: the address is relative to the memory base variable.
load(e, imm) ==
    LET f == instr(pop(e), "loadMemory", <<Last(e.stack), literal(imm)>>)
    IN  push(f, result(f))

\* EMIT_BINARY_OP, after the checks that keep a division defined.
binary(e, name) ==
    LET v == topValues(e, 2)
        f == popMultiple(e, 2)
        zero == instr(f, "eq", <<v[2], literal(0)>>)
        overflow == instr(instr(instr(zero, "eq", <<v[1], literal(WordSize \div 2)>>),
                                "eq", <<v[2], literal(WordSize - 1)>>),
                          "and", <<<<"ssa", f.n + 2>>, <<"ssa", f.n + 3>>>>)
        either == instr(overflow, "or", <<result(overflow), result(zero)>>)
        trap(g) == emitConditionalTrapIntrinsic(g, result(g),
                        "divideByZeroOrIntegerOverflowTrap")
        g == CASE name \in {"i32_div_u", "i32_rem_u"} -> trap(zero)
               [] name = "i32_div_s" -> trap(either)
               [] OTHER -> f
        h == instr(g, name, v)
    IN  push(h, result(h))

-----------------------------------------------------------------------------
(* EmitFunctionContext::emit.                                              *)

\* The entry block and the return block with its PHIs; parameters and zeroed
\* locals are in memory before the first operator.
newFunction(results) ==
    LET e == newBlock(newBlock(
                [blocks |-> <<>>, phis |-> <<>>, at |-> 1, stack |-> <<>>,
                 control |-> <<>>, targets |-> <<>>, tries |-> <<>>,
                 catches |-> <<>>, skipped |-> 0, n |-> 0, sound |-> TRUE]))
        f == createPHIs(e, 2, results)
        phis == lastPHIs(f, results)
    IN  pushBranchTarget(
            pushControlStack(instr(f, "initContextVariables", <<>>),
                             "function", results, 2, phis, 0, <<>>),
            results, 2, phis)

emitOp(e, o) ==
    CASE o.op = "block"       -> block(e, o.imm, "block")
      [] o.op = "loop"        -> loop(e, o.imm)
      [] o.op = "if"          -> if_(e, o.imm)
      [] o.op = "else"        -> else_(e)
      [] o.op = "end"         -> end(e)
      [] o.op = "try"         -> try_(e, o.imm)
      [] o.op = "catch"       -> catch_(e, o.imm)
      [] o.op = "catch_all"   -> catch_all(e)
      [] o.op = "return"      -> return_(e)
      [] o.op = "br"          -> br(e, o.imm)
      [] o.op = "br_table"    -> br_table(e, o.imm)
      [] o.op = "br_if"       -> br_if(e, o.imm)
      [] o.op = "unreachable" -> unreachable(e)
      [] o.op = "throw"       -> throw_(e, o.imm)
      [] o.op = "rethrow"     -> rethrow(e, o.imm)
      [] o.op = "drop"        -> pop(e)
      [] o.op = "nop"         -> e
      [] o.op = "select"      -> select(e)
      [] o.op = "call"        -> call(e, o.imm)
      [] o.op = "call_indirect" -> call_indirect(e, o.imm)
      [] o.op = "local_get"   -> local_get(e, o.imm)
      [] o.op = "local_set"   -> local_set(e, o.imm)
      [] o.op = "local_tee"   -> local_tee(e, o.imm)
      [] o.op = "global_get"  -> global_get(e, o.imm)
      [] o.op = "global_set"  -> global_set(e, o.imm)
      [] o.op = "i32_const"   -> push(e, literal(o.imm))
      [] o.op = "i32_load"    -> load(e, o.imm[2])
      [] o.op \in {"memory_grow", "memory_size", "memory_init", "memory_copy",
                   "memory_fill", "data_drop"} -> memoryOperator(e, o)
      [] o.op \in {"table_get", "table_set", "table_grow", "table_size",
                   "table_init", "table_copy", "table_fill", "elem_drop"} ->
            tableOperator(e, o)
      [] OTHER                -> binary(e, o.op)

\* UnreachableOpVisitor: only the operator that ends the unreachable code is
\* passed on.
skipOp(e, o) ==
    CASE o.op \in {"block", "loop", "if", "try"} -> [e EXCEPT !.skipped = @ + 1]
      [] o.op = "end" /\ e.skipped > 0 -> [e EXCEPT !.skipped = @ - 1]
      [] o.op \in {"end", "else", "catch", "catch_all"} /\ e.skipped = 0 ->
            emitOp(e, o)
      [] OTHER -> e

decodeOp(e, o) == IF top(e).reachable THEN emitOp(e, o) ELSE skipOp(e, o)

\* emitReturn, in the return block.
finishFunction(e, results) ==
    terminate(Assert0(e, e.at = 2 /\ Len(e.stack) = Len(results)),
              [t |-> "ret", values |-> e.stack])
=============================================================================
