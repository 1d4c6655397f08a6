----------------------------- MODULE Execution ------------------------------
(***************************************************************************)
(* What a function means, twice.  Runs(ir, ...) executes the basic blocks  *)
(* of FunctionEmission the way LLVM defines them, against the runtime      *)
(* intrinsics of Lib/Runtime/Exception.cpp; Means(code, ...) executes the  *)
(* operators the way WebAssembly defines them.  Both stop after Fuel       *)
(* steps.  An outcome is a record: how is "return", "throw", "trap" or     *)
(* "fuel".                                                                 *)
(***************************************************************************)
EXTENDS IRTypes

CONSTANTS
    Callees,        \* Callees[f][args]: [how, values, switch, type, args]
    Elements,       \* the table: a function index, or -1 for none
    MemoryData,     \* MemoryData[context][address]
    Fuel

\* Called functions may come back in another context (a fork of the caller's
\* compartment).
CalleeContext(f, args, ctx) ==
    IF Callees[f][args].switch THEN 3 - ctx ELSE ctx

Signed(v) == IF v >= WordSize \div 2 THEN v - WordSize ELSE v

Magnitude(v) == IF v < 0 THEN -v ELSE v

Quotient(a, b) ==
    LET q == Magnitude(Signed(a)) \div Magnitude(Signed(b))
    IN  (IF (Signed(a) < 0) = (Signed(b) < 0) THEN q ELSE -q) % WordSize

Arithmetic(name, a, b) ==
    CASE name = "i32_add"   -> (a + b) % WordSize
      [] name = "i32_sub"   -> (a - b) % WordSize
      [] name = "i32_div_u" -> a \div b
      [] name = "i32_rem_u" -> a % b
      [] name = "i32_div_s" -> Quotient(a, b)

\* What the runtime's intrinsics other than those on exceptions do here: an
\* access at or past index 2 traps.
IntrinsicTraps(name, args) ==
    \/ name \in {"table_get", "table_set", "table_fill", "memory_fill"}
       /\ args[1] >= 2
    \/ name \in {"unreachableTrap", "callIndirectFail",
                 "divideByZeroOrIntegerOverflowTrap"}

IntrinsicResult(name, args) ==
    CASE name = "table_get" -> args[1] + 1
      [] name = "table_grow" -> (args[1] + 2 * args[2]) % WordSize
      [] OTHER -> 1

-----------------------------------------------------------------------------
(* LLVM.                                                                   *)

\* exceptions: the runtime exceptions created, which of them are alive, and
\* whether a destroyed one was used.
Start(ir, locals, globals) ==
    [block |-> 1, prev |-> 0, env |-> [i \in 1 .. ir.n |-> 0],
     phi |-> [i \in DOMAIN ir.phis |-> 0], locals |-> locals, ctx |-> 0,
     base |-> 0, globals |-> globals, exceptions |-> <<>>, pending |-> 0,
     misused |-> FALSE, how |-> "running", values |-> <<>>]

Value(st, v) ==
    CASE v[1] = "ssa" -> st.env[v[2]]
      [] v[1] = "phi" -> st.phi[v[2]]
      [] OTHER -> v[2]

Set(st, dst, v) == [st EXCEPT !.env[dst] = v]

Throw(st, pointer) ==
    [st EXCEPT !.pending = pointer,
               !.misused = @ \/ ~st.exceptions[pointer].live]

CreateException(st, type, args, user) ==
    [st EXCEPT !.exceptions = Append(@, [type |-> type, args |-> args,
                                         user |-> user, live |-> TRUE])]

Trap(st) ==
    LET t == CreateException(st, -1, <<>>, FALSE)
    IN  Throw(t, Len(t.exceptions))

Destroy(st, pointer) ==
    [st EXCEPT !.exceptions[pointer].live = FALSE,
               !.misused = @ \/ ~st.exceptions[pointer].live]

CallFunction(st, f, ctx, args, dst) ==
    LET outcome == Callees[f][args]
    IN  CASE outcome.how = "return" ->
                Set(st, dst, [ctx |-> CalleeContext(f, args, ctx),
                              values |-> outcome.values])
          [] outcome.how = "throw" ->
                LET t == CreateException(st, outcome.type, outcome.args, TRUE)
                IN  Throw(t, Len(t.exceptions))
          [] OTHER -> Trap(st)

\* args[1] is the callee; pending is the exception a call throws.
Call(st, args, dst) ==
    LET actuals == [i \in 1 .. Len(args) - 1 |-> Value(st, args[i + 1])]
        name == args[1][2]
    IN  CASE args[1][1] # "intrinsic" ->
                CallFunction(st, Value(st, args[1]), Head(actuals),
                             Tail(actuals), dst)
          [] name = "createException" ->
                Set(CreateException(st, Head(actuals), Tail(actuals), TRUE),
                    dst, Len(st.exceptions) + 1)
          [] name = "throwException" -> Throw(st, Head(actuals))
          [] name = "destroyException" -> Destroy(st, Head(actuals))
          [] IntrinsicTraps(name, actuals) -> Trap(st)
          [] OTHER -> Set(st, dst, IntrinsicResult(name, actuals))

Truth(b) == IF b THEN 1 ELSE 0

Instruction(st, i) ==
    LET v(k) == Value(st, i.args[k])
        read(pointer, field) ==
            [Set(st, i.dst, field) EXCEPT
                !.misused = @ \/ ~st.exceptions[pointer].live]
        put(x) == Set(st, i.dst, x)
    IN  CASE i.i = "call"        -> Call(st, i.args, i.dst)
          [] i.i = "ne"          -> put(Truth(v(1) # v(2)))
          [] i.i = "eq"          -> put(Truth(v(1) = v(2)))
          [] i.i = "and"         -> put(v(1) * v(2))
          [] i.i = "or"          -> put(Truth(v(1) + v(2) > 0))
          [] i.i = "select"      -> put(IF v(1) = 1 THEN v(2) ELSE v(3))
          [] i.i = "extract"     -> put(v(1).values[v(2)])
          [] i.i = "loadLocal"   -> put(At0(st.locals, v(1)))
          [] i.i = "storeLocal"  -> [st EXCEPT !.locals[v(1) + 1] = v(2)]
          [] i.i = "loadGlobal"  -> put(st.globals[st.ctx][v(1) + 1])
          [] i.i = "storeGlobal" -> [st EXCEPT !.globals[st.ctx][v(1) + 1] = v(2)]
          [] i.i = "loadContext" -> put(st.ctx)
          [] i.i = "storeContext" -> [st EXCEPT !.ctx = v(1).ctx]
          [] i.i = "reloadMemoryBase" -> [st EXCEPT !.base = st.ctx]
          [] i.i = "initContextVariables" -> [st EXCEPT !.ctx = 1, !.base = 1]
          [] i.i = "loadMemory"  ->
                IF v(1) + v(2) \in DOMAIN MemoryData[st.base]
                THEN put(MemoryData[st.base][v(1) + v(2)]) ELSE Trap(st)
          [] i.i = "landingPad"  -> put(st.pending)
          [] i.i = "typeId"      -> read(v(1), st.exceptions[v(1)].type)
          [] i.i = "isUserException" ->
                read(v(1), Truth(st.exceptions[v(1)].user))
          [] i.i = "loadArgument" -> read(v(1), st.exceptions[v(1)].args[v(2)])
          [] i.i = "tableElement" ->
                put(IF InRange(v(2), Elements) THEN At0(Elements, v(2)) ELSE -1)
          [] i.i = "functionType" ->
                put(IF v(1) = -1 THEN -1 ELSE At0(IRModule.functions, v(1)))
          [] OTHER               -> put(Arithmetic(i.i, v(1), v(2)))

\* An instruction after one that threw is not executed.
Instructions(st, code) ==
    FoldLeft(LAMBDA s, i : IF s.pending # 0 /\ i.i # "landingPad" THEN s
                           ELSE IF i.i = "landingPad"
                                THEN [Instruction(s, i) EXCEPT !.pending = 0]
                                ELSE Instruction(s, i),
             st, code)

\* All PHIs of a block read their values before any of them changes.
EnterBlock(ir, st, b) ==
    LET incoming(p) ==
            CHOOSE i \in DOMAIN ir.phis[p].in : ir.phis[p].in[i].from = st.block
    IN  [st EXCEPT !.block = b, !.prev = st.block,
            !.phi = [p \in DOMAIN ir.phis |->
                IF ir.phis[p].block = b /\ ir.phis[p].in # <<>>
                THEN Value(st, ir.phis[p].in[incoming(p)].value)
                ELSE st.phi[p]]]

Uncaught(st) ==
    LET x == st.exceptions[st.pending]
    IN  IF x.user THEN [st EXCEPT !.how = "throw",
                                  !.values = <<x.type>> \o x.args]
        ELSE [st EXCEPT !.how = "trap"]

StepBlock(ir, st) ==
    LET s == Instructions(st, ir.blocks[st.block].code)
        t == ir.blocks[st.block].term
        called == Call(s, t.args, t.dst)
    IN  CASE s.pending # 0 -> Uncaught(s)
          [] t.t = "br"   -> EnterBlock(ir, s, t.to)
          [] t.t = "cond" ->
                EnterBlock(ir, s, IF Value(s, t.v) = 1 THEN t.yes ELSE t.no)
          [] t.t = "switch" ->
                EnterBlock(ir, s, IF InRange(Value(s, t.v), t.cases)
                                  THEN At0(t.cases, Value(s, t.v))
                                  ELSE t.default)
          [] t.t = "invoke" ->
                IF called.pending = 0 THEN EnterBlock(ir, called, t.normal)
                ELSE EnterBlock(ir, called, t.unwind)
          [] t.t = "ret" ->
                [s EXCEPT !.how = "return",
                    !.values = [i \in DOMAIN t.values |-> Value(s, t.values[i])]]
          [] OTHER -> [s EXCEPT !.how = "undefined"]

RECURSIVE StepBlocks(_, _, _)
StepBlocks(ir, st, fuel) ==
    IF fuel = 0 \/ st.how # "running" THEN st
    ELSE StepBlocks(ir, StepBlock(ir, st), fuel - 1)

Runs(ir, locals, globals) == StepBlocks(ir, Start(ir, locals, globals), Fuel)
=============================================================================
