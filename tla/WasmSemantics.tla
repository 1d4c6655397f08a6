--------------------------- MODULE WasmSemantics ----------------------------
(***************************************************************************)
(* The reference meaning of a function body: WebAssembly's operational     *)
(* semantics with the exception handling proposal, over the environment    *)
(* of Execution.  m is the machine:                                        *)
(*   pc       the next operator                                            *)
(*   stack    the operands                                                 *)
(*   labels   the structures entered: kind, first and last operator,       *)
(*            operands below it, arity of a branch to it, and the exception *)
(*            a catch clause is handling                                   *)
(***************************************************************************)
EXTENDS Execution

Opens(o) == o.op \in {"block", "loop", "if", "try"}

\* The clauses and the end of the structure opened at pc, in order.
Clauses(code, pc) ==
    LET depth(i) == Len(SelectSeq(SubSeq(code, pc, i - 1), Opens))
                    - Len(SelectSeq(SubSeq(code, pc, i - 1),
                                    LAMBDA o : o.op = "end"))
        own == {i \in pc + 1 .. Len(code) :
                    depth(i) = 1 /\ code[i].op \in {"else", "catch", "catch_all", "end"}}
        last == CHOOSE i \in own : code[i].op = "end" /\ \A j \in own :
                                        code[j].op = "end" => i <= j
    IN  SelectSeq([i \in 1 .. last |-> i], LAMBDA i : i \in own)

EndOf(code, pc) == Last(Clauses(code, pc))

NoException == [type |-> -2, args |-> <<>>]
TrapException == [type |-> -1, args |-> <<>>]

Label(kind, from, to, height, arity) ==
    [kind |-> kind, from |-> from, to |-> to, height |-> height,
     arity |-> arity, exception |-> NoException]

Begin(code, locals, globals, numResults) ==
    [pc |-> 1, stack |-> <<>>, locals |-> locals, globals |-> globals,
     ctx |-> 1, how |-> "running", values |-> <<>>,
     labels |-> <<Label("function", 0, Len(code), 0, numResults)>>]

Arg(m, k) == m.stack[Len(m.stack) - k]

PopN(m, k) == [m EXCEPT !.stack = SubSeq(@, 1, Len(@) - k), !.pc = @ + 1]

PushN(m, values) == [m EXCEPT !.stack = @ \o values]

TopN(m, k) == SubSeq(m.stack, Len(m.stack) - k + 1, Len(m.stack))

Branch(m, depth) ==
    LET k == Len(m.labels) - depth
        label == m.labels[k]
        values == TopN(m, label.arity)
    IN  [m EXCEPT
            !.stack = SubSeq(@, 1, label.height) \o values,
            !.labels = SubSeq(@, 1, IF label.kind = "loop" THEN k ELSE k - 1),
            !.pc = IF label.kind = "loop" THEN label.from + 1 ELSE label.to + 1]

Catches(code, clause, exception) ==
    \/ code[clause].op = "catch" /\ code[clause].imm = exception.type
    \/ code[clause].op = "catch_all" /\ exception # TrapException

\* The innermost try whose body is running takes the exception in its first
\* matching clause; without one the exception leaves the function.
Raise(code, m, exception) ==
    LET clauses(k) == SelectSeq(Clauses(code, m.labels[k].from),
                                LAMBDA i : Catches(code, i, exception))
        handlers == {k \in DOMAIN m.labels :
                        m.labels[k].kind = "try" /\ clauses(k) # <<>>}
        k == CHOOSE i \in handlers : \A j \in handlers : j <= i
        clause == Head(clauses(k))
        label == [m.labels[k] EXCEPT !.kind = "catch", !.exception = exception]
    IN  CASE handlers # {} ->
                [m EXCEPT !.labels = Append(SubSeq(@, 1, k - 1), label),
                          !.stack = SubSeq(@, 1, label.height) \o
                                    (IF code[clause].op = "catch"
                                     THEN exception.args ELSE <<>>),
                          !.pc = clause + 1]
          [] exception = TrapException -> [m EXCEPT !.how = "trap"]
          [] OTHER -> [m EXCEPT !.how = "throw",
                                !.values = <<exception.type>> \o exception.args]

\* Enters the structure at pc with its parameters, skipping to pc first.
Enter(code, m, kind, first) ==
    LET o == code[m.pc]
        t == resolveBlockType(o.imm)
        arity == Len(IF kind = "loop" THEN t.params ELSE t.results)
    IN  [m EXCEPT !.pc = first,
                  !.labels = Append(@, Label(kind, m.pc, EndOf(code, m.pc),
                                             Len(m.stack) - Len(t.params), arity))]

EnterIf(code, m) ==
    LET taken == Arg(m, 0) # 0
        n == [m EXCEPT !.stack = Front(@)]
        other == Head(Clauses(code, m.pc))
    IN  IF taken THEN Enter(code, n, "if", m.pc + 1)
        ELSE IF code[other].op = "else" THEN Enter(code, n, "if", other + 1)
        ELSE [n EXCEPT !.pc = other + 1]

Invoke(code, m, f, args) ==
    LET outcome == Callees[f][args]
    IN  CASE outcome.how = "return" ->
                [PushN(m, outcome.values) EXCEPT
                    !.ctx = CalleeContext(f, args, m.ctx)]
          [] outcome.how = "throw" ->
                Raise(code, m, [type |-> outcome.type, args |-> outcome.args])
          [] OTHER -> Raise(code, m, TrapException)

InvokeIndirect(code, m, imm) ==
    LET t == At0(IRModule.types, imm[1])
        index == Arg(m, 0)
        f == IF InRange(index, Elements) THEN At0(Elements, index) ELSE -1
        n == PopN(m, Len(t.params) + 1)
    IN  IF f # -1 /\ At0(IRModule.functions, f) = imm[1]
        THEN Invoke(code, n, f, SubSeq(TopN(m, Len(t.params) + 1), 1, Len(t.params)))
        ELSE Raise(code, n, TrapException)

Intrinsic(code, m, name, num, hasResult) ==
    LET n == PopN(m, num)
    IN  IF IntrinsicTraps(name, TopN(m, num)) THEN Raise(code, n, TrapException)
        ELSE IF hasResult THEN PushN(n, <<IntrinsicResult(name, TopN(m, num))>>)
        ELSE n

Binary(code, m, name) ==
    LET a == Arg(m, 1)
        b == Arg(m, 0)
        traps == \/ name \in {"i32_div_u", "i32_rem_u", "i32_div_s"} /\ b = 0
                 \/ name = "i32_div_s" /\ Signed(b) = -1
                    /\ Signed(a) = -(WordSize \div 2)
    IN  IF traps THEN Raise(code, m, TrapException)
        ELSE PushN(PopN(m, 2), <<Arithmetic(name, a, b)>>)

Step(code, m) ==
    LET o == code[m.pc]
        imm == o.imm
        next == PopN(m, 0)
    IN  CASE o.op = "block"  -> Enter(code, m, "block", m.pc + 1)
          [] o.op = "loop"   -> Enter(code, m, "loop", m.pc + 1)
          [] o.op = "try"    -> Enter(code, m, "try", m.pc + 1)
          [] o.op = "if"     -> EnterIf(code, m)
          [] o.op \in {"else", "catch", "catch_all"} ->
                [m EXCEPT !.pc = Last(m.labels).to + 1, !.labels = Front(@)]
          [] o.op = "end"    -> [next EXCEPT !.labels = Front(@)]
          [] o.op = "br"     -> Branch(m, imm)
          [] o.op = "br_if"  ->
                IF Arg(m, 0) = 0 THEN PopN(m, 1) ELSE Branch(PopN(m, 1), imm)
          [] o.op = "br_table" ->
                Branch(PopN(m, 1), IF InRange(Arg(m, 0), imm[2])
                                   THEN At0(imm[2], Arg(m, 0)) ELSE imm[1])
          [] o.op = "return" -> Branch(m, Len(m.labels) - 1)
          [] o.op = "unreachable" -> Raise(code, m, TrapException)
          [] o.op = "throw"  ->
                LET n == Len(At0(IRModule.exceptionTypes, imm))
                IN  Raise(code, m, [type |-> imm, args |-> TopN(m, n)])
          [] o.op = "rethrow" ->
                Raise(code, m, m.labels[Len(m.labels) - imm].exception)
          [] o.op = "nop"    -> next
          [] o.op = "drop"   -> PopN(m, 1)
          [] o.op = "select" ->
                PushN(PopN(m, 3), <<IF Arg(m, 0) # 0 THEN Arg(m, 2) ELSE Arg(m, 1)>>)
          [] o.op = "call"   ->
                LET n == Len(At0(IRModule.types,
                                 At0(IRModule.functions, imm)).params)
                IN  Invoke(code, PopN(m, n), imm, TopN(m, n))
          [] o.op = "call_indirect" -> InvokeIndirect(code, m, imm)
          [] o.op = "local_get" -> PushN(next, <<At0(m.locals, imm)>>)
          [] o.op = "local_set" ->
                [PopN(m, 1) EXCEPT !.locals[imm + 1] = Arg(m, 0)]
          [] o.op = "local_tee" -> [next EXCEPT !.locals[imm + 1] = Arg(m, 0)]
          [] o.op = "global_get" ->
                LET g == At0(IRModule.globals, imm)
                IN  PushN(next, <<IF g.mutable THEN m.globals[m.ctx][imm + 1]
                                  ELSE g.value>>)
          [] o.op = "global_set" ->
                [PopN(m, 1) EXCEPT !.globals[m.ctx][imm + 1] = Arg(m, 0)]
          [] o.op = "i32_const" -> PushN(next, <<imm>>)
          [] o.op = "i32_load" ->
                IF Arg(m, 0) + imm[2] \in DOMAIN MemoryData[m.ctx]
                THEN PushN(PopN(m, 1),
                           <<MemoryData[m.ctx][Arg(m, 0) + imm[2]]>>)
                ELSE Raise(code, m, TrapException)
          [] o.op \in {"memory_size", "table_size"} ->
                Intrinsic(code, m, o.op, 0, TRUE)
          [] o.op \in {"memory_grow", "table_get"} ->
                Intrinsic(code, m, o.op, 1, TRUE)
          [] o.op = "table_grow" -> Intrinsic(code, m, o.op, 2, TRUE)
          [] o.op = "table_set"  -> Intrinsic(code, m, o.op, 2, FALSE)
          [] o.op \in {"elem_drop", "data_drop"} ->
                Intrinsic(code, m, o.op, 0, FALSE)
          [] o.op \in {"memory_init", "memory_copy", "memory_fill",
                       "table_init", "table_copy", "table_fill"} ->
                Intrinsic(code, m, o.op, 3, FALSE)
          [] OTHER -> Binary(code, m, o.op)

\* The function returns when its own label is gone.
Steps1(code, m) ==
    LET n == Step(code, m)
    IN  IF n.how = "running" /\ n.labels = <<>>
        THEN [n EXCEPT !.how = "return", !.values = n.stack] ELSE n

RECURSIVE StepAll(_, _, _)
StepAll(code, m, fuel) ==
    IF fuel = 0 \/ m.how # "running" THEN m
    ELSE StepAll(code, Steps1(code, m), fuel - 1)

Means(code, locals, globals, numResults) ==
    StepAll(code, Begin(code, locals, globals, numResults), Fuel)
=============================================================================
