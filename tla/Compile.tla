------------------------------ MODULE Compile -------------------------------
(***************************************************************************)
(* A function body on its way through WAVM: each operator is validated as  *)
(* the body is decoded (CodeValidationStream), and only a body that passes *)
(* is decoded again for the emitter, operator by operator, and then run.   *)
(***************************************************************************)
EXTENDS WasmSemantics

CONSTANTS
    OpSigs,
    Programs,       \* [id -> [params, results, locals, code]]
    Inputs,         \* the arguments a program is run with
    InitialGlobals

V == INSTANCE FunctionValidation
E == INSTANCE FunctionEmission

VARIABLES
    program,        \* the body being compiled
    phase,          \* "validating", "rejected", "emitting", "compiled", "ran"
    pos,            \* the operators decoded so far in this phase
    context,        \* the validator's context after them
    emitter,        \* the emitter's context after them
    ran             \* how a run of the compiled function ended, and its meaning

compileVars == <<program, phase, pos, context, emitter, ran>>

P == Programs[program]

Context0(p) == V!newContext(p.params, p.results, p.locals)

CompileInit ==
    /\ program \in DOMAIN Programs
    /\ phase = "validating"
    /\ pos = 0
    /\ context = Context0(P)
    /\ emitter = E!newFunction(P.results)
    /\ ran = <<>>

ValidateOperator ==
    /\ phase = "validating" /\ context.ok /\ pos < Len(P.code)
    /\ context' = V!visit(context, P.code[pos + 1])
    /\ pos' = pos + 1
    /\ UNCHANGED <<program, phase, emitter, ran>>

\* finish(): the body must end where its last end does.
FinishValidation ==
    /\ phase = "validating" /\ (~context.ok \/ pos = Len(P.code))
    /\ IF context.ok /\ V!finished(context)
       THEN phase' = "emitting" /\ pos' = 0 /\ context' = Context0(P)
       ELSE phase' = "rejected" /\ UNCHANGED <<pos, context>>
    /\ UNCHANGED <<program, emitter, ran>>

\* The validator's context is carried along to compare the emitter's with.
EmitOperator ==
    /\ phase = "emitting" /\ emitter.sound /\ pos < Len(P.code)
    /\ emitter' = E!decodeOp(emitter, P.code[pos + 1])
    /\ context' = V!visit(context, P.code[pos + 1])
    /\ pos' = pos + 1
    /\ UNCHANGED <<program, phase, ran>>

FinishEmission ==
    /\ phase = "emitting" /\ emitter.sound /\ pos = Len(P.code)
    /\ emitter' = E!finishFunction(emitter, P.results)
    /\ phase' = "compiled"
    /\ UNCHANGED <<program, pos, context, ran>>

\* Two machines ended alike; one that is still running when its fuel is spent
\* diverges.
Ending(m) ==
    IF m.how = "running" THEN <<m.how>> ELSE <<m.how, m.values, m.globals, m.ctx>>

RunFunction(args) ==
    /\ phase = "compiled" /\ emitter.sound /\ Len(args) = Len(P.params)
    /\ LET locals == args \o [i \in DOMAIN P.locals |-> 0]
           compiled == Runs(emitter, locals, InitialGlobals)
           source == Means(P.code, locals, InitialGlobals, Len(P.results))
       IN  ran' = [args |-> args, compiled |-> Ending(compiled),
                   source |-> Ending(source), misused |-> compiled.misused]
    /\ phase' = "ran"
    /\ UNCHANGED <<program, pos, context, emitter>>

CompileDone == phase \in {"rejected", "ran"} \/ ~emitter.sound

CompileNext ==
    \/ ValidateOperator \/ FinishValidation
    \/ EmitOperator \/ FinishEmission
    \/ \E args \in Inputs : RunFunction(args)

-----------------------------------------------------------------------------
Edges(term) ==
    CASE term.t = "br"     -> <<term.to>>
      [] term.t = "cond"   -> <<term.yes, term.no>>
      [] term.t = "switch" -> <<term.default>> \o term.cases
      [] term.t = "invoke" -> <<term.normal, term.unwind>>
      [] OTHER -> <<>>

Count(seq, x) == Len(SelectSeq(seq, LAMBDA y : y = x))

\* After every operator the emitter's stacks are the validator's: the same
\* structures are open, the same of them are reachable, and a reachable one
\* has as many operands in the emitted function as types in the validator
\* (structures opened in unreachable code exist only in the validator; see
\* UnreachableOpVisitor in EmitFunction.cpp).
EmitterFollowsValidator ==
    phase = "emitting" /\ emitter.sound =>
        /\ Len(context.control) = Len(emitter.control) + emitter.skipped
        /\ \A i \in DOMAIN emitter.control :
                context.control[i].reachable = emitter.control[i].reachable
        /\ emitter.control # <<>> /\ E!top(emitter).reachable =>
                Len(context.stack) = Len(emitter.stack)


=============================================================================
