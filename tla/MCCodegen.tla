----------------------------- MODULE MCCodegen ------------------------------
(***************************************************************************)
(* Small instances for Compile: every leaf inside every pair of            *)
(* structures.  A program takes one i32 and returns one; local 0 is the    *)
(* argument and local 1 a local.                                           *)
(***************************************************************************)
EXTENDS Compile

VARIABLES question, answer

MCWordSize == 4
MCFuel == 150

T1 == [params |-> <<"i32">>, results |-> <<"i32">>]

MCIRModule ==
    [types |-> <<[params |-> <<>>, results |-> <<>>], T1,
                 [params |-> <<"i32">>, results |-> <<>>]>>,
     functions |-> <<1, 2>>,
     exceptionTypes |-> <<<<"i32">>, <<>>>>,
     globals |-> <<[type |-> "i32", mutable |-> TRUE, value |-> 0],
                   [type |-> "i32", mutable |-> FALSE, value |-> 2]>>,
     tables |-> <<"funcref">>,
     memories |-> <<FALSE>>, numDataSegments |-> 0, numElemSegments |-> 0,
     features |-> {"mvp", "exceptionHandling", "referenceTypes",
                   "multipleResultsAndBlockParams"}]

Sig(params, results, imm) ==
    [params |-> params, results |-> results, feature |-> "mvp", imm |-> imm,
     natural |-> 2]
I == "i32"
MCOpSigs ==
    [op \in {"i32_add", "i32_sub", "i32_div_s", "i32_div_u", "i32_rem_u"} |->
        Sig(<<I, I>>, <<I>>, "none")]
    @@ "i32_const"   :> Sig(<<>>, <<I>>, "literal")
    @@ "memory_size" :> Sig(<<>>, <<I>>, "memory")
    @@ "table_size"  :> Sig(<<>>, <<I>>, "table")
    @@ "i32_load"    :> Sig(<<I>>, <<I>>, "load")
    @@ "memory_grow" :> Sig(<<I>>, <<I>>, "memory")
    @@ "nop"         :> Sig(<<>>, <<>>, "none")

Returns(x, switch) == [how |-> "return", values |-> x, switch |-> switch,
                       type |-> 0, args |-> <<>>]
Throws(type, args) == [how |-> "throw", values |-> <<>>, switch |-> FALSE,
                       type |-> type, args |-> args]
Traps == [how |-> "trap", values |-> <<>>, switch |-> FALSE, type |-> 0,
          args |-> <<>>]

\* f0 returns, throws, traps, or returns in another context.
MCCallees ==
    0 :> ((<<0>> :> Returns(<<0>>, FALSE)) @@ (<<1>> :> Throws(0, <<3>>))
          @@ (<<2>> :> Traps) @@ (<<3>> :> Returns(<<1>>, TRUE)))
    @@ 1 :> [args \in {<<i>> : i \in 0 .. 3} |-> Throws(1, <<>>)]

MCElements == <<0, 1, -1>>
MCMemoryData == <<0 :> 1 @@ 1 :> 3 @@ 2 :> 0, 0 :> 2 @@ 1 :> 0 @@ 2 :> 3>>
MCInitialGlobals == <<<<1, 2>>, <<3, 2>>>>
MCInputs == {<<i>> : i \in 0 .. 3}

-----------------------------------------------------------------------------
Op(op, imm) == [op |-> op, imm |-> imm]
Void == <<"void">>
One == <<"one", "i32">>
Typed == <<"index", 1>>
get(i) == Op("local_get", i)
put(i) == Op("local_set", i)
const(v) == Op("i32_const", v)
End == Op("end", 0)

\* A structure: what is written before and after the code inside it.
Structures == <<
    <<<<Op("block", Void)>>, <<End>>>>,
    <<<<get(0), Op("if", Void)>>, <<Op("else", 0), const(1), put(1), End>>>>,
    <<<<Op("try", Void)>>, <<Op("catch", 0), put(1), End>>>>,
    <<<<Op("try", Void), const(1), Op("throw", 0), Op("catch", 0), put(1)>>,
      <<Op("catch_all", 0), End>>>>,
    <<<<Op("loop", Void)>>, <<get(1), const(1), Op("i32_add", 0),
        Op("local_tee", 1), const(3), Op("i32_sub", 0), Op("br_if", 0), End>>>>,
    <<<<Op("try", One)>>, <<get(0), Op("catch", 1), const(1),
        Op("catch_all", 0), const(2), End, put(1)>>>>,
    <<<<get(0), Op("loop", Typed)>>, <<const(1), Op("i32_sub", 0),
        Op("local_tee", 1), get(1), Op("br_if", 0), End, put(1)>>>>,
    <<<<get(1), get(0), Op("if", Typed)>>, <<const(1), Op("i32_add", 0), End,
        put(1)>>>>,
    <<<<Op("block", One)>>, <<get(1), End, put(1)>>>>,
    <<<<Op("try", Void)>>, <<Op("catch", 0), put(1), Op("rethrow", 0), End>>>>,
    <<<<Op("block", Void)>>, <<Op("br", 0), get(0), Op("if", Void),
        Op("unreachable", 0), Op("else", 0), Op("br", 1), End, Op("drop", 0), End>>>>,
    <<<<get(0), Op("block", Typed)>>, <<End, put(1)>>>>
    >>

Leaves == <<
    <<Op("nop", 0), const(2), Op("table_size", 0), Op("memory_grow", 0), put(1), put(1)>>,
    <<get(0), const(1), Op("i32_add", 0), put(0)>>,
    <<Op("br", 0)>>, <<get(0), Op("br", 1)>>, <<get(0), Op("br", 2)>>,
    <<get(0), get(0), Op("br_if", 0), Op("drop", 0)>>,
    <<get(0), get(0), Op("br_if", 1), put(1)>>,
    <<get(0), get(0), Op("br_table", <<1, <<1, 0>>>>)>>,
    <<get(0), get(0), Op("br_table", <<2, <<0>>>>)>>,
    <<get(1), Op("return", 0)>>,
    <<get(0), Op("throw", 0)>>, <<Op("throw", 1)>>,
    <<get(0), Op("call", 0), put(1)>>,
    <<get(0), Op("if", Void), Op("unreachable", 0), End>>,
    <<const(2), get(0), Op("i32_div_s", 0), put(1)>>,
    <<get(0), get(1), Op("i32_rem_u", 0), put(1)>>,
    <<const(0), get(0), Op("call_indirect", <<1, 0>>), put(1)>>,
    <<get(0), Op("global_set", 0), Op("global_get", 0), Op("global_get", 1),
      get(0), Op("select", "any"), put(1)>>,
    <<get(0), Op("call", 0), Op("i32_load", <<0, 1>>), put(1)>>,
    <<get(0), get(0), Op("table_get", 0), Op("table_set", 0)>>,
    <<Op("rethrow", 0)>>, <<Op("rethrow", 1)>>,
    <<Op("global_get", 1), Op("global_set", 1)>>,
    <<Op("drop", 0)>>, <<Op("end", 0)>>, <<get(0)>>
    >>

\* Rethrowing from inside another structure of the handler is left out of the
\* passing run: past a block, loop or if the emitter counts other structures
\* than the validator (codegen_rethrow), and an enclosing try of the same
\* handler destroys the exception that the handler itself destroys again.
RethrowLeavesHandler(id) == id[1] = 4 /\ id[3] = 22 => id[2] = 4

Body(id) ==
    Structures[id[1]][1] \o Structures[id[2]][1] \o Leaves[id[3]]
        \o Structures[id[2]][2] \o Structures[id[1]][2] \o <<get(1), End>>

Program(id) ==
    [params |-> <<"i32">>, results |-> <<"i32">>, locals |-> <<"i32">>,
     code |-> Body(id)]

MCPrograms ==
    [id \in {x \in (1 .. 12) \X (1 .. 6) \X (1 .. 26) :
                RethrowLeavesHandler(x)} |-> Program(id)]

\* A handler that rethrows from a block inside it.
RethrowPrograms == [id \in {<<4, 1, 22>>} |-> Program(id)]

-----------------------------------------------------------------------------
(* Questions for Numerics: integers of 4 bits; floats with 4 exponent bits *)
(* and 1 bit (less precise than an integer) or 3 bits (as precise) of      *)
(* mantissa.                                                               *)

MCBytes == [i \in 0 .. 5 |-> (3 * i + 1) % 4]
Nibble == 0 .. 15
\* Of either sign: zero, the least, one more, a middling one, the greatest,
\* infinity and a NaN.
SomeFloats == {f + s : f \in {0, 1, 2, 15, 29, 30, 31}, s \in {0, 32}}

Ask(ops, as, bs, cs, ms) ==
    {[op |-> op, a |-> a, b |-> b, c |-> c, m |-> m] :
        op \in ops, a \in as, b \in bs, c \in cs, m \in ms}

Nu == INSTANCE Numerics WITH W <- 4, EB <- 4, Bytes <- MCBytes, Questions <- {}

MCQuestions ==
    Ask(Nu!IntBinary \cup Nu!Compare \cup Nu!LaneCompare
            \cup {"add_saturate_u", "sub_saturate_u"}, Nibble, Nibble, {0}, {1})
    \cup Ask(Nu!IntUnary \cup {"swizzle"}, Nibble, {0}, {0}, {1})
    \cup Ask(Nu!FPCompare \cup {"min", "max"}, 0 .. 63, SomeFloats, {0}, {1})
    \cup Ask({"trunc_s", "trunc_u", "trunc_sat_s", "trunc_sat_u",
              "lane_trunc_sat_s", "lane_trunc_sat_u"}, 0 .. 63, {0}, {0}, {1})
    \cup Ask({"trunc_s", "trunc_u", "trunc_sat_s", "trunc_sat_u"},
             0 .. 255, {0}, {0}, {3})
    \cup Ask({"any_true", "all_true", "splat"} \cup Nu!Extends, 0 .. 255, {0}, {0}, {1})
    \cup Ask({"shuffle"}, 0 .. 7, {0}, {0}, {1})
    \cup Ask({"extract_lane_s", "extract_lane_u"}, 0 .. 3, {0}, {0}, {1})
    \cup Ask({"replace_lane"}, 0 .. 1, 0 .. 255, {0}, {1})
    \cup Ask({"bitselect"}, Nibble, {0, 5, 9, 15}, {0, 3, 12, 15}, {1})
    \cup Ask(Nu!Loads, 0 .. 7, 0 .. 3, {0}, {1})
    \cup Ask(Nu!Stores, 0 .. 7, 0 .. 3, Nibble, {1})
    \cup Ask(Nu!Atomics, 0 .. 7, Nibble, {0, 1, 4, 13}, {1})

-----------------------------------------------------------------------------
NoProgram ==
    /\ program = <<>> /\ phase = "none" /\ pos = 0 /\ context = <<>>
    /\ ran = <<>> /\ emitter = [sound |-> TRUE]
NoQuestion ==
    question = <<>> /\ answer = [emitted |-> {}, defined |-> {}]

Q == INSTANCE Numerics
        WITH W <- 4, EB <- 4, Bytes <- MCBytes, Questions <- MCQuestions

codegenVars == <<compileVars, question, answer>>

CodegenInit == (CompileInit /\ NoQuestion) \/ (NoProgram /\ Q!NumericInit)

Stop ==
    \/ phase # "none" /\ CompileDone
    \/ phase = "none" /\ answer.emitted # {}

CodegenNext ==
    \/ CompileNext /\ UNCHANGED <<question, answer>>
    \/ phase = "none" /\ Q!Compute /\ UNCHANGED compileVars
    \/ Stop /\ UNCHANGED codegenVars

CodegenSpec == CodegenInit /\ [][CodegenNext]_codegenVars

OperatorsAreExact == Q!OperatorsAreExact
=============================================================================
