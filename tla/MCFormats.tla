------------------------------ MODULE MCFormats -----------------------------
(***************************************************************************)
(* Small modules and texts for Formats.                                    *)
(***************************************************************************)
EXTENDS Formats

i32 == "i32"

Sig(params, results, imm, opcode) ==
    [params |-> params, results |-> results, feature |-> "mvp", imm |-> imm,
     natural |-> 2, opcode |-> opcode]

MCOpSigs ==
    "i32_add" :> Sig(<<i32, i32>>, <<i32>>, "none", 106)
    @@ "i32_const"   :> Sig(<<>>, <<i32>>, "literal", 65)
    @@ "i32_load"    :> Sig(<<i32>>, <<i32>>, "load", 40)
    @@ "memory_size" :> Sig(<<>>, <<i32>>, "memory", 63)
    @@ "ref_null"    :> Sig(<<>>, <<"nullref">>, "none", 208)
    @@ "ref_func"    :> Sig(<<>>, <<"funcref">>, "function", 210)
    @@ "memory_init" :> Sig(<<i32, i32, i32>>, <<>>, "dataAndMemory", 64520)
    @@ "elem_drop"   :> Sig(<<>>, <<>>, "elem", 64525)

MCDefaultFeatures ==
    {"mvp", "exceptionHandling", "referenceTypes", "multipleResultsAndBlockParams",
     "bulkMemoryOperations", "importExportMutableGlobals", "extendedNamesSection",
     "functionRefInstruction", quotedNames}

Op(op, imm) == [op |-> op, imm |-> imm]
FunctionOf(type, locals, code) == [type |-> type, locals |-> locals, code |-> code]
Type0 == [params |-> <<>>, results |-> <<>>]
Type1 == [params |-> <<i32>>, results |-> <<i32>>]
Size(min, max) == [min |-> min, max |-> max]
Import(type, name) == [type |-> type, moduleName |-> <<109>>, exportName |-> <<name>>]
Empty == Module(MCDefaultFeatures)

\* Imports and exports of every kind, a start function, a passive segment of
\* each kind, and a linking section.
Declarations ==
    [Empty EXCEPT
        !.types = <<Type0, Type1>>,
        !.imports = <<[kind |-> 3, index |-> 0], [kind |-> 0, index |-> 0],
                      [kind |-> 4, index |-> 0]>>,
        !.globals.imports = <<Import([valueType |-> i32, isMutable |-> FALSE], 103)>>,
        !.functions.imports = <<Import(1, 102)>>,
        !.exceptionTypes.imports = <<Import(<<i32>>, 120)>>,
        !.functions.defs = <<FunctionOf(0, <<>>, <<Op("elem_drop", 1), Op("end", 0)>>)>>,
        !.tables.defs = <<[type |-> [elementType |-> "funcref", isShared |-> FALSE,
                                     size |-> Size(2, 200)]]>>,
        !.memories.defs = <<[type |-> [isShared |-> FALSE, size |-> Size(1, UINT64_MAX)]]>>,
        !.globals.defs = <<[type |-> [valueType |-> i32, isMutable |-> TRUE],
                            initializer |-> <<"global_get", 0>>]>>,
        !.exports = <<[name |-> <<34, 200, 128>>, kind |-> 0, index |-> 1],
                      [name |-> <<>>, kind |-> 2, index |-> 0]>>,
        !.startFunctionIndex = 1,
        !.elemSegments = <<
            [isActive |-> TRUE, tableIndex |-> 0, baseOffset |-> <<"i32_const", -1>>,
             elemType |-> "funcref", elems |-> <<<<"ref_func", 1>>>>],
            [isActive |-> FALSE, tableIndex |-> NoIndex, baseOffset |-> noInitializer,
             elemType |-> "funcref", elems |-> <<<<"ref_null", 0>>, <<"ref_func", 0>>>>]>>,
        !.dataSegments = <<
            [isActive |-> TRUE, memoryIndex |-> 0, baseOffset |-> <<"global_get", 0>>,
             data |-> <<0, 34, 65>>],
            [isActive |-> FALSE, memoryIndex |-> NoIndex, baseOffset |-> noInitializer,
             data |-> <<>>]>>,
        !.userSections = <<[name |-> linkingSection, data |-> <<1, 6, 2, 1, 3>>]>>]

\* Blocks with parameters, and names that are missing, repeated or not plain.
Blocks ==
    LET m == [Empty EXCEPT
        !.types = <<Type1, Type0, [params |-> <<i32>>, results |-> <<i32, i32>>]>>,
        !.memories.defs = <<[type |-> [isShared |-> FALSE, size |-> Size(0, 3)]]>>,
        !.functions.defs = <<
            FunctionOf(0, <<i32, "funcref">>, <<
                Op("local_get", 0), Op("block", <<"index", 2>>),
                Op("loop", <<"index", 0>>), Op("local_get", 1),
                Op("br_table", <<2, <<0, 2>>>>), Op("end", 0),
                Op("local_get", 0), Op("end", 0), Op("i32_add", 0), Op("end", 0)>>),
            FunctionOf(1, <<>>, <<
                Op("i32_const", 0), Op("i32_load", <<1, 7>>), Op("i32_const", 1),
                Op("memory_size", 0), Op("select", "any"), Op("drop", 0), Op("end", 0)>>)>>]
        names == [blankNames(m) EXCEPT
                    !.types = <<<<97>>, <<97>>, <<>>>>,
                    !.memories = <<<<97, 95, 48>>>>,
                    !.functions = <<[name |-> <<40, 32>>, locals |-> <<<<120>>, <<>>, <<120>>>>,
                                     labels |-> <<<<108>>, <<108>>>>],
                                    [name |-> <<40, 32>>, locals |-> <<>>, labels |-> <<>>]>>]
    IN  setDisassemblyNames(m, names)

Exceptions ==
    [Empty EXCEPT
        !.types = <<Type0, Type1>>,
        !.tables.defs = <<[type |-> [elementType |-> "funcref", isShared |-> FALSE,
                                     size |-> Size(0, UINT64_MAX)]]>>,
        !.exceptionTypes.defs = <<[type |-> <<i32>>]>>,
        !.functions.defs = <<
            FunctionOf(0, <<>>, <<
                Op("try", <<"void">>), Op("i32_const", 9), Op("throw", 0),
                Op("catch", 0), Op("if", <<"one", i32>>), Op("i32_const", -5),
                Op("else", 0), Op("rethrow", 1), Op("end", 0), Op("drop", 0),
                Op("catch_all", 0), Op("end", 0), Op("end", 0)>>),
            FunctionOf(1, <<>>, <<
                Op("local_get", 0), Op("local_get", 0), Op("call_indirect", <<1, 0>>),
                Op("end", 0)>>)>>]

-----------------------------------------------------------------------------
(* Texts with the abbreviations that the printer does not use.             *)

K(words) == [i \in DOMAIN words |-> Tok(words[i])]
N(char) == <<<<"name", <<char>>>>>>
S(chars) == <<Text(chars)>>
C(n) == K(<<"(", "i32_const">>) \o <<Number(n)>> \o K(<<")">>)

\* A folded if with a branch out of it.
Folded ==
    K(<<"(", "func", "(", "export">>) \o S(<<102>>) \o K(<<")", "(", "param">>) \o N(120)
    \o K(<<"i32", ")", "(", "result", "i32", ")", "(", "if">>) \o N(108)
    \o K(<<"(", "result", "i32", ")", "(", "local_get">>) \o N(120)
    \o K(<<")", "(", "then", "(", "br">>) \o N(108) \o C(3)
    \o K(<<")", ")", "(", "else">>) \o C(1) \o K(<<")", ")", ")">>)

\* A label that hides another, and initializers.
Labels ==
    K(<<"(", "global">>) \o N(103) \o K(<<"i32">>) \o C(-7) \o K(<<")">>)
    \o K(<<"(", "func", "block">>) \o N(108) \o K(<<"loop">>) \o N(108) \o K(<<"global_get">>)
    \o N(103) \o K(<<"br_if">>) \o N(108) \o K(<<"end">>) \o N(108) \o K(<<"br">>)
    \o N(108) \o K(<<"end", ")">>)

\* A table and a memory that are as large as what they hold.
Implicit ==
    K(<<"(", "table">>) \o N(116)
    \o K(<<"funcref", "(", "elem">>) \o N(115) \o K(<<")", ")", "(", "memory", "(", "data">>)
    \o S(<<92, 117, 123, 98, 102, 125>>) \o S(<<92, 48, 97>>)
    \o K(<<")", ")", "(", "data">>) \o <<Number(0)>> \o K(<<"(", "offset">>) \o C(1) \o K(<<")">>)
    \o S(<<65>>) \o K(<<")", "(", "start">>) \o N(115) \o K(<<")", "(", "func">>) \o N(115)
    \o K(<<"(", "local">>) \o N(120) \o K(<<"i32", ")", "(", "call_indirect", "(", "local_tee">>)
    \o N(120) \o C(0) \o K(<<")", ")", ")">>)

\* An import written as a definition, and one too late.
Imports ==
    K(<<"(", "memory">>) \o N(97) \o K(<<"(", "export">>) \o S(<<101>>)
    \o K(<<")", "(", "import">>) \o S(<<109>>) \o S(<<97>>) \o K(<<")">>)
    \o <<Number(1), Number(2)>> \o K(<<")">>)
    \o K(<<"(", "type">>) \o N(116) \o K(<<"(", "func", ")", ")">>)
    \o K(<<"(", "import">>) \o S(<<109>>) \o S(<<102>>) \o K(<<"(", "func">>)
    \o N(102) \o K(<<"(", "type">>) \o N(116) \o K(<<")", ")", ")">>)
    \o K(<<"(", "export">>) \o S(<<102>>) \o K(<<"(", "func">>) \o N(102)
    \o K(<<")", ")", "(", "elem">>) \o N(101) \o K(<<"funcref", "(", "ref_func">>)
    \o N(102) \o K(<<")", "(", "ref_null", ")", ")">>)

TextFile(tokens) == [format |-> "wast", content |-> Append(tokens, eof)]

BinaryFile(m) == [format |-> "wasm", content |-> writeModule(m).bytes]

MCInitialFiles ==
    {BinaryFile(m) : m \in {Declarations, Blocks, Exceptions}}
    \cup {TextFile(tokens) : tokens \in {Folded, Labels, Implicit, Imports}}

-----------------------------------------------------------------------------
(* A local of a type that the features leave out.                          *)

NoReferenceTypes == MCDefaultFeatures \ {"referenceTypes"}

LocalOfReferenceType ==
    {TextFile(K(<<"(", "func", "(", "local", "anyref", ")", ")">>))}
=============================================================================
