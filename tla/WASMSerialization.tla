------------------------- MODULE WASMSerialization --------------------------
(***************************************************************************)
(* The binary format (Lib/WASM/WASMSerialization.cpp).  As in the code one *)
(* operator describes the encoding of a type in both directions: given an  *)
(* input stream it yields the value it reads, given an output stream it    *)
(* writes the value v it is given.  Literals of the floating-point and     *)
(* vector types are left out.                                              *)
(***************************************************************************)
EXTENDS ModuleValidation

\* The opcode and the immediate of the parametric operators; those of the
\* other operators are in OpSigs.
ParametricOperators ==
    [o \in {"block", "loop", "if", "else", "end", "try", "catch", "catch_all",
            "unreachable", "br", "br_if", "br_table", "return", "call",
            "call_indirect", "drop", "local_get", "local_set", "local_tee",
            "global_get", "global_set", "table_get", "table_set", "table_grow",
            "table_fill", "throw", "rethrow", "select"} |->
        CASE o = "block" -> <<2, "controlStructure">>
          [] o = "loop"  -> <<3, "controlStructure">>
          [] o = "if"    -> <<4, "controlStructure">>
          [] o = "else"  -> <<5, "none">>
          [] o = "end"   -> <<11, "none">>
          [] o = "try"   -> <<64258, "controlStructure">>
          [] o = "catch" -> <<64259, "exceptionType">>
          [] o = "catch_all"   -> <<64260, "none">>
          [] o = "unreachable" -> <<0, "none">>
          [] o = "br"          -> <<12, "branch">>
          [] o = "br_if"       -> <<13, "branch">>
          [] o = "br_table"    -> <<14, "branchTable">>
          [] o = "return"      -> <<15, "none">>
          [] o = "call"        -> <<16, "function">>
          [] o = "call_indirect" -> <<17, "callIndirect">>
          [] o = "drop"        -> <<26, "none">>
          [] o = "local_get"   -> <<32, "variable">>
          [] o = "local_set"   -> <<33, "variable">>
          [] o = "local_tee"   -> <<34, "variable">>
          [] o = "global_get"  -> <<35, "variable">>
          [] o = "global_set"  -> <<36, "variable">>
          [] o = "table_get"   -> <<37, "table">>
          [] o = "table_set"   -> <<38, "table">>
          [] o = "table_grow"  -> <<64527, "table">>
          [] o = "table_fill"  -> <<64529, "table">>
          [] o = "throw"       -> <<64256, "exceptionType">>
          [] o = "rethrow"     -> <<64257, "rethrow">>
          [] o = "select"      -> <<28, "select">>]

Operators == DOMAIN ParametricOperators \cup DOMAIN OpSigs

OpcodeOf(op) ==
    IF op \in DOMAIN ParametricOperators THEN ParametricOperators[op][1]
    ELSE OpSigs[op].opcode

ImmOf(op) ==
    IF op \in DOMAIN ParametricOperators THEN ParametricOperators[op][2]
    ELSE OpSigs[op].imm

maxSingleByteOpcode == 223

untypedSelectOpcode == 27

serializeOpcode(s, opcode) ==
    LET single == s.input \/ opcode <= maxSingleByteOpcode
    IN
    With([a \in {serializeNativeValue(s, IF single THEN opcode ELSE opcode \div 256)} |->
        IF a.v <= maxSingleByteOpcode THEN a
        ELSE With([b \in {serializeVarUInt8(a, opcode % 256)} |->
                 Yield(b, a.v * 256 + b.v)])])

-----------------------------------------------------------------------------
(* Types.                                                                  *)

\* f, then g, over the two elements of a tuple.
Pair(s, v, f(_, _), g(_, _)) ==
    LET a == f(s, v[1])
        b == g(a, v[2])
    IN  Yield(b, <<a.v, b.v>>)

ValueTypeCodes ==
    ("i32" :> -1) @@ ("i64" :> -2) @@ ("f32" :> -3) @@ ("f64" :> -4)
    @@ ("v128" :> -5) @@ ("funcref" :> -16) @@ ("anyref" :> -17)

\* The value type that s.v encodes.
decodeValueType(s) ==
    With([types \in {{t \in DOMAIN ValueTypeCodes : ValueTypeCodes[t] = s.v}} |->
        IF types = {} THEN Yield(Throw(s), "i32")
        ELSE Yield(s, CHOOSE t \in types : TRUE)])

serializeValueType(s, type) ==
    decodeValueType(serializeVarInt7(s, ValueTypeCodes[type]))

serializeTypeTuple(s, types) == serializeArray(s, types, serializeValueType)

serializeSizeConstraints(s, sz, hasMax) ==
    With([min \in {serializeVarUInt32(s, sz.min)} |->
    With([max \in {IF hasMax THEN serializeVarUInt32(min, sz.max)
                   ELSE Yield(min, UINT64_MAX)} |->
        Yield(max, [min |-> min.v, max |-> max.v])])])

serializeReferenceType(s, type) ==
    With([t \in {serializeNativeValue(s, IF type = "funcref" THEN 112 ELSE 111)} |->
        Yield(ThrowUnless(t, t.v \in {111, 112}),
              IF t.v = 112 THEN "funcref" ELSE "anyref")])

\* The flags of a table or a memory, and its size constraints.
serializeLimits(s, type) ==
    LET flags == (IF type.size.max # UINT64_MAX THEN 1 ELSE 0)
                 + (IF type.isShared THEN 2 ELSE 0)
    IN
    With([f \in {serializeVarUInt32(s, flags)} |->
    With([sz \in {serializeSizeConstraints(f, type.size, f.v % 2 = 1)} |->
        Yield(sz, [isShared |-> (f.v \div 2) % 2 = 1, size |-> sz.v])])])

serializeTableType(s, type) ==
    With([elem \in {serializeReferenceType(s, type.elementType)} |->
    With([limits \in {serializeLimits(elem, type)} |->
        Yield(limits, [elementType |-> elem.v] @@ limits.v)])])

serializeMemoryType(s, type) == serializeLimits(s, type)

serializeGlobalType(s, type) ==
    With([value \in {serializeValueType(s, type.valueType)} |->
    With([mutable \in {serializeVarUInt1(value, IF type.isMutable THEN 1 ELSE 0)} |->
        Yield(mutable, [valueType |-> value.v, isMutable |-> mutable.v = 1])])])

serializeFunctionType(s, type) ==
    With([params \in {serializeTypeTuple(serializeConstant(s, 96), type.params)} |->
    With([results \in {serializeTypeTuple(params, type.results)} |->
        Yield(results, [params |-> params.v, results |-> results.v])])])

-----------------------------------------------------------------------------
(* Exports, initializers and segments.                                     *)

serializeExport(s, export) ==
    With([name \in {serializeString(s, export.name)} |->
    With([kind \in {serializeNativeValue(throwIfNotValidUTF8(name, name.v), export.kind)} |->
    With([index \in {serializeVarUInt32(kind, export.index)} |->
        Yield(index, [name |-> name.v, kind |-> kind.v, index |-> index.v])])])])

InitializerOpcodes ==
    ("i32_const" :> 65) @@ ("i64_const" :> 66) @@ ("global_get" :> 35)
    @@ ("ref_null" :> 208) @@ ("ref_func" :> 210)

\* The name among names that the opcode s.v stands for.
DecodeOpcode(s, names) ==
    With([known \in {{n \in names : InitializerOpcodes[n] = s.v}} |->
        IF known = {} THEN Yield(Throw(s), CHOOSE n \in names : TRUE)
        ELSE Yield(s, CHOOSE n \in known : TRUE)])

endOpcode == 11

serializeInitializer(s, init) ==
    With([op \in {DecodeOpcode(serializeOpcode(s, InitializerOpcodes[init[1]]),
                               DOMAIN InitializerOpcodes)} |->
    With([operand \in {CASE op.v = "i32_const" -> serializeVarInt32(op, init[2])
                         [] op.v = "i64_const" -> serializeVarInt64(op, init[2])
                         [] op.v = "ref_null"  -> Yield(op, 0)
                         [] op.v \in {"global_get", "ref_func"} ->
                                serializeVarUInt32(op, init[2])} |->
        Yield(serializeConstant(operand, endOpcode), <<op.v, operand.v>>)])])

serializeGlobalDef(s, def) ==
    With([type \in {serializeGlobalType(s, def.type)} |->
    With([init \in {serializeInitializer(type, def.initializer)} |->
        Yield(init, [type |-> type.v, initializer |-> init.v])])])

\* What an active or passive segment of either kind begins with.
serializeSegmentHeader(s, isActive, index, baseOffset) ==
    With([f \in {serializeVarUInt32(s, CASE ~isActive -> 1
                                         [] isActive /\ index = 0 -> 0
                                         [] OTHER -> 2)} |->
        IF f.v \in {0, 2}
        THEN With([i \in {IF f.v = 2 THEN serializeVarUInt32(f, index) ELSE Yield(f, 0)} |->
             With([base \in {serializeInitializer(i, baseOffset)} |->
                Yield(base, <<TRUE, i.v, base.v>>)])])
        ELSE Yield(ThrowUnless(f, f.v = 1), <<FALSE, NoIndex, <<"none", 0>>>>)])

serializeActiveElem(s, elem) ==
    With([i \in {serializeVarUInt32(s, elem[2])} |->
        Yield(i, <<"ref_func", i.v>>)])

serializePassiveElem(s, elem) ==
    With([op \in {DecodeOpcode(serializeOpcode(s, InitializerOpcodes[elem[1]]),
                               {"ref_null", "ref_func"})} |->
    With([i \in {IF op.v = "ref_null" THEN Yield(op, 0)
                 ELSE serializeVarUInt32(op, elem[2])} |->
        Yield(serializeConstant(i, endOpcode), <<op.v, i.v>>)])])

serializeElemSegment(s, x) ==
    With([head \in {serializeSegmentHeader(s, x.isActive, x.tableIndex, x.baseOffset)} |->
    With([type \in {IF head.v[1] THEN Yield(head, "funcref")
                    ELSE serializeReferenceType(head, x.elemType)} |->
    With([elems \in {IF head.v[1] THEN serializeArray(type, x.elems, serializeActiveElem)
                     ELSE serializeArray(type, x.elems, serializePassiveElem)} |->
        Yield(elems, [isActive |-> head.v[1], tableIndex |-> head.v[2],
                      baseOffset |-> head.v[3], elemType |-> type.v,
                      elems |-> elems.v])])])])

serializeDataSegment(s, x) ==
    With([head \in {serializeSegmentHeader(s, x.isActive, x.memoryIndex, x.baseOffset)} |->
    With([data \in {serializeString(head, x.data)} |->
        Yield(data, [isActive |-> head.v[1], memoryIndex |-> head.v[2],
                     baseOffset |-> head.v[3], data |-> data.v])])])

-----------------------------------------------------------------------------
(* Operators and function bodies.                                          *)

serializeBlockType(s, type) ==
    With([code \in {serializeVarInt32(s, CASE type[1] = "void"  -> -64
                                           [] type[1] = "one"   -> ValueTypeCodes[type[2]]
                                           [] type[1] = "index" -> type[2])} |->
        CASE code.v >= 0  -> Yield(code, <<"index", code.v>>)
          [] code.v = -64 -> Yield(code, <<"void">>)
          [] OTHER        -> With([one \in {decodeValueType(code)} |->
                                 Yield(one, <<"one", one.v>>)])])

serializeSelect(s, type) ==
    With([n \in {serializeVarUInt32(s, 1)} |->
        serializeValueType(ThrowUnless(n, n.v = 1), type)])

serializeZero(s, v) == serializeConstant(s, 0)

serializeBranchTable(s, imm) ==
    With([targets \in {serializeArray(s, imm[2], serializeVarUInt32)} |->
    With([default \in {serializeVarUInt32(targets, imm[1])} |->
        Yield(default, <<default.v, targets.v>>)])])

\* A shuffle has as many indices as the vector has lanes.
serializeLanes(s, numLanes, imm) ==
    Each(s, Indices(numLanes), LAMBDA t, i : serializeVarUInt7(t, imm[i]))

\* Data segments can only be named where their number is known.
serializeSegmentImm(s, kind, imm, hadDataCountSection) ==
    LET t == ThrowUnless(s, kind \in {"data", "dataAndMemory"} /\ s.input =>
                                hadDataCountSection)
    IN  IF kind \in {"data", "elem"} THEN serializeVarUInt32(t, imm)
        ELSE Pair(t, imm, serializeVarUInt32, serializeVarUInt32)

serializeImm(s, op, imm, hadDataCountSection) ==
    With([kind \in {ImmOf(op)} |->
        CASE kind = "none" -> Yield(s, 0)
          [] kind = "controlStructure" -> serializeBlockType(s, imm)
          [] kind = "select" -> serializeSelect(s, imm)
          [] kind = "branchTable" -> serializeBranchTable(s, imm)
          [] kind = "literal" ->
                IF op = "i32_const" THEN serializeVarInt32(s, imm)
                ELSE serializeVarInt64(s, imm)
          [] kind \in {"branch", "rethrow", "variable", "function", "table",
                       "exceptionType"} -> serializeVarUInt32(s, imm)
          [] kind \in {"callIndirect", "tableCopy"} ->
                Pair(s, imm, serializeVarUInt32, serializeVarUInt32)
          [] kind \in {"data", "elem", "elemAndTable", "dataAndMemory"} ->
                serializeSegmentImm(s, kind, imm, hadDataCountSection)
          [] kind \in {"load", "atomic"} ->
                Pair(s, imm, serializeVarUInt7, serializeVarUInt32)
          [] kind = "memory" -> serializeZero(s, imm)
          [] kind = "memoryCopy" -> Pair(s, imm, serializeZero, serializeZero)
          [] kind = "lane" -> serializeVarUInt7(s, imm)
          [] kind = "shuffle" -> serializeLanes(s, OpSigs[op].natural, imm)])

writeOperator(s, o) ==
    IF o.op = "select" /\ o.imm = "any"
    THEN serializeOpcode(s, untypedSelectOpcode)
    ELSE serializeImm(serializeOpcode(s, OpcodeOf(o.op)), o.op, o.imm, TRUE)

readOperator(s, hadDataCountSection) ==
    With([code \in {serializeOpcode(s, 0)} |->
    With([ops \in {{op \in Operators : OpcodeOf(op) = code.v}} |->
        CASE ~code.ok -> code
          [] code.ok /\ code.v = untypedSelectOpcode ->
                Yield(code, [op |-> "select", imm |-> "any"])
          [] code.ok /\ code.v # untypedSelectOpcode /\ ops = {} -> Throw(code)
          [] OTHER ->
                LET op == CHOOSE x \in ops : TRUE
                IN
                With([imm \in {serializeImm(code, op, 0, hadDataCountSection)} |->
                    Yield(imm, [op |-> op, imm |-> imm.v])])])])

\* Operators until the body is used up.
RECURSIVE readCode(_, _, _)
readCode(s, code, hadDataCountSection) ==
    IF ~s.ok \/ s.bytes = <<>> THEN Yield(s, code)
    ELSE With([t \in {readOperator(s, hadDataCountSection)} |->
             readCode(t, IF t.ok THEN Append(code, t.v) ELSE code,
                      hadDataCountSection)])

\* The runs of equal types among the locals.
LocalSets(locals) ==
    FoldLeft(LAMBDA sets, type :
                IF sets # <<>> /\ Last(sets)[2] = type
                THEN [sets EXCEPT ![Len(sets)][1] = @ + 1]
                ELSE Append(sets, <<1, type>>),
             <<>>, locals)

serializeLocalSet(s, v) == Pair(s, v, serializeVarUInt32, serializeValueType)

writeFunctionBody(s, def) ==
    LET sets == serializeArray(ArrayOutputStream, LocalSets(def.locals),
                               serializeLocalSet)
    IN  Yield(serializeString(s, Each(sets, def.code, writeOperator).bytes), def)

\* The body is validated against what has been read of the module.
readFunctionBody(s, m, def, hadDataCountSection) ==
    With([body \in {serializeString(s, <<>>)} |->
    With([sets \in {serializeArray(MemoryInputStream(body.v), <<>>, serializeLocalSet)} |->
    LET unpack(acc, set) ==
            IF acc.ok /\ Len(acc.locals) + set[1] < MaxLocals
            THEN [acc EXCEPT !.locals = @ \o [i \in 1 .. set[1] |-> set[2]]]
            ELSE [acc EXCEPT !.ok = FALSE]
    IN
    With([locals \in {FoldLeft(unpack, [ok |-> TRUE, locals |-> <<>>],
                               IF sets.ok THEN sets.v ELSE <<>>)} |->
    With([code \in {readCode(sets, <<>>, hadDataCountSection)} |->
    With([read \in {[type |-> def.type, locals |-> locals.locals, code |-> code.v]} |->
        Yield(ThrowUnless(body, code.ok /\ locals.ok /\ validCode(m, read)), read)])])])])])

-----------------------------------------------------------------------------
(***************************************************************************)
(* The sections and the module made of them. A section body f(s, m) reads  *)
(* its part of the module m from an input stream, or writes it to an       *)
(* output stream, and yields the module.                                   *)
(***************************************************************************)

\* SectionType, in its order, and the identifiers of the sections.
SectionTypes == <<"type", "import", "function", "table", "memory", "global",
                  "exceptionTypes", "export", "start", "elem", "dataCount",
                  "code", "data">>
SectionIds == <<1, 2, 3, 4, 5, 6, 127, 7, 8, 9, 12, 10, 11>>
userSectionId == 0

writeSection(s, id, m, f(_, _)) ==
    LET body == f(ArrayOutputStream, m)
        t == serializeString(serializeNativeValue(s, id), body.bytes)
    IN  [t EXCEPT !.ok = @ /\ body.ok]

readSection(s, m, f(_, _)) ==
    With([t \in {serializeString(s, <<>>)} |->
    With([body \in {f(MemoryInputStream(t.v), m)} |->
        Yield(ThrowUnless(t, body.ok /\ body.bytes = <<>>), body.v)])])

-----------------------------------------------------------------------------
typeSection(s, m) ==
    With([t \in {serializeArray(s, m.types, serializeFunctionType)} |->
        Yield(t, [m EXCEPT !.types = t.v])])

serializeFunctionTypeIndex(s, m, index) ==
    With([t \in {serializeVarUInt32(s, index)} |->
        ThrowUnless(t, s.input => t.v < Len(m.types))])

serializeImport(s, m, x) ==
    With([moduleName \in {serializeString(s, x.moduleName)} |->
    With([exportName \in {serializeString(moduleName, x.exportName)} |->
    LET names == IF s.input
                 THEN throwIfNotValidUTF8(throwIfNotValidUTF8(exportName,
                        moduleName.v), exportName.v)
                 ELSE exportName
    IN
    With([kind \in {serializeNativeValue(names, x.kind)} |->
    With([type \in {CASE kind.v = 0 -> serializeFunctionTypeIndex(kind, m, x.type)
                      [] kind.v = 1 -> serializeTableType(kind, x.type)
                      [] kind.v = 2 -> serializeMemoryType(kind, x.type)
                      [] kind.v = 3 -> serializeGlobalType(kind, x.type)
                      [] kind.v = 4 -> serializeTypeTuple(kind, x.type)
                      [] OTHER -> Throw(kind)} |->
        Yield(type, [kind |-> kind.v, moduleName |-> moduleName.v,
                     exportName |-> exportName.v, type |-> type.v])])])])])

addImport(m, x) ==
    LET space == IndexSpaces[x.kind + 1]
    IN  [m EXCEPT
            ![space].imports = Append(@, [type |-> x.type,
                moduleName |-> x.moduleName, exportName |-> x.exportName]),
            !.imports = Append(@, [kind |-> x.kind,
                                   index |-> Len(m[space].imports)])]

importSection(s, m) ==
    LET imports == [i \in DOMAIN m.imports |->
                        [kind |-> m.imports[i].kind]
                        @@ m[IndexSpaces[m.imports[i].kind + 1]]
                            .imports[m.imports[i].index + 1]]
    IN
    With([t \in {serializeArray(s, imports, LAMBDA u, x : serializeImport(u, m, x))} |->
        Yield(t, IF s.input /\ t.ok THEN FoldLeft(addImport, m, t.v) ELSE m)])

functionSection(s, m) ==
    LET index(u, def) ==
            With([t \in {serializeFunctionTypeIndex(u, m, def.type)} |->
                Yield(t, IF s.input THEN [type |-> t.v, locals |-> <<>>, code |-> <<>>]
                         ELSE def)])
    IN
    With([defs \in {serializeArray(s, m.functions.defs, index)} |->
        Yield(defs, [m EXCEPT !.functions.defs = defs.v])])

\* The sections that are an array of definitions.
definitionSection(s, m, space, f(_, _)) ==
    With([t \in {serializeArray(s, m[space].defs, f)} |->
        Yield(t, [m EXCEPT ![space].defs = t.v])])

Definition(s, type) == Yield(s, [type |-> s.v])

tableSection(s, m) ==
    definitionSection(s, m, "tables",
        LAMBDA u, d : Definition(serializeTableType(u, d.type), d))

memorySection(s, m) ==
    definitionSection(s, m, "memories",
        LAMBDA u, d : Definition(serializeMemoryType(u, d.type), d))

globalSection(s, m) == definitionSection(s, m, "globals", serializeGlobalDef)

exceptionTypeSection(s, m) ==
    definitionSection(s, m, "exceptionTypes",
        LAMBDA u, d : Definition(serializeTypeTuple(u, d.type), d))

exportSection(s, m) ==
    With([t \in {serializeArray(s, m.exports, serializeExport)} |->
        Yield(t, [m EXCEPT !.exports = t.v])])

startSection(s, m) ==
    With([t \in {serializeVarUInt32(s, m.startFunctionIndex)} |->
        Yield(t, [m EXCEPT !.startFunctionIndex = t.v])])

elementSection(s, m) ==
    With([t \in {serializeArray(s, m.elemSegments, serializeElemSegment)} |->
        Yield(t, [m EXCEPT !.elemSegments = t.v])])

\* Reads or writes the count, then a body for every declared function.
codeSection(s, m, hadDataCountSection) ==
    With([n \in {serializeVarUInt32(s, Len(m.functions.defs))} |->
    LET body(t, def) == IF s.input THEN readFunctionBody(t, m, def, hadDataCountSection)
                        ELSE writeFunctionBody(t, def)
    IN
    With([defs \in {Each(ThrowUnless(n, n.v = Len(m.functions.defs)), m.functions.defs, body)} |->
        Yield(defs, [m EXCEPT !.functions.defs = defs.v])])])

emptyDataSegment == [isActive |-> FALSE, memoryIndex |-> 0,
                     baseOffset |-> <<"none", 0>>, data |-> <<>>]

resizeDataSegments(m, n) ==
    [m EXCEPT !.dataSegments = [i \in 1 .. n |-> emptyDataSegment]]

dataCountSection(s, m) ==
    With([n \in {serializeVarUInt32(s, Len(m.dataSegments))} |->
        IF s.input
        THEN Yield(ThrowUnless(n, n.v <= MaxDataSegments),
                   resizeDataSegments(m, n.v))
        ELSE Yield(n, m)])

dataSection(s, m, hadDataCountSection) ==
    With([t \in {serializeArray(s, m.dataSegments, serializeDataSegment)} |->
        Yield(ThrowUnless(t, s.input =>
                IF hadDataCountSection THEN Len(t.v) = Len(m.dataSegments)
                ELSE Len(t.v) <= MaxDataSegments),
              [m EXCEPT !.dataSegments = t.v])])

-----------------------------------------------------------------------------
Section(type, s, m, hadDataCountSection) ==
    CASE type = "type"     -> typeSection(s, m)
      [] type = "import"   -> importSection(s, m)
      [] type = "function" -> functionSection(s, m)
      [] type = "table"    -> tableSection(s, m)
      [] type = "memory"   -> memorySection(s, m)
      [] type = "global"   -> globalSection(s, m)
      [] type = "exceptionTypes" -> exceptionTypeSection(s, m)
      [] type = "export"   -> exportSection(s, m)
      [] type = "start"    -> startSection(s, m)
      [] type = "elem"     -> elementSection(s, m)
      [] type = "dataCount" -> dataCountSection(s, m)
      [] type = "code"     -> codeSection(s, m, hadDataCountSection)
      [] type = "data"     -> dataSection(s, m, hadDataCountSection)

\* The mutation: memories are not validated.
validateSectionButMemories(type, m) ==
    CASE type = "type"     -> validateTypes(m)
      [] type = "import"   -> validateImports(m)
      [] type = "function" -> validateFunctionDeclarations(m)
      [] type = "table"    -> validateTableDefs(m)
      [] type = "global"   -> validateGlobalDefs(m)
      [] type = "exceptionTypes" -> validateExceptionTypeDefs(m)
      [] type = "export"   -> validateExports(m)
      [] type = "start"    -> validateStartFunction(m)
      [] type = "elem"     -> validateElemSegments(m)
      [] type = "data"     -> validateDataSegments(m)
      [] OTHER             -> TRUE

\* The validation that follows the reading of a section.
validateSection(type, m) ==
    CASE type = "type"     -> validateTypes(m)
      [] type = "import"   -> validateImports(m)
      [] type = "function" -> validateFunctionDeclarations(m)
      [] type = "table"    -> validateTableDefs(m)
      [] type = "memory"   -> validateMemoryDefs(m)
      [] type = "global"   -> validateGlobalDefs(m)
      [] type = "exceptionTypes" -> validateExceptionTypeDefs(m)
      [] type = "export"   -> validateExports(m)
      [] type = "start"    -> validateStartFunction(m)
      [] type = "elem"     -> validateElemSegments(m)
      [] type = "data"     -> validateDataSegments(m)
      [] OTHER             -> TRUE

hasSection(type, m) ==
    CASE type = "type"     -> m.types # <<>>
      [] type = "import"   -> m.imports # <<>>
      [] type \in {"function", "code"} -> m.functions.defs # <<>>
      [] type = "table"    -> m.tables.defs # <<>>
      [] type = "memory"   -> m.memories.defs # <<>>
      [] type = "global"   -> m.globals.defs # <<>>
      [] type = "exceptionTypes" -> m.exceptionTypes.defs # <<>>
      [] type = "export"   -> m.exports # <<>>
      [] type = "start"    -> m.startFunctionIndex # NoIndex
      [] type = "elem"     -> m.elemSegments # <<>>
      [] type \in {"dataCount", "data"} -> m.dataSegments # <<>>

userSection(s, x) ==
    With([name \in {serializeString(s, x.name)} |->
    With([checked \in {IF s.input THEN throwIfNotValidUTF8(name, name.v) ELSE name} |->
    With([data \in {serializeBytes(checked, x.data, Len(checked.bytes))} |->
        Yield(data, [name |-> name.v, data |-> data.v])])])])

\* The magic number and the version, byte by byte.
Preamble == <<0, 97, 115, 109, 1, 0, 0, 0>>

serializePreamble(s) == Each(s, Preamble, serializeConstant)

writeModule(m) ==
    LET known(s, i) ==
            IF ~hasSection(SectionTypes[i], m) THEN s
            ELSE writeSection(s, SectionIds[i], m,
                    LAMBDA u, x : Section(SectionTypes[i], u, x, TRUE))
        user(s, x) == writeSection(s, userSectionId, x, userSection)
        sections == Loop(serializePreamble(ArrayOutputStream),
                         Indices(Len(SectionTypes)), known)
    IN  Loop(sections, m.userSections, user)

\* last is the number of the last known section, seen the sections so far.
RECURSIVE readSections(_, _, _, _)
readSections(s, m, last, seen) ==
    LET id == serializeNativeValue(s, 0)
        kinds == {i \in DOMAIN SectionIds : SectionIds[i] = id.v}
        i == CHOOSE k \in kinds : TRUE
        body(u, x) == Section(SectionTypes[i], u, x, "dataCount" \in seen)
    IN  CASE ~s.ok -> Yield(s, m)
          [] s.ok /\ s.bytes = <<>> ->
                Yield(ThrowUnless(s,
                        /\ m.functions.defs # <<>> => "code" \in seen
                        /\ m.dataSegments # <<>> => "data" \in seen), m)
          [] s.ok /\ s.bytes # <<>> /\ id.v = userSectionId ->
                With([user \in {readSection(id, [name |-> <<>>, data |-> <<>>],
                                            userSection)} |->
                    readSections(user, [m EXCEPT !.userSections = Append(@, user.v)],
                                 last, seen)])
          [] s.ok /\ s.bytes # <<>> /\ id.v # userSectionId /\ kinds = {} ->
                Yield(Throw(s), m)
          [] OTHER ->
                With([known \in {readSection(ThrowUnless(id, i > last), m, body)} |->
                    IF ~known.ok THEN Yield(Throw(s), m)
                    ELSE readSections(
                            ThrowUnless(known, validateSection(SectionTypes[i], known.v)),
                            known.v, i, seen \cup {SectionTypes[i]})])

loadBinaryModule(bytes, features) ==
    LET s == serializePreamble(MemoryInputStream(bytes))
    IN
    With([t \in {readSections(s, Module(features), 0, {})} |->
        [ok |-> t.ok, module |-> t.v]])
=============================================================================
