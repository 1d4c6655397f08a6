-------------------------- MODULE ModuleValidation --------------------------
(***************************************************************************)
(* The decoded module of Include/WAVM/IR/Module.h and the validation of    *)
(* its declarations in Lib/IR/Validate.cpp.  Where the code throws a       *)
(* ValidationException an operator here is FALSE.                          *)
(*                                                                         *)
(* A module m is a record of the code's fields.  An index space is         *)
(* [imports, defs]; the type of a function is the index of its type; an    *)
(* initializer is <<opcode name, literal or index>>; an operator of a      *)
(* function body carries its branch table in its immediate.                *)
(***************************************************************************)
EXTENDS Serialization

CONSTANTS
    OpSigs,             \* the signatures of the non-parametric operators
    MaxMemoryPages,     \* maxMemoryPages
    MaxTableElems,      \* maxTableElems
    MaxLocals,          \* featureSpec.maxLocals
    MaxDataSegments,    \* featureSpec.maxDataSegments
    MaxLabels           \* featureSpec.maxLabelsPerFunction

\* The index spaces, in the order of ExternKind.
IndexSpaces == <<"functions", "tables", "memories", "globals", "exceptionTypes">>

size(space) == Len(space.imports) + Len(space.defs)

getTypes(space) ==
    [i \in DOMAIN space.imports |-> space.imports[i].type]
    \o [i \in DOMAIN space.defs |-> space.defs[i].type]

getType(space, index) == getTypes(space)[index + 1]

NoIndex == -1       \* UINTPTR_MAX

Module(features) ==
    [kind \in ToSet(IndexSpaces) |-> [imports |-> <<>>, defs |-> <<>>]]
    @@ [features |-> features, types |-> <<>>, imports |-> <<>>,
        exports |-> <<>>, dataSegments |-> <<>>, elemSegments |-> <<>>,
        userSections |-> <<>>, startFunctionIndex |-> NoIndex]

\* What the function validator sees of a module.
IRView(m) ==
    With([globals \in {getTypes(m.globals)} |->
    LET tables == getTypes(m.tables)
        memories == getTypes(m.memories)
    IN
        [types |-> m.types, functions |-> getTypes(m.functions),
         exceptionTypes |-> getTypes(m.exceptionTypes),
         globals |-> [i \in DOMAIN globals |->
            [type |-> globals[i].valueType, mutable |-> globals[i].isMutable]],
         tables |-> [i \in DOMAIN tables |-> tables[i].elementType],
         memories |-> [i \in DOMAIN memories |-> memories[i].isShared],
         numDataSegments |-> Len(m.dataSegments),
         numElemSegments |-> Len(m.elemSegments),
         features |-> m.features]])

V(m) == INSTANCE FunctionValidation WITH IRModule <- IRView(m), WordSize <- 0

ForAll(seq, P(_)) == \A i \in DOMAIN seq : P(seq[i])

-----------------------------------------------------------------------------
(* Types.                                                                  *)

validTypes(m, types) == ForAll(types, LAMBDA t : V(m)!validType(t))

validSize(sz, maxMax) ==
    LET max == IF sz.max = UINT64_MAX THEN maxMax ELSE sz.max
    IN  sz.min <= max /\ max <= maxMax

validReferenceType(m, type) ==
    \/ type = "funcref" /\ "mvp" \in m.features
    \/ type = "anyref" /\ "referenceTypes" \in m.features

validShared(m, type, feature) ==
    type.isShared => feature \in m.features /\ type.size.max # UINT64_MAX

validTableType(m, type) ==
    /\ validReferenceType(m, type.elementType)
    /\ validSize(type.size, MaxTableElems)
    /\ validShared(m, type, "sharedTables")

validMemoryType(m, type) ==
    /\ validSize(type.size, MaxMemoryPages)
    /\ validShared(m, type, "atomics")

validGlobalIndex(m, index, mustBeImmutable, mustBeImport) ==
    /\ index < size(m.globals)
    /\ mustBeImport => index < Len(m.globals.imports)
    /\ mustBeImmutable => ~getType(m.globals, index).isMutable

validInitializer(m, init, expectedType) ==
    CASE init[1] = "global_get" ->
            /\ validGlobalIndex(m, init[2], TRUE, TRUE)
            /\ V(m)!isSubtype(getType(m.globals, init[2]).valueType, expectedType)
      [] init[1] = "ref_func" ->
            /\ init[2] < size(m.functions)
            /\ V(m)!isSubtype("funcref", expectedType)
      [] init[1] = "ref_null" -> V(m)!isSubtype("nullref", expectedType)
      [] init[1] = "i32_const" -> V(m)!isSubtype("i32", expectedType)
      [] init[1] = "i64_const" -> V(m)!isSubtype("i64", expectedType)

-----------------------------------------------------------------------------
(* Declarations.                                                           *)

validateTypes(m) ==
    ForAll(m.types, LAMBDA t :
        /\ validTypes(m, t.params) /\ validTypes(m, t.results)
        /\ \/ Len(t.results) <= 1
           \/ "multipleResultsAndBlockParams" \in m.features)

notTooManyTables(m) == "referenceTypes" \in m.features \/ size(m.tables) <= 1

notTooManyMemories(m) == size(m.memories) <= 1

validateImports(m) ==
    /\ ForAll(m.functions.imports, LAMBDA i : V(m)!validFunctionType(i.type))
    /\ ForAll(m.tables.imports, LAMBDA i : validTableType(m, i.type))
    /\ ForAll(m.memories.imports, LAMBDA i : validMemoryType(m, i.type))
    /\ ForAll(m.globals.imports, LAMBDA i :
            /\ V(m)!validType(i.type.valueType)
            /\ "importExportMutableGlobals" \in m.features \/ ~i.type.isMutable)
    /\ ForAll(m.exceptionTypes.imports, LAMBDA i : validTypes(m, i.type))
    /\ notTooManyTables(m) /\ notTooManyMemories(m)

validateFunctionDeclarations(m) ==
    ForAll(m.functions.defs, LAMBDA d : V(m)!validFunctionType(d.type))

validateGlobalDefs(m) ==
    ForAll(m.globals.defs, LAMBDA d :
        /\ V(m)!validType(d.type.valueType)
        /\ validInitializer(m, d.initializer, d.type.valueType))

validateExceptionTypeDefs(m) ==
    ForAll(m.exceptionTypes.defs, LAMBDA d : validTypes(m, d.type))

validateTableDefs(m) ==
    /\ ForAll(m.tables.defs, LAMBDA d : validTableType(m, d.type))
    /\ notTooManyTables(m)

validateMemoryDefs(m) ==
    /\ ForAll(m.memories.defs, LAMBDA d : validMemoryType(m, d.type))
    /\ notTooManyMemories(m)

validateExports(m) ==
    /\ ForAll(m.exports, LAMBDA x :
        /\ x.kind \in 0 .. 4
        /\ IF x.kind = 3
           THEN validGlobalIndex(m, x.index,
                    "importExportMutableGlobals" \notin m.features, FALSE)
           ELSE x.index < size(m[IndexSpaces[x.kind + 1]]))
    /\ \A i, j \in DOMAIN m.exports :
            i # j => m.exports[i].name # m.exports[j].name

validateStartFunction(m) ==
    LET start == m.startFunctionIndex
    IN  \/ start = NoIndex
        \/ /\ start < size(m.functions)
           /\ m.types[getType(m.functions, start) + 1]
                = [params |-> <<>>, results |-> <<>>]

validateElemSegments(m) ==
    ForAll(m.elemSegments, LAMBDA x :
        /\ x.isActive =>
            /\ x.tableIndex < size(m.tables)
            /\ V(m)!isSubtype("funcref", getType(m.tables, x.tableIndex).elementType)
            /\ validInitializer(m, x.baseOffset, "i32")
        /\ ForAll(x.elems, LAMBDA elem :
                IF elem[1] = "ref_null" THEN ~x.isActive
                ELSE elem[2] < size(m.functions)))

validateDataSegments(m) ==
    ForAll(m.dataSegments, LAMBDA x : x.isActive =>
        /\ x.memoryIndex < size(m.memories)
        /\ validInitializer(m, x.baseOffset, "i32"))

\* The whole of CodeValidationStream over a function body.
validCode(m, def) ==
    LET type == m.types[def.type + 1]
        RECURSIVE from(_, _)
        from(c, i) == IF ~c.ok \/ i > Len(def.code) THEN c
                      ELSE from(V(m)!visit(c, def.code[i]), i + 1)
    IN
    With([done \in {from(V(m)!newContext(type.params, type.results, def.locals), 1)} |->
        done.ok /\ V(m)!finished(done)])

validatePreCodeSections(m) ==
    /\ validateTypes(m)
    /\ validateImports(m)
    /\ validateFunctionDeclarations(m)
    /\ validateTableDefs(m)
    /\ validateMemoryDefs(m)
    /\ validateGlobalDefs(m)
    /\ validateExceptionTypeDefs(m)
    /\ validateExports(m)
    /\ validateStartFunction(m)
    /\ validateElemSegments(m)

validatePostCodeSections(m) == validateDataSegments(m)
=============================================================================
