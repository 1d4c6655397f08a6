-------------------------- MODULE WASTParseModule ---------------------------
(***************************************************************************)
(* The text parser's modules (Lib/WASTParse/ParseModule.cpp).  What may    *)
(* refer to a later declaration is left to a callback, a record here, that *)
(* runs after all types or after all declarations have been parsed.        *)
(***************************************************************************)
EXTENDS WASTParseFunction

CONSTANT BytesPerPage       \* numBytesPerPage

-----------------------------------------------------------------------------
(* Types and initializers.                                                 *)

\* Yields <<>> or the size constraints.
tryParseSizeConstraints(p, maxMax) ==
    Then([min \in {tryParseU64(p)} |->
        IF min.v = <<>> THEN min
        ELSE Then([max \in {tryParseU64(min)} |->
             With([n \in {IF max.v = <<>> THEN UINT64_MAX
                          ELSE IF max.v[1] > maxMax THEN maxMax
                          ELSE IF max.v[1] < min.v[1] THEN min.v[1] ELSE max.v[1]} |->
                Returns(ErrorIf(max, max.v # <<>> /\ max.v[1] # n),
                        <<[min |-> min.v[1], max |-> n]>>)])])])

parseSizeConstraints(p, maxMax) ==
    Then([q \in {tryParseSizeConstraints(p, maxMax)} |->
        Returns(ErrorIf(q, q.v = <<>>),
                IF q.v = <<>> THEN [min |-> 0, max |-> UINT64_MAX] ELSE q.v[1])])

parseOptionalSharedDeclaration(p) ==
    Do(p, IF Type(p) = "shared" THEN Returns(Advance(p), TRUE) ELSE Returns(p, FALSE))

parseGlobalType(p) ==
    LET isMutable == AtTag(p, "mut")
    IN
    Then([q \in {IF isMutable THEN parseTagged(Returns(p, <<>>), parseValueType)
                 ELSE parseValueType(Returns(p, <<>>))} |->
        Returns(q, [valueType |-> IF q.v = <<>> THEN "none" ELSE q.v[1],
                    isMutable |-> isMutable])])

parseTableType(p) ==
    Then([constraints \in {parseSizeConstraints(p, MaxTableElems)} |->
    Then([shared \in {parseOptionalSharedDeclaration(constraints)} |->
    Then([type \in {parseReferenceType(shared)} |->
        Returns(type, [elementType |-> type.v, isShared |-> shared.v,
                       size |-> constraints.v])])])])

parseMemoryType(p) ==
    Then([constraints \in {parseSizeConstraints(p, MaxMemoryPages)} |->
    Then([shared \in {parseOptionalSharedDeclaration(constraints)} |->
        Returns(shared, [isShared |-> shared.v, size |-> constraints.v])])])

parseInitializerInstruction(p) ==
    LET op == Type(p)
        next == Advance(p)
    IN
    Then([value \in {CASE op = "i32_const" -> parseSigned(next, Width32)
                       [] op = "i64_const" -> parseSigned(next, Width64)
                       [] op \in {"global_get", "ref_func"} -> parseNameOrIndexRef(next)
                       [] op = "ref_null" -> Returns(next, 0)
                       [] OTHER -> Recover(p)} |->
        Returns(value, <<op, value.v>>)])

noInitializer == <<"none", 0>>

parseInitializerExpression(p) ==
    Do(p, parseOptionallyParenthesized(p, Type(p) = "(", parseInitializerInstruction))

resolveInitializerExpression(p, init) ==
    Then([q \in {CASE init[1] = "global_get" ->
                        resolveRef(p, p.maps.globals, size(p.m.globals), init[2])
                   [] init[1] = "ref_func" ->
                        resolveRef(p, p.maps.functions, size(p.m.functions), init[2])
                   [] OTHER -> Returns(p, init[2])} |->
        Returns(q, <<init[1], q.v>>)])

-----------------------------------------------------------------------------
(* Imports and exports.                                                    *)

\* Exception types are not looked at.
errorIfFollowsDefinitions(p) ==
    ErrorIf(p, \E kind \in {"functions", "tables", "memories", "globals"} :
                    p.m[kind].defs # <<>>)

Bind(p, kind, name, index) ==
    Then([q \in {bindName(p, p.maps[kind], name, index)} |->
        [q EXCEPT !.maps[kind] = q.v]])

DisassemblyName(kind, name, localNames) ==
    IF kind = "functions" THEN [name |-> name, labels |-> <<>>, locals |-> localNames] ELSE name

createImport(p, kind, name, moduleName, exportName, type, localNames) ==
    Then([q \in {Bind(p, kind, name, size(p.m[kind]))} |->
    LET k == CHOOSE i \in DOMAIN IndexSpaces : IndexSpaces[i] = kind
    IN
        [q EXCEPT
            !.names[kind] = Append(@, DisassemblyName(kind, name, localNames)),
            !.m[kind].imports = Append(@, [type |-> type, moduleName |-> moduleName,
                                           exportName |-> exportName]),
            !.m.imports = Append(@, [kind |-> k - 1, index |-> Len(p.m[kind].imports)])]])

\* The type of an object that is imported or, but for functions, defined.
parseObjectType(p, kind) ==
    CASE kind = "tables" -> parseTableType(p)
      [] kind = "memories" -> parseMemoryType(p)
      [] kind = "globals" -> parseGlobalType(p)
      [] kind = "exceptionTypes" -> parseValueTypes(p)

\* The type of an imported function is resolved after all types.
parseImportedType(p, kind) ==
    IF kind # "functions" THEN parseObjectType(p, kind)
    ELSE Then([type \in {parseFunctionTypeRefAndOrDecl(p)} |->
            LET callback == [kind |-> "import", index |-> Len(p.m.functions.imports),
                             type |-> type.v]
            IN  [type EXCEPT !.postType = Append(@, callback), !.v = NoIndex]])

KindTags == {"func", "table", "memory", "global", "exception_type"}

KindOf(tag) == IndexSpaces[CHOOSE i \in DOMAIN Tags : Tags[i] = tag]

parseImport(p) ==
    Then([moduleName \in {parseUTF8String(require(errorIfFollowsDefinitions(p), "import"))} |->
    Then([exportName \in {parseUTF8String(moduleName)} |->
    LET inner(q) ==
            Then([name \in {optionalName(Advance(RecoverUnless(q, Type(q) \in KindTags)))} |->
            LET kind == KindOf(Type(q))
            IN
            Then([type \in {parseImportedType(name, kind)} |->
                createImport(type, kind, name.v, moduleName.v, exportName.v,
                             type.v, type.localNames)])])
    IN
        parseParenthesized(exportName, inner)])])

parseExport(p) ==
    Then([exportName \in {parseUTF8String(require(p, "export"))} |->
    LET inner(q) ==
            Then([ref \in {parseNameOrIndexRef(Advance(RecoverUnless(q, Type(q) \in KindTags)))} |->
            LET kind == CHOOSE i \in DOMAIN Tags : Tags[i] = Type(q)
            IN
                [ref EXCEPT
                    !.m.exports = Append(@, [name |-> exportName.v, kind |-> kind - 1,
                                             index |-> 0]),
                    !.postDeclaration = Append(@, [kind |-> "export", ref |-> ref.v,
                                            index |-> Len(q.m.exports) + 1])]])
    IN
        parseParenthesized(exportName, inner)])

parseType(p) ==
    Then([name \in {optionalName(require(p, "type"))} |->
    LET inner(q) ==
            Then([type \in {parseFunctionType([require(q, "func") EXCEPT
                                                !.locals = <<>>, !.localNames = <<>>])} |->
            LET n == Len(type.m.types)
            IN
            Then([bound \in {Bind([type EXCEPT !.m.types = Append(@, type.v),
                                               !.typeIndex = (type.v :> n) @@ @],
                                  "types", name.v, n)} |->
                [bound EXCEPT !.names.types = Append(@, name.v)]])])
    IN
        parseParenthesized(name, inner)])

-----------------------------------------------------------------------------
(* Segments.                                                               *)

PassiveNext == {"anyref", "funcref", "string", ")"}

\* The name, the reference to a memory or table, whether the segment is
\* active, and its base.  One name alone is the segment's if it is passive.
parseSegmentDeclaration(p) ==
    LET named == Type(p) \in {"name", "quotedName"}
    IN
    With([passive \in {\/ Type(p) \in PassiveNext
                       \/ named /\ TypeAfter(p) \in PassiveNext} |->
    LET nameFirst == named /\ TypeAfter(p) \in PassiveNext \cup {"name", "quotedName", "int"}
    IN
    Then([name \in {IF nameFirst THEN Needed(tryParseName(p)) ELSE Returns(p, <<>>)} |->
    Then([ref \in {IF ~passive /\ Type(name) \in {"name", "quotedName", "int"}
                   THEN tryParseNameOrIndexRef(name) ELSE Returns(name, <<>>)} |->
    Then([needed \in {RecoverUnless(ref, ~passive /\ Type(name) \in {"int"} => ref.v # <<>>)} |->
    Then([base \in {CASE passive -> Returns(needed, noInitializer)
                      [] ~passive /\ AtTag(needed, "offset") ->
                            parseTagged(needed, parseInitializerExpression)
                      [] OTHER -> parseInitializerExpression(needed)} |->
        Returns(base, [name |-> name.v, ref |-> needed.v, isActive |-> ~passive,
                       base |-> base.v])])])])])])

\* Data or elem segments: bind the name and add the disassembly name.
addSegment(p, kind, name, segment) ==
    Then([q \in {Bind(p, kind, name, Len(p.m[kind]))} |->
        [q EXCEPT !.m[kind] = Append(@, segment), !.names[kind] = Append(@, name)]])

parseStrings(p) == While(Returns(p, <<>>), LAMBDA q : Type(q) = "string", parseString)

parseData(p) ==
    Then([decl \in {parseSegmentDeclaration(require(p, "data"))} |->
    Then([data \in {parseStrings(decl)} |->
    Then([added \in {addSegment(data, "dataSegments", decl.v.name,
                        [isActive |-> decl.v.isActive, memoryIndex |-> NoIndex,
                         baseOffset |-> noInitializer, data |-> data.v])} |->
    LET callback == [kind |-> "data", index |-> Len(p.m.dataSegments) + 1, decl |-> decl.v]
    IN
        IF decl.v.isActive THEN [added EXCEPT !.postDeclaration = Append(@, callback)]
        ELSE added])])])

\* A function's name or, in a passive segment, a parenthesized reference.
parseElem1(p, isActive) ==
    LET ref(q) == Then([r \in {parseNameOrIndexRef(q)} |->
                      Returns(r, Append(p.v, <<"ref_func", r.v>>))])
        inner(q) ==
            CASE Type(q) = "ref_null" -> Returns(Advance(q), Append(p.v, <<"ref_null">>))
              [] Type(q) = "ref_func" -> ref(Advance(q))
              [] OTHER -> Recover(q)
    IN  IF ~isActive /\ Type(p) = "(" THEN parseParenthesized(p, inner) ELSE ref(p)

\* decl is that of parseSegmentDeclaration; yields the number of elements.
parseElemSegmentBody(p, decl) ==
    Then([refs \in {While(Returns(p, <<>>), LAMBDA q : Type(q) # ")",
                          LAMBDA q : parseElem1(q, decl.isActive))} |->
    Then([added \in {addSegment(refs, "elemSegments", decl.name,
                        [isActive |-> decl.isActive, tableIndex |-> NoIndex,
                         baseOffset |-> noInitializer, elemType |-> "funcref", elems |-> <<>>])} |->
    LET callback == [kind |-> "elem", index |-> Len(p.m.elemSegments) + 1, decl |-> decl,
                     refs |-> refs.v]
    IN
        [added EXCEPT !.postDeclaration = Append(@, callback), !.v = Len(refs.v)]])])

parseElem(p) ==
    Then([decl \in {parseSegmentDeclaration(require(p, "elem"))} |->
        parseElemSegmentBody(IF decl.v.isActive THEN decl ELSE parseReferenceType(decl),
                             decl.v)])

-----------------------------------------------------------------------------
(* Definitions.                                                            *)

\* A table without a size has the size of the elements that follow.
parseTableDef(p) ==
    Then([constraints \in {tryParseSizeConstraints(p, MaxTableElems)} |->
    Then([shared \in {parseOptionalSharedDeclaration(constraints)} |->
    Then([type \in {parseReferenceType(shared)} |->
    LET decl == [name |-> <<>>, ref |-> <<<<"index", size(p.m.tables)>>>>, isActive |-> TRUE,
                 base |-> <<"i32_const", 0>>]
    IN
    Then([sized \in {IF constraints.v # <<>> THEN Returns(type, constraints.v[1])
                     ELSE Then([elems \in {parseParenthesized(Returns(type, 0), LAMBDA q :
                                    parseElemSegmentBody(require(q, "elem"), decl))} |->
                              Returns(elems, [min |-> elems.v, max |-> elems.v])])} |->
        Returns(sized, [type |-> [elementType |-> type.v, isShared |-> shared.v,
                                  size |-> sized.v]])])])])])

parseMemoryData(p) ==
    Then([data \in {parseParenthesized(Returns(p, <<>>), LAMBDA q :
                        parseStrings(require(q, "data")))} |->
    Then([added \in {addSegment(data, "dataSegments", <<>>,
                        [isActive |-> TRUE, memoryIndex |-> size(p.m.memories),
                         baseOffset |-> <<"i32_const", 0>>, data |-> data.v])} |->
    LET pages == (Len(data.v) + BytesPerPage - 1) \div BytesPerPage
    IN
        Returns(added, [min |-> pages, max |-> pages])])])

\* A memory without a size has the size of the data that follows.
parseMemoryDef(p) ==
    Then([constraints \in {tryParseSizeConstraints(p, MaxMemoryPages)} |->
    Then([sized \in {IF constraints.v # <<>> THEN Returns(constraints, constraints.v[1])
                     ELSE parseMemoryData(constraints)} |->
    Then([shared \in {parseOptionalSharedDeclaration(sized)} |->
        Returns(shared, [type |-> [isShared |-> shared.v, size |-> sized.v]])])])])

parseGlobalDef(p) ==
    Then([type \in {parseGlobalType(p)} |->
    Then([init \in {parseInitializerExpression(type)} |->
    LET callback == [kind |-> "global", index |-> Len(p.m.globals.defs) + 1, init |-> init.v]
    IN
        [init EXCEPT !.postDeclaration = Append(@, callback),
                     !.v = [type |-> type.v, initializer |-> noInitializer]]])])

parseDef(p, kind) ==
    CASE kind = "functions" -> parseFunctionDef(p)
      [] kind = "tables" -> parseTableDef(p)
      [] kind = "memories" -> parseMemoryDef(p)
      [] kind = "globals" -> parseGlobalDef(p)
      [] kind = "exceptionTypes" -> Then([type \in {parseValueTypes(p)} |->
                                        Returns(type, [type |-> type.v])])

\* After an error the module is only inspected for its sizes.
parseImportedObject(p, kind, name) ==
    LET import(q) ==
            Then([moduleName \in {parseUTF8String(errorIfFollowsDefinitions(q))} |->
            Then([exportName \in {parseUTF8String(moduleName)} |->
                Returns(exportName, <<moduleName.v, exportName.v>>)])])
    IN
    Then([imported \in {parseTagged(Returns(p, <<<<>>, <<>>>>), import)} |->
    LET names == IF imported.errors THEN <<<<>>, <<>>>> ELSE imported.v
    IN
    Then([type \in {parseImportedType(imported, kind)} |->
        createImport(type, kind, name, names[1], names[2], type.v, <<>>)])])

\* parseFunc, parseTable, parseMemory, parseGlobal and parseExceptionType
parseObjectDefOrImport(p, kind) ==
    LET k == CHOOSE i \in DOMAIN IndexSpaces : IndexSpaces[i] = kind
    IN
    Then([name \in {optionalName(require(p, Tags[k]))} |->
    LET export(q) ==
            Then([string \in {parseUTF8String(q)} |->
                [string EXCEPT !.m.exports = Append(@,
                    [name |-> string.v, kind |-> k - 1, index |-> size(q.m[kind])])]])
    IN
    Then([exported \in {While(name, LAMBDA q : AtTag(q, "export"),
                              LAMBDA q : parseTagged(q, export))} |->
        IF AtTag(exported, "import") THEN parseImportedObject(exported, kind, name.v)
        ELSE Then([def \in {parseDef(exported, kind)} |->
             Then([bound \in {Bind(def, kind, name.v, size(def.m[kind]))} |->
                [bound EXCEPT
                    !.m[kind].defs = Append(@, def.v),
                    !.names[kind] = Append(@, DisassemblyName(kind, name.v, <<>>))]])])])])

parseStart(p) ==
    Then([ref \in {tryParseNameOrIndexRef(require(p, "start"))} |->
    Then([q \in {ErrorIf(ref, ref.v = <<>>)} |->
        [q EXCEPT !.postDeclaration = Append(@, [kind |-> "start", ref |-> ref.v])]])])

parseDeclaration(p) ==
    LET inner(q) ==
            CASE Type(q) = "import" -> parseImport(q)
              [] Type(q) = "export" -> parseExport(q)
              [] Type(q) \in KindTags -> parseObjectDefOrImport(q, KindOf(Type(q)))
              [] Type(q) = "type" -> parseType(q)
              [] Type(q) = "data" -> parseData(q)
              [] Type(q) = "elem" -> parseElem(q)
              [] Type(q) = "start" -> parseStart(q)
              [] OTHER -> Recover(q)
    IN  parseParenthesized(p, inner)

-----------------------------------------------------------------------------
(* The callbacks.                                                          *)

runPostType(p, callback) ==
    IF callback.kind = "def" THEN resolveDefType(p, callback)
    ELSE Then([q \in {resolveFunctionType(p, callback.type)} |->
            [q EXCEPT !.m.functions.imports[callback.index + 1].type = q.v]])

\* The memory or table, the first by default, and the base of a segment.
resolveSegment(p, callback, kind, indexField, space) ==
    LET decl == callback.decl
        n == size(p.m[space])
    IN
        IF n = 0 THEN parseErrorf(p)
        ELSE Then([index \in {IF decl.ref = <<>> THEN Returns(p, 0)
                              ELSE resolveRef(p, p.maps[space], n, decl.ref[1])} |->
             Then([base \in {resolveInitializerExpression(index, decl.base)} |->
                [base EXCEPT !.m[kind][callback.index][indexField] = index.v,
                             !.m[kind][callback.index].baseOffset = base.v]])])

resolveElems(p, callback) ==
    LET active == resolveSegment(p, callback, "elemSegments", "tableIndex", "tables")
        resolve(q, elem) ==
            Then([r \in {IF elem[1] = "ref_null" THEN Returns(q, NoIndex)
                         ELSE resolveRef(q, q.maps.functions, size(q.m.functions), elem[2])} |->
                [r EXCEPT !.m.elemSegments[callback.index].elems =
                                Append(@, <<elem[1], r.v>>)]])
    IN  ForEach(IF callback.decl.isActive THEN active ELSE p, callback.refs, resolve)

\* parseExport's callback; an export is of the kind it names.
resolveExport(p, callback) ==
    LET kind == IndexSpaces[p.m.exports[callback.index].kind + 1]
    IN
    Then([q \in {resolveRef(p, p.maps[kind], size(p.m[kind]), callback.ref)} |->
        [q EXCEPT !.m.exports[callback.index].index = q.v]])

runPostDeclaration(p, callback) ==
    CASE callback.kind = "export" -> resolveExport(p, callback)
      [] callback.kind = "data" ->
            resolveSegment(p, callback, "dataSegments", "memoryIndex", "memories")
      [] callback.kind = "elem" -> resolveElems(p, callback)
      [] callback.kind = "global" ->
            Then([init \in {resolveInitializerExpression(p, callback.init)} |->
                [init EXCEPT !.m.globals.defs[callback.index].initializer = init.v]])
      [] callback.kind = "start" ->
            Then([start \in {resolveRef(p, p.maps.functions, size(p.m.functions),
                                        callback.ref[1])} |->
                [start EXCEPT !.m.startFunctionIndex = start.v]])
      [] callback.kind = "body" -> parseBody(p, callback)

-----------------------------------------------------------------------------
(* Modules.                                                                *)

newParseState(tokens, features) ==
    [tokens |-> tokens, next |-> 1, errors |-> FALSE, thrown |-> "no", v |-> <<>>,
     m |-> Module(features),
     names |-> blankNames(Module(features)),
     maps |-> [kind \in ToSet(IndexSpaces) \cup {"types", "dataSegments", "elemSegments"} |->
                    <<>>],
     typeIndex |-> <<>>, postType |-> <<>>, postDeclaration |-> <<>>,
     locals |-> <<>>, localNames |-> <<>>, fn |-> <<>>]

\* What parseModuleBody asserts before it sets the disassembly names.
NamesMatch(p) ==
    /\ \A kind \in ToSet(IndexSpaces) : Len(p.names[kind]) = size(p.m[kind])
    /\ Len(p.names.elemSegments) = Len(p.m.elemSegments)
    /\ Len(p.names.dataSegments) = Len(p.m.dataSegments)

UnlessStopped(p, step(_)) == IF Stopped(p) THEN p ELSE step(p)

parseModuleBody(p) ==
    Then([declared \in {While(p, LAMBDA q : Type(q) \notin {")", "eof"}, parseDeclaration)} |->
    Then([typed \in {UnlessStopped(declared, LAMBDA q : ForEach(q, q.postType, runPostType))} |->
    Then([resolved \in {UnlessStopped(typed, LAMBDA q :
                            ForEach(q, q.postDeclaration, runPostDeclaration))} |->
    Then([checked \in {UnlessStopped(resolved, LAMBDA q :
                            ErrorIf(q, ~(/\ validatePreCodeSections(q.m)
                                         /\ validatePostCodeSections(q.m))))} |->
        [checked EXCEPT !.m = setDisassemblyNames(@, checked.names)]])])])])

\* A RecoverParseException or FatalParseException ends here; others go on to
\* the caller.
parseModule(tokens, features) ==
    With([p \in {newParseState(tokens, features)} |->
    LET tagged == AtTag(p, "module")
        inner(q) == parseModuleBody(IF tagged THEN require(q, "module") ELSE q)
    IN
    With([q \in {require(parseOptionallyParenthesized(p, tagged, inner), "eof")} |->
        [ok |-> ~q.errors /\ q.thrown = "no", module |-> q.m,
         namesMatch |-> q.thrown = "no" => NamesMatch(q), escaped |-> q.thrown = "validation"]])])
=============================================================================
