------------------------------ MODULE WASTPrint -----------------------------
(***************************************************************************)
(* The printer of the text format (Lib/WASTPrint/Print.cpp).  The text is  *)
(* a sequence of tokens <<kind, value>>: a keyword or a parenthesis is its *)
(* own kind, and a name, a quoted name, a string or an integer carries the *)
(* characters that were printed.  The printer's indentation marks *)
(* are tokens too; white space and comments are left out.                  *)
(***************************************************************************)
EXTENDS WASMSerialization

-----------------------------------------------------------------------------
(***************************************************************************)
(* The names of a module's definitions, kept in its "name" user section    *)
(* (Lib/IR/DisassemblyNames.cpp). A name is the sequence of its bytes.     *)
(***************************************************************************)

\* The fields of DisassemblyNames that are a map from index to name, with
\* the subsection of each.
NameMaps == <<<<"types", 4>>, <<"tables", 5>>, <<"memories", 6>>, <<"globals", 7>>,
              <<"elemSegments", 8>>, <<"dataSegments", 9>>, <<"exceptionTypes", 10>>>>

NameFields(type) == {i \in DOMAIN NameMaps : NameMaps[i][2] = type}

nameSection == <<110, 97, 109, 101>>    \* "name"

\* The index of the first user section of that name, or 0.
findUserSection(m, name) ==
    LET found == {i \in DOMAIN m.userSections : m.userSections[i].name = name}
    IN  IF found = {} THEN 0 ELSE CHOOSE i \in found : \A j \in found : i <= j

Blank(n) == [i \in 1 .. n |-> <<>>]

blankNames(m) ==
    LET locals(f, others) == [name |-> <<>>, labels |-> <<>>,
                     locals |-> Blank(Len(m.types[f.type + 1].params) + others)]
        imports == m.functions.imports
        defs == m.functions.defs
    IN  [moduleName |-> <<>>,
         functions |-> [i \in DOMAIN imports |-> locals(imports[i], 0)]
                       \o [i \in DOMAIN defs |-> locals(defs[i], Len(defs[i].locals))],
         types |-> Blank(Len(m.types)), tables |-> Blank(size(m.tables)),
         memories |-> Blank(size(m.memories)), globals |-> Blank(size(m.globals)),
         elemSegments |-> Blank(Len(m.elemSegments)),
         dataSegments |-> Blank(Len(m.dataSegments)),
         exceptionTypes |-> Blank(size(m.exceptionTypes))]

-----------------------------------------------------------------------------
(* Reading.  What was read before an exception is kept.                    *)

deserializeNameMap(s, outNames, maxNames) ==
    With([n \in {serializeVarUInt32(s, 0)} |->
    LET next(t, i) ==
            With([index \in {serializeVarUInt32(t, 0)} |->
            With([name \in {serializeString(index, <<>>)} |->
            With([read \in {ThrowUnless(name, index.v < maxNames)} |->
            LET resized == IF index.v < Len(t.v) THEN t.v
                           ELSE t.v \o Blank(index.v + 1 - Len(t.v))
            IN
                Yield(read, IF read.ok THEN [resized EXCEPT ![index.v + 1] = name.v]
                            ELSE t.v)])])])
    IN
        Loop(Yield(n, outNames), Indices(n.v), next)])

deserializeFunctionNames(s, functions) ==
    With([n \in {serializeVarUInt32(s, 0)} |->
    LET next(t, i) ==
            With([index \in {serializeVarUInt32(t, 0)} |->
            With([name \in {serializeString(index, <<>>)} |->
                Yield(name, IF name.ok /\ index.v < Len(functions)
                            THEN [t.v EXCEPT ![index.v + 1].name = name.v] ELSE t.v)])])
    IN
        Loop(Yield(n, functions), Indices(n.v), next)])

\* The n name maps of functions that follow; an unknown function ends them.
RECURSIVE deserializeLocalNames(_, _, _)
deserializeLocalNames(s, n, field) ==
    With([f \in {serializeVarUInt32(s, 0)} |->
    LET maxNames == IF field = "labels" THEN MaxLabels ELSE Len(s.v[f.v + 1].locals)
    IN  CASE ~s.ok \/ n = 0 -> s
          [] s.ok /\ n > 0 /\ (~f.ok \/ f.v >= Len(s.v)) -> Yield(f, s.v)
          [] OTHER ->
                With([map \in {deserializeNameMap(f, s.v[f.v + 1][field], maxNames)} |->
                    deserializeLocalNames(
                        Yield(map, [s.v EXCEPT ![f.v + 1][field] = map.v]), n - 1, field)])])

deserializeFunctionNameMaps(s, functions, field) ==
    With([n \in {serializeVarUInt32(s, 0)} |->
        deserializeLocalNames(Yield(n, functions), n.v, field)])

\* Yields the names; the stream fails where the code throws.
deserializeNameSubsection(s, m, names) ==
    With([type \in {serializeVarUInt7(s, 0)} |->
    With([body \in {serializeString(type, <<>>)} |->
    With([moduleName \in {serializeString(MemoryInputStream(body.v), <<>>)} |->
    LET in == MemoryInputStream(body.v)
        field == NameMaps[CHOOSE i \in NameFields(type.v) : TRUE][1]
        extended == "extendedNamesSection" \in m.features
        Into(t, f) == Yield(ThrowUnless(body, t.ok), [names EXCEPT ![f] = t.v])
    IN  CASE ~body.ok -> Yield(body, names)
          [] body.ok /\ type.v = 0 ->
                IF moduleName.ok THEN Into(moduleName, "moduleName")
                ELSE Yield(Throw(body), names)
          [] body.ok /\ type.v = 1 ->
                Into(deserializeFunctionNames(in, names.functions), "functions")
          [] body.ok /\ type.v = 2 ->
                Into(deserializeFunctionNameMaps(in, names.functions, "locals"),
                     "functions")
          [] body.ok /\ type.v \in 3 .. 10 /\ ~extended -> Yield(Throw(body), names)
          [] body.ok /\ type.v = 3 /\ extended ->
                Into(deserializeFunctionNameMaps(in, names.functions, "labels"),
                     "functions")
          [] body.ok /\ type.v \in 4 .. 10 /\ extended ->
                Into(deserializeNameMap(in, names[field], Len(names[field])), field)
          [] OTHER -> Yield(body, names)])])])

getDisassemblyNames(m) ==
    With([section \in {findUserSection(m, nameSection)} |->
    LET RECURSIVE from(_)
        from(s) == IF ~s.ok \/ s.bytes = <<>> THEN s.v
                   ELSE from(deserializeNameSubsection(s, m, s.v))
    IN
        IF section = 0 THEN blankNames(m)
        ELSE from(Yield(MemoryInputStream(m.userSections[section].data),
                        blankNames(m)))])

-----------------------------------------------------------------------------
(* Writing.                                                                *)

\* The mutation: indices that start from 1.
serializeNameMapFrom1(s, outNames) ==
    serializeArray(s, SelectSeq(Indices(Len(outNames)), LAMBDA i : outNames[i] # <<>>),
        LAMBDA t, i : serializeString(serializeVarUInt32(t, i), outNames[i]))

serializeNameMap(s, outNames) ==
    serializeArray(s, SelectSeq(Indices(Len(outNames)), LAMBDA i : outNames[i] # <<>>),
        LAMBDA t, i : serializeString(serializeVarUInt32(t, i - 1), outNames[i]))

serializeNameSubsection(s, type, body) ==
    serializeString(serializeNativeValue(s, type), body.bytes)

setDisassemblyNames(m, names) ==
    With([found \in {findUserSection(m, nameSection)} |->
    LET out == ArrayOutputStream
        Functions(f(_, _)) ==
            serializeArray(out, Indices(Len(names.functions)), LAMBDA t, i :
                f(serializeVarUInt32(t, i - 1), names.functions[i]))
        standard == <<
            <<0, serializeString(out, names.moduleName)>>,
            <<1, Functions(LAMBDA t, f : serializeString(t, f.name))>>,
            <<2, Functions(LAMBDA t, f : serializeNameMap(t, f.locals))>>>>
        extended == <<<<3, Functions(LAMBDA t, f : serializeNameMap(t, f.labels))>>>>
            \o [i \in DOMAIN NameMaps |->
                    <<NameMaps[i][2], serializeNameMap(out, names[NameMaps[i][1]])>>]
        s == Loop(out, standard \o IF "extendedNamesSection" \in m.features
                                   THEN extended ELSE <<>>,
                  LAMBDA t, x : serializeNameSubsection(t, x[1], x[2]))
    IN
    With([section \in {[name |-> nameSection, data |-> s.bytes]} |->
        [m EXCEPT !.userSections =
            IF found = 0 THEN Append(@, section) ELSE [@ EXCEPT ![found] = section]]])])

-----------------------------------------------------------------------------
(***************************************************************************)
(* The printer.                                                            *)
(***************************************************************************)

CONSTANT BytesPerLine       \* numBytesPerLine of a data segment

Tok(kind) == <<kind, <<>>>>
Text(chars) == <<"string", chars>>
INDENT == Tok("indent")
DEDENT == Tok("dedent")

\* ScopedTagPrinter
Tagged(tag, inner) ==
    <<Tok("("), Tok(tag), INDENT>> \o inner \o <<DEDENT, Tok(")")>>

Parenthesized(inner) == <<Tok("(")>> \o inner \o <<Tok(")")>>

\* The concatenation of what f prints for 1 .. n.
Printed(n, f(_)) == FlattenSeq([i \in 1 .. n |-> f(i)])

-----------------------------------------------------------------------------
(* Characters.                                                             *)

isNameChar(c) ==
    \/ c \in 97 .. 122 \cup 65 .. 90 \cup 48 .. 57
    \/ c \in {95, 39, 43, 45, 42, 47, 92, 94, 126, 61, 60, 62, 33, 63, 64, 35,
              36, 37, 38, 124, 58, 96, 46}

nibbleToHexChar(value) == IF value < 10 THEN 48 + value ELSE 97 + value - 10


HexChars(c) == <<nibbleToHexChar(c \div 16), nibbleToHexChar(c % 16)>>

escapeString(chars) ==
    Printed(Len(chars), LAMBDA i :
        LET c == chars[i]
        IN  CASE c = 92 -> <<92, 92>>
              [] c = 34 -> <<92, 34>>
              [] c = 10 -> <<92, 110>>
              [] c # 10 /\ (c < 32 \/ c > 126) -> <<92>> \o HexChars(c)
              [] OTHER -> <<c>>)

escapeName(chars) ==
    Printed(Len(chars), LAMBDA i :
        LET c == chars[i]
        IN  CASE c = 40 -> <<95, 108, 112, 97, 114, 101, 110, 95>>
              [] c = 41 -> <<95, 114, 112, 97, 114, 101, 110, 95>>
              [] c = 32 -> <<95>>
              [] c \notin {32, 40, 41} /\ ~isNameChar(c) -> <<95>> \o HexChars(c) \o <<95>>
              [] OTHER -> <<c>>)

hasNonNameChars(chars) == \E i \in DOMAIN chars : ~isNameChar(chars[i])

\* std::to_string of a natural number, as characters
Decimal[n \in Nat] ==
    IF n < 10 THEN <<48 + n>> ELSE Append(Decimal[n \div 10], 48 + (n % 10))

Number(n) == <<"int", IF n < 0 THEN <<45>> \o Decimal[-n] ELSE Decimal[n]>>

\* Drops the marks; not ok where the code has a fatal error, a DEDENT at
\* depth 0.
expandIndentation(tokens) ==
    LET at(kind) == {i \in DOMAIN tokens : tokens[i][1] = kind}
        indents == at("indent")
        dedents == at("dedent")
        before(marks, i) == Cardinality({j \in marks : j <= i})
    IN  [depth |-> Cardinality(indents) - Cardinality(dedents),
         ok |-> \A i \in dedents : before(dedents, i) <= before(indents, i),
         text |-> SelectSeq(tokens, LAMBDA token : token[1] \notin {"indent", "dedent"})]

-----------------------------------------------------------------------------
(* Unique names.                                                           *)

NameScope == [nameSet |-> {}, nameToUniqueIndex |-> <<>>]

\* scope.v becomes the token that stands for the name.
mapName(scope, name, quoted) ==
    LET taken == name = <<>> \/ name \in scope.nameSet
    IN
    With([base \in {IF name = <<>> THEN name ELSE Append(name, 95)} |->
    LET first == IF name \in DOMAIN scope.nameToUniqueIndex
                 THEN scope.nameToUniqueIndex[name] ELSE 0
        Free(n) == base \o Decimal[n] \notin scope.nameSet
    IN
    With([n \in {CHOOSE k \in first .. first + Cardinality(scope.nameSet) :
                    Free(k) /\ \A j \in first .. k - 1 : ~Free(j)} |->
    With([unique \in {IF taken THEN base \o Decimal[n] ELSE name} |->
        [nameSet |-> scope.nameSet \cup {unique},
         nameToUniqueIndex |-> IF taken THEN (name :> n + 1) @@ scope.nameToUniqueIndex
                               ELSE scope.nameToUniqueIndex,
         v |-> CASE ~quoted -> <<"name", escapeName(unique)>>
                 [] quoted /\ hasNonNameChars(unique) ->
                        <<"quotedName", escapeString(unique)>>
                 [] OTHER -> <<"name", unique>>]])])])

\* The tokens of a sequence of names, and the scope with them.
mapNames(scope, names, quoted) ==
    LET RECURSIVE from(_, _, _)
        from(s, i, tokens) ==
            IF i > Len(names) \/ Cardinality(s.nameSet) < i - 1
            THEN [scope |-> s, tokens |-> tokens]
            ELSE With([t \in {mapName(s, names[i], quoted)} |->
                     from(t, i + 1, Append(tokens, t.v))])
    IN  from(scope, 1, <<>>)

\* The fields whose names share one scope, in the order they are mapped.
GlobalNames == <<"types", "tables", "memories", "globals", "elemSegments",
                 "dataSegments", "exceptionTypes">>

\* ModulePrintContext: the names of the module as the tokens to print.
printNames(m) ==
    With([names \in {getDisassemblyNames(m)} |->
    LET quoted == "quotedNamesInTextFormat" \in m.features
        n == Len(GlobalNames)
    IN
    With([fs \in {names.functions} |->
    LET all == FlattenSeq([i \in 1 .. n |-> names[GlobalNames[i]]])
               \o [i \in DOMAIN fs |-> fs[i].name]
    IN
    With([tokens \in {mapNames(NameScope, all, quoted).tokens} |->
    LET before[i \in 0 .. n] == IF i = 0 THEN 0
                                ELSE before[i - 1] + Len(names[GlobalNames[i]])
        Slice(i) == SubSeq(tokens, before[i - 1] + 1, before[i])
    IN
        [field \in ToSet(GlobalNames) |->
            Slice(CHOOSE i \in 1 .. n : GlobalNames[i] = field)]
        @@ [functions |-> [i \in DOMAIN fs |->
                [name |-> tokens[before[n] + i], labels |-> fs[i].labels,
                 locals |-> mapNames(NameScope, fs[i].locals, quoted).tokens]]]])])])

-----------------------------------------------------------------------------
(* Types.                                                                  *)

Keywords(types) == [i \in DOMAIN types |-> Tok(types[i])]

printSize(constraints) ==
    <<Number(constraints.min)>>
    \o IF constraints.max # UINT64_MAX THEN <<Number(constraints.max)>> ELSE <<>>

printFunctionType(type) ==
    LET clause(tag, types) ==
            IF types = <<>> THEN <<>> ELSE Tagged(tag, Keywords(types))
    IN  clause("param", type.params) \o clause("result", type.results)

printShared(type) == IF type.isShared THEN <<Tok("shared")>> ELSE <<>>

printTableType(type) ==
    printSize(type.size) \o printShared(type) \o <<Tok(type.elementType)>>

printMemoryType(type) == printSize(type.size) \o printShared(type)

printGlobalType(type) ==
    IF type.isMutable THEN Parenthesized(<<Tok("mut"), Tok(type.valueType)>>)
    ELSE <<Tok(type.valueType)>>

printInitializerExpression(names, initializer) ==
    LET op == initializer[1]
        value == initializer[2]
    IN  Parenthesized(<<Tok(op)>> \o
            CASE op \in {"i32_const", "i64_const"} -> <<Number(value)>>
              [] op = "global_get" -> <<names.globals[value + 1]>>
              [] op = "ref_null" -> <<>>
              [] op = "ref_func" -> <<names.functions[value + 1].name>>)

-----------------------------------------------------------------------------
(* FunctionPrintContext: c holds the text so far, the control stack and    *)
(* the scope of the labels.                                                *)

\* resolveBlockType
BlockType(m, imm) ==
    CASE imm[1] = "void"  -> [params |-> <<>>, results |-> <<>>]
      [] imm[1] = "one"   -> [params |-> <<>>, results |-> <<imm[2]>>]
      [] imm[1] = "index" -> m.types[imm[2] + 1]

DefaultLabel == "block" :> <<98, 108, 111, 99, 107>> @@ "loop" :> <<108, 111, 111, 112>>
                @@ "if" :> <<105, 102>> @@ "try" :> <<116, 114, 121>>

getBranchTargetId(c, depth) ==
    LET target == c.stack[Len(c.stack) - depth]
    IN  IF target.type = "function" THEN Number(depth) ELSE target.labelId

Field(tag, n) == <<Tok(tag), Tok("equals"), Number(n)>>

printImm(c, op, imm) ==
    LET kind == OpSigs[op].imm
        names == c.names
        offset == IF imm[2] # 0 THEN Field("offset", imm[2]) ELSE <<>>
    IN  CASE kind \in {"none", "memory", "memoryCopy"} -> <<>>
          [] kind \in {"literal", "lane"} -> <<Number(imm)>>
          [] kind = "table" -> <<names.tables[imm + 1]>>
          [] kind = "tableCopy" ->
                <<names.tables[imm[1] + 1], names.tables[imm[2] + 1]>>
          [] kind = "function" -> <<names.functions[imm + 1].name>>
          [] kind = "load" ->
                offset \o IF imm[1] # OpSigs[op].natural
                          THEN Field("align", Pow2(imm[1])) ELSE <<>>
          [] kind = "atomic" -> offset
          [] kind = "shuffle" -> [i \in DOMAIN imm |-> Number(imm[i])]
          [] kind = "dataAndMemory" ->
                <<names.dataSegments[imm[1] + 1], names.memories[imm[2] + 1]>>
          [] kind = "data" -> <<names.dataSegments[imm + 1]>>
          [] kind = "elemAndTable" ->
                <<names.elemSegments[imm[1] + 1], names.tables[imm[2] + 1]>>
          [] kind = "elem" -> <<names.elemSegments[imm + 1]>>

\* block, loop, if_ and try_: the label takes the next of the label names.
printControl(c, o) ==
    LET name == IF c.labelIndex < Len(c.labels) THEN c.labels[c.labelIndex + 1]
                ELSE DefaultLabel[o.op]
    IN
    With([scope \in {mapName(c.scope, name, c.quoted)} |->
    LET text == <<Tok(o.op), scope.v>> \o printFunctionType(BlockType(c.m, o.imm))
    IN
        [c EXCEPT !.scope = scope, !.labelIndex = @ + 1,
                  !.stack = Append(@, [type |-> o.op, labelId |-> scope.v]),
                  !.text = @ \o Append(text, INDENT)]])

\* else_, catch_ and catch_all
printClause(c, type, text) ==
    [c EXCEPT !.stack[Len(c.stack)].type = type,
              !.text = @ \o <<DEDENT>> \o text \o <<INDENT>>]

printEnd(c) ==
    [c EXCEPT !.stack = Front(@),
              !.text = @ \o <<DEDENT>> \o
                  IF Last(c.stack).type # "function" THEN <<Tok("end")>> ELSE <<>>]

\* The operators that leave the control stack alone.
printOperands(c, o) ==
    LET names == c.names
        target(depth) == getBranchTargetId(c, depth)
    IN  CASE o.op \in {"return", "unreachable", "drop"} -> <<>>
          [] o.op \in {"br", "br_if", "rethrow"} -> <<target(o.imm)>>
          [] o.op = "br_table" ->
                <<INDENT>> \o Append([i \in DOMAIN o.imm[2] |-> target(o.imm[2][i])],
                                     target(o.imm[1])) \o <<DEDENT>>
          [] o.op = "select" ->
                IF o.imm = "any" THEN <<>>
                ELSE Parenthesized(<<Tok("result"), Tok(o.imm)>>)
          [] o.op \in {"local_get", "local_set", "local_tee"} -> <<c.locals[o.imm + 1]>>
          [] o.op \in {"global_get", "global_set"} -> <<names.globals[o.imm + 1]>>
          [] o.op \in {"table_get", "table_set", "table_grow", "table_fill"} ->
                <<names.tables[o.imm + 1]>>
          [] o.op = "throw" -> <<names.exceptionTypes[o.imm + 1]>>
          [] o.op = "call" -> <<names.functions[o.imm + 1].name>>
          [] o.op = "call_indirect" ->
                <<names.tables[o.imm[2] + 1]>>
                \o Parenthesized(<<Tok("type"), names.types[o.imm[1] + 1]>>)
          [] OTHER -> printImm(c, o.op, o.imm)

printOp(c, o) ==
    CASE o.op \in {"block", "loop", "if", "try"} -> printControl(c, o)
      [] o.op = "else" -> printClause(c, "ifElse", <<Tok("else")>>)
      [] o.op = "catch" ->
            printClause(c, "catch", <<Tok("catch"), c.names.exceptionTypes[o.imm + 1]>>)
      [] o.op = "catch_all" -> printClause(c, "catch", <<Tok("catch_all")>>)
      [] o.op = "end" -> printEnd(c)
      [] OTHER -> [c EXCEPT !.text = @ \o <<Tok(o.op)>> \o printOperands(c, o)]

RECURSIVE printOps(_, _)
printOps(c, i) ==
    IF c.stack = <<>> \/ i > Len(c.code) THEN c ELSE printOps(printOp(c, c.code[i]), i + 1)

printFunctionBody(m, names, i) ==
    LET f == names.functions[Len(m.functions.imports) + i]
    IN  <<INDENT, DEDENT>>
        \o printOps([m |-> m, names |-> names, code |-> m.functions.defs[i].code,
                     locals |-> f.locals, labels |-> f.labels, scope |-> NameScope,
                     quoted |-> "quotedNamesInTextFormat" \in m.features, labelIndex |-> 0,
                     stack |-> <<[type |-> "function", labelId |-> 0]>>,
                     text |-> <<>>], 1).text
        \o <<INDENT>>

-----------------------------------------------------------------------------
(* The "linking" section, printed as a comment: of it only the indentation *)
(* is left.  The stream yields the text and indentDepth, which tells the   *)
(* handler of an error how many levels to close.                           *)

linkingSection == <<108, 105, 110, 107, 105, 110, 103>>     \* "linking"

Mark(s, mark, change) ==
    IF s.ok THEN Yield(s, [text |-> Append(s.v.text, mark), depth |-> s.v.depth + change])
    ELSE s

\* Reads fields one after the other; what is read is only printed.
Fields(s, fields) ==
    LET read(t, field) ==
            CASE field = "u8" -> Yield(serializeNativeValue(t, 0), t.v)
              [] field = "u32" -> Yield(serializeVarUInt32(t, 0), t.v)
              [] field = "string" -> Yield(serializeString(t, <<>>), t.v)
    IN  Loop(s, fields, read)

\* An indented list: its length, and each element.
linkingList(s, element(_)) ==
    With([opened \in {Mark(s, INDENT, 1)} |->
    With([n \in {serializeVarUInt32(opened, 0)} |->
        Mark(Loop(Yield(n, opened.v), Indices(n.v), LAMBDA t, i : element(t)),
             DEDENT, -1)])])

comdatSymbol(m, s) ==
    With([kind \in {serializeVarUInt32(s, 0)} |->
    With([index \in {serializeVarUInt32(kind, 0)} |->
        Yield(ThrowUnless(index,
                  /\ kind.v \in 0 .. 2
                  /\ kind.v = 1 => index.v < size(m.functions)
                  /\ kind.v = 2 => index.v < size(m.globals)), s.v)])])

linkingSymbol(m, s) ==
    With([kind \in {serializeNativeValue(s, 0)} |->
    With([index \in {serializeVarUInt32(serializeVarUInt32(kind, 0), 0)} |->
    LET named == CASE kind.v = 0 -> index.v >= Len(m.functions.imports)
                   [] kind.v = 2 -> index.v >= Len(m.globals.imports)
                   [] OTHER -> FALSE
    IN
        CASE ~kind.ok \/ kind.v > 3 -> Yield(Throw(kind), s.v)
          [] kind.ok /\ kind.v = 1 ->
                Fields(Yield(kind, s.v), <<"u32", "string", "u32", "u32", "u32">>)
          [] OTHER -> Fields(Yield(index, s.v), IF named THEN <<"string">> ELSE <<>>)])])

linkingSubsection(m, s) ==
    With([type \in {serializeNativeValue(s, 0)} |->
    With([body \in {serializeString(type, <<>>)} |->
    With([sub \in {Yield(MemoryInputStream(body.v), s.v)} |->
    LET comdat(t) == linkingList(Fields(t, <<"string", "u32">>),
                                 LAMBDA u : comdatSymbol(m, u))
    IN
    With([read \in {CASE type.v = 5 ->
                            linkingList(sub, LAMBDA t : Fields(t, <<"string", "u32", "u32">>))
                      [] type.v = 6 -> linkingList(sub, LAMBDA t : Fields(t, <<"u32">>))
                      [] type.v = 7 -> linkingList(sub, comdat)
                      [] type.v = 8 -> linkingList(sub, LAMBDA t : linkingSymbol(m, t))
                      [] OTHER -> Throw(sub)} |->
        IF ~body.ok THEN Yield(body, s.v)
        ELSE Yield(IF read.ok THEN body ELSE Throw(body), read.v)])])])])

RECURSIVE linkingSubsections(_, _)
linkingSubsections(m, s) ==
    IF ~s.ok \/ s.bytes = <<>> THEN s
    ELSE linkingSubsections(m, linkingSubsection(m, s))


printLinkingSection(m, section) ==
    LET version == serializeVarUInt32(MemoryInputStream(section.data), 0)
    IN
    With([read \in {linkingSubsections(m, Yield(version, [text |-> <<INDENT>>, depth |-> 1])).v} |->
        read.text \o [i \in 1 .. read.depth - 1 |-> DEDENT] \o <<DEDENT>>])

-----------------------------------------------------------------------------
(* ModulePrintContext::printModule.                                        *)

\* The tag and the name token of each kind of object.
Tags == <<"func", "table", "memory", "global", "exception_type">>

NameOf(names, kind, index) ==
    IF kind = 0 THEN names.functions[index + 1].name
    ELSE names[<<"tables", "memories", "globals", "exceptionTypes">>[kind]][index + 1]

printImport(m, names, import) ==
    LET object == m[IndexSpaces[import.kind + 1]].imports[import.index + 1]
        type == CASE import.kind = 0 -> printFunctionType(m.types[object.type + 1])
                  [] import.kind = 1 -> printTableType(object.type)
                  [] import.kind = 2 -> printMemoryType(object.type)
                  [] import.kind = 3 -> printGlobalType(object.type)
                  [] import.kind = 4 -> Keywords(object.type)
    IN  Tagged("import", <<Text(escapeString(object.moduleName)),
                           Text(escapeString(object.exportName))>>
                \o Parenthesized(<<Tok(Tags[import.kind + 1]),
                                   NameOf(names, import.kind, import.index)>> \o type))

printExport(names, export) ==
    Tagged("export", <<Text(escapeString(export.name))>>
        \o Parenthesized(<<Tok(Tags[export.kind + 1]),
                           NameOf(names, export.kind, export.index)>>))

\* The definitions of one kind; print(def) is what follows the name.
printDefs(m, names, kind, print(_)) ==
    LET space == m[IndexSpaces[kind + 1]]
    IN  Printed(Len(space.defs), LAMBDA i :
            Tagged(Tags[kind + 1],
                   <<NameOf(names, kind, Len(space.imports) + i - 1)>>
                   \o print(space.defs[i])))

printElemSegment(names, segment, name) ==
    LET function(elem) == names.functions[elem[2] + 1].name
        print(elem) ==
            CASE segment.isActive -> <<function(elem)>>
              [] ~segment.isActive /\ elem[1] = "ref_null" -> Parenthesized(<<Tok("ref_null")>>)
              [] OTHER -> Parenthesized(<<Tok("ref_func"), function(elem)>>)
    IN  Tagged("elem",
            <<name>>
            \o (IF segment.isActive
                THEN <<names.tables[segment.tableIndex + 1]>>
                     \o printInitializerExpression(names, segment.baseOffset)
                ELSE <<Tok(segment.elemType)>>)
            \o Printed(Len(segment.elems), LAMBDA i : print(segment.elems[i])))

printDataSegment(names, segment, name) ==
    LET n == Len(segment.data)
        line(i) == SubSeq(segment.data, (i - 1) * BytesPerLine + 1,
                          IF i * BytesPerLine < n THEN i * BytesPerLine ELSE n)
    IN  Tagged("data",
            <<name>>
            \o (IF segment.isActive
                THEN <<names.memories[segment.memoryIndex + 1]>>
                     \o printInitializerExpression(names, segment.baseOffset)
                ELSE <<>>)
            \o [i \in 1 .. (n + BytesPerLine - 1) \div BytesPerLine |->
                    Text(escapeString(line(i)))])

printFunction(m, names, i) ==
    LET def == m.functions.defs[i]
        type == m.types[def.type + 1]
        f == names.functions[Len(m.functions.imports) + i]
        Local(tag, k, valueType) == Tagged(tag, <<f.locals[k], Tok(valueType)>>)
        numParams == Len(type.params)
    IN  Tagged("func",
            <<f.name>> \o Parenthesized(<<Tok("type"), names.types[def.type + 1]>>)
            \o Printed(numParams, LAMBDA k : Local("param", k, type.params[k]))
            \o printFunctionType([type EXCEPT !.params = <<>>])
            \o Printed(Len(def.locals), LAMBDA k :
                    Local("local", numParams + k, def.locals[k]))
            \o printFunctionBody(m, names, i))

\* A comment, but for its indentation.
printUserSection(m, section) ==
    CASE section.name = linkingSection -> printLinkingSection(m, section)
      [] section.name = nameSection -> <<>>
      [] OTHER -> <<INDENT, DEDENT>>

printModule(m) ==
    With([names \in {printNames(m)} |->
        Tagged("module",
            Printed(Len(m.types), LAMBDA i :
                Tagged("type", <<names.types[i]>> \o Parenthesized(
                    <<Tok("func")>> \o printFunctionType(m.types[i]))))
            \o Printed(Len(m.imports), LAMBDA i : printImport(m, names, m.imports[i]))
            \o Printed(Len(m.exports), LAMBDA i : printExport(names, m.exports[i]))
            \o printDefs(m, names, 2, LAMBDA def : printMemoryType(def.type))
            \o printDefs(m, names, 1, LAMBDA def : printTableType(def.type))
            \o printDefs(m, names, 3, LAMBDA def :
                    printGlobalType(def.type)
                    \o printInitializerExpression(names, def.initializer))
            \o printDefs(m, names, 4, LAMBDA def : Keywords(def.type))
            \o Printed(Len(m.elemSegments), LAMBDA i :
                    printElemSegment(names, m.elemSegments[i], names.elemSegments[i]))
            \o Printed(Len(m.dataSegments), LAMBDA i :
                    printDataSegment(names, m.dataSegments[i], names.dataSegments[i]))
            \o (IF m.startFunctionIndex = NoIndex THEN <<>>
                ELSE Tagged("start", <<NameOf(names, 0, m.startFunctionIndex)>>))
            \o Printed(Len(m.functions.defs), LAMBDA i : printFunction(m, names, i))
            \o Printed(Len(m.userSections), LAMBDA i :
                    printUserSection(m, m.userSections[i])))])

\* WAST::print
printWAST(m) == expandIndentation(printModule(m))
=============================================================================
