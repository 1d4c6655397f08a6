------------------------- MODULE WASTParseFunction --------------------------
(***************************************************************************)
(* The text parser's functions (Lib/WASTParse/ParseFunction.cpp).  A body  *)
(* is validated as it is parsed; p.fn, the FunctionState, has              *)
(*   c          the context of the CodeValidationStream                    *)
(*   code       the operators encoded so far                               *)
(*   locals, numLocals       the names and the number of its locals        *)
(*   targets, depth          the branch targets by name, and how many      *)
(*                           are open                                      *)
(*   labels     the disassembly names of its labels                        *)
(***************************************************************************)
EXTENDS WASTParse

-----------------------------------------------------------------------------
(* ResumableCodeValidationProxyStream.                                     *)

ControlOps == {"block", "loop", "if", "else", "end", "try", "catch", "catch_all"}

Encode(p, c, op, imm) ==
    [p EXCEPT !.fn.c = c, !.fn.code = Append(@, [op |-> op, imm |-> imm])]

\* Where nothing is open the validator rejects this operator too.
EmitUnreachable(p) ==
    IF p.fn.c.control = <<>> THEN [p EXCEPT !.thrown = "validation"]
    ELSE Encode(p, V(p.m)!enterUnreachable(p.fn.c), "unreachable", 0)

\* An operator the validator rejects is replaced by unreachable.  The parser
\* recovers at the next parenthesis if it opens or closes a structure.
Emit(p, op, imm) ==
    Do(p, With([c \in {V(p.m)!visit(p.fn.c, [op |-> op, imm |-> imm])} |->
              CASE c.ok -> Encode(p, c, op, imm)
                [] ~c.ok /\ op \in ControlOps -> Recover(EmitUnreachable(p))
                [] OTHER -> parseErrorf(EmitUnreachable(p))]))

-----------------------------------------------------------------------------
(* Branch targets.                                                         *)

Unbind(map, name) == [n \in DOMAIN map \ {name} |-> map[n]]

\* ScopedBranchTarget: inner runs with the target open; the name it hides is
\* bound again afterwards, whether or not inner throws.
ScopedBranchTarget(p, name, inner(_)) ==
    LET targets == p.fn.targets
        opened == [p EXCEPT !.fn.depth = @ + 1,
                            !.fn.targets = IF name = <<>> THEN @
                                           ELSE (name :> p.fn.depth + 1) @@ @]
        q == inner(opened)
    IN  [q EXCEPT
            !.fn.depth = @ - 1,
            !.fn.targets = CASE name = <<>> -> @
                             [] name # <<>> /\ name \in DOMAIN targets ->
                                    (name :> targets[name]) @@ @
                             [] OTHER -> Unbind(@, name)]

\* Yields <<>> or the depth of the target.
tryParseAndResolveBranchTargetRef(p) ==
    Then([ref \in {tryParseNameOrIndexRef(p)} |->
        CASE ref.v = <<>> -> ref
          [] ref.v # <<>> /\ ref.v[1][1] = "index" -> Returns(ref, <<ref.v[1][2]>>)
          [] OTHER -> IF ref.v[1][2] \in DOMAIN ref.fn.targets
                      THEN Returns(ref, <<ref.fn.depth - ref.fn.targets[ref.v[1][2]]>>)
                      ELSE Returns(parseErrorf(ref), <<Unresolved>>)])

parseBranchTarget(p) == Needed(tryParseAndResolveBranchTargetRef(p))

parseRedundantBranchTargetName(p, name) ==
    Then([q \in {tryParseName(p)} |->
        ErrorIf(q, q.v # <<>> /\ q.v # <<name>>)])

-----------------------------------------------------------------------------
(* Immediates.                                                             *)

\* The reference to an object of a kind; the index is default if there is none.
optionalRef(p, kind, default) ==
    Then([q \in {tryParseAndResolve(p, p.maps[kind], size(p.m[kind]))} |->
        Returns(q, IF q.v = <<>> THEN default ELSE q.v[1])])

neededRef(p, kind) ==
    parseAndResolveNameOrIndexRef(p, p.maps[kind],
        IF kind \in {"dataSegments", "elemSegments"} THEN Len(p.m[kind]) ELSE size(p.m[kind]))

parseSelectImm(p) ==
    Then([types \in {While(Returns(p, <<>>), LAMBDA q : AtTag(q, "result"),
                           LAMBDA q : parseTagged(q, LAMBDA r :
                                Then([u \in {parseValueTypes(r)} |->
                                    Returns(u, r.v \o u.v)])))} |->
        Returns(ErrorIf(types, AtTag(p, "result") /\ Len(types.v) # 1),
                IF types.v = <<>> THEN "any" ELSE types.v[1])])

parseBranchTableImm(p) ==
    LET next(q) == Then([t \in {tryParseAndResolveBranchTargetRef(q)} |->
                       Returns(t, q.v \o t.v)])
    IN
    Then([depths \in {While(Returns(p, <<>>),
                            LAMBDA q : tryParseNameOrIndexRef(q).v # <<>>, next)} |->
    Then([some \in {RecoverUnless(depths, depths.v # <<>>)} |->
        Returns(some, <<Last(some.v), Front(some.v)>>)])])

parseCallIndirectImm(p) ==
    Then([table \in {optionalRef(p, "tables", 0)} |->
    Then([type \in {parseFunctionTypeRefAndOrDecl(table)} |->
    Then([index \in {resolveFunctionType(type, type.v)} |->
        Returns(ErrorIf(index, type.locals # <<>>), <<index.v, table.v>>)])])])

\* offset= and align=; the alignment is kept as its logarithm.
parseLoadImm(p, natural) ==
    LET field(q, tag, default) ==
            Do(q, IF Type(q) = tag THEN parseU32(require(Advance(q), "equals"))
                  ELSE Returns(q, default))
    IN
    Then([offset \in {field(p, "offset", 0)} |->
    Then([align \in {field(offset, "align", Pow2(natural))} |->
    With([logs \in {{n \in 0 .. Width32 - 1 : Pow2(n) = align.v}} |->
        Returns(ErrorIf(align, logs = {} \/ align.v > Pow2(natural)),
                <<IF logs = {} \/ align.v > Pow2(natural) THEN natural
                  ELSE CHOOSE n \in logs : TRUE, offset.v>>)])])])

parseLanes(p, n) ==
    ForEach(Returns(p, <<>>), [i \in 1 .. n |-> i], LAMBDA q, i :
        Then([lane \in {parseSigned(q, 8)} |->
            Returns(ErrorIf(lane, lane.v \notin 0 .. 2 * n - 1), Append(q.v, lane.v))]))

\* Two references, of which the second may be left out.
parsePair(p, first, default) ==
    LET kind == IF first = "dataSegments" THEN "memories" ELSE "tables"
    IN
    Then([segment \in {neededRef(p, first)} |->
    Then([other \in {optionalRef(segment, kind, default)} |->
        Returns(other, <<segment.v, other.v>>)])])

parseTableCopyImm(p) ==
    Then([source \in {optionalRef(p, "tables", 0)} |->
    Then([dest \in {optionalRef(source, "tables", source.v)} |->
        Returns(dest, <<source.v, dest.v>>)])])

\* The objects that the immediate of an operator or of a kind refers to.
ReferredTo(what) ==
    CASE what \in {"function", "call"} -> "functions"
      [] what = "data" -> "dataSegments"
      [] what = "elem" -> "elemSegments"
      [] what \in {"global_get", "global_set"} -> "globals"
      [] what \in {"throw", "catch"} -> "exceptionTypes"

\* Of the operators that OpSigs describes.
parseFixedImm(p, op) ==
    LET kind == OpSigs[op].imm
        natural == OpSigs[op].natural
    IN  CASE kind \in {"none", "memory"} -> Returns(p, 0)
          [] kind = "memoryCopy" -> Returns(p, <<0, 0>>)
          [] kind = "table" -> optionalRef(p, "tables", 0)
          [] kind = "tableCopy" -> parseTableCopyImm(p)
          [] kind \in {"function", "data", "elem"} -> neededRef(p, ReferredTo(kind))
          [] kind = "literal" ->
                parseSigned(p, IF op = "i32_const" THEN Width32 ELSE Width64)
          [] kind \in {"load", "atomic"} -> parseLoadImm(p, natural)
          [] kind = "lane" -> Then([lane \in {parseSigned(p, 8)} |->
                                  ErrorIf(lane, lane.v \notin 0 .. natural)])
          [] kind = "shuffle" -> parseLanes(p, natural)
          [] kind \in {"dataAndMemory", "elemAndTable"} ->
                parsePair(p, IF kind = "dataAndMemory" THEN "dataSegments" ELSE "elemSegments", 0)

parseImm(p, op) ==
    CASE op \in {"return", "unreachable", "drop"} -> Returns(p, 0)
      [] op \in {"br", "br_if", "rethrow"} -> parseBranchTarget(p)
      [] op = "br_table" -> parseBranchTableImm(p)
      [] op = "select" -> parseSelectImm(p)
      [] op \in {"local_get", "local_set", "local_tee"} ->
            parseAndResolveNameOrIndexRef(p, p.fn.locals, p.fn.numLocals)
      [] op \in {"global_get", "global_set", "throw", "catch", "call"} ->
            neededRef(p, ReferredTo(op))
      [] op \in {"table_get", "table_set", "table_grow", "table_fill"} ->
            optionalRef(p, "tables", 0)
      [] op = "call_indirect" -> parseCallIndirectImm(p)
      [] OTHER -> parseFixedImm(p, op)

-----------------------------------------------------------------------------
(* Instructions.                                                           *)

\* A result type without parentheses, or a reference or declaration.
parseBlockType(p) ==
    IF Type(p) \in ValueTypes
    THEN Then([naked \in {parseValueType(Returns(p, <<>>))} |->
             Returns(naked, [params |-> <<>>, results |-> naked.v])])
    ELSE Then([decl \in {parseFunctionTypeRefAndOrDecl(p)} |->
         Then([checked \in {ErrorIf(decl, decl.locals # <<>>)} |->
             IF decl.v.ref = <<>> THEN Returns(checked, decl.v.type)
             ELSE Then([index \in {resolveFunctionType(checked, decl.v)} |->
                      Returns(index, IF index.v = Unresolved THEN noType
                                     ELSE index.m.types[index.v + 1])])])])

\* Only a type that needs an index gets one.
indexedBlockType(p, type) ==
    IF type.params = <<>> /\ Len(type.results) <= 1
    THEN Returns(p, IF type.results = <<>> THEN <<"void">> ELSE <<"one", type.results[1]>>)
    ELSE Then([unique \in {getUniqueFunctionTypeIndex(p, type)} |->
             Returns(unique, <<"index", unique.v>>)])

\* The label and the block type; the result is [name, imm].
parseControlImm(p) ==
    Then([name \in {optionalName(p)} |->
    Then([typed \in {parseBlockType([name EXCEPT !.fn.labels = Append(@, name.v)])} |->
    Then([result \in {indexedBlockType(typed, typed.v)} |->
        Returns(result, [name |-> name.v, imm |-> result.v])])])])

RECURSIVE parseInstrSequence(_)
RECURSIVE parseExpr(_)

\* parseBlock and parseLoop
parseBlock(p, op, isExpr) ==
    Then([control \in {parseControlImm(Advance(p))} |->
        ScopedBranchTarget(control, control.v.name, LAMBDA q :
            Then([ended \in {Emit(parseInstrSequence(Emit(q, op, control.v.imm)), "end", 0)} |->
                IF isExpr THEN ended
                ELSE parseRedundantBranchTargetName(require(ended, "end"), control.v.name)]))])

parseIf(p) ==
    Then([control \in {parseControlImm(Advance(p))} |->
        ScopedBranchTarget(control, control.v.name, LAMBDA q :
            Then([then \in {parseInstrSequence(Emit(q, "if", control.v.imm))} |->
            Then([both \in {IF Type(then) # "else" THEN then
                            ELSE parseInstrSequence(Emit(
                                    parseRedundantBranchTargetName(Advance(then), control.v.name),
                                    "else", 0))} |->
                parseRedundantBranchTargetName(require(Emit(both, "end", 0), "end"),
                                               control.v.name)])]))])

\* (then ...) and, if there is one, (else ...)
parseTaggedArms(p) ==
    Then([then \in {parseTagged(p, parseInstrSequence)} |->
        IF Type(then) # "(" THEN then
        ELSE parseParenthesized(then, LAMBDA q :
                parseInstrSequence(Emit(require(q, "else"), "else", 0)))])

parseUntaggedArms(p) ==
    Then([then \in {parseExpr(p)} |->
        IF Type(then) = ")" THEN then ELSE parseExpr(Emit(then, "else", 0))])

\* The folded form, with or without (then ...) and (else ...).
parseIfExpr(p) ==
    Then([control \in {parseControlImm(Advance(p))} |->
    Then([condition \in {IF AtTag(control, "then") THEN control ELSE parseExpr(control)} |->
        ScopedBranchTarget(condition, control.v.name, LAMBDA q :
            Then([opened \in {Emit(q, "if", control.v.imm)} |->
                Emit(IF AtTag(opened, "then") THEN parseTaggedArms(opened)
                     ELSE parseUntaggedArms(opened), "end", 0)]))])])

\* A catch or catch_all clause.
parseCatch(p) ==
    Then([imm \in {CASE Type(p) = "catch" -> neededRef(Advance(p), "exceptionTypes")
                     [] Type(p) = "catch_all" -> Returns(Advance(p), 0)
                     [] OTHER -> Recover(p)} |->
        parseInstrSequence(Emit(imm, Type(p), imm.v))])

parseTry(p) ==
    Then([control \in {parseControlImm(Advance(p))} |->
        ScopedBranchTarget(control, control.v.name, LAMBDA q :
            Then([tried \in {parseInstrSequence(Emit(q, "try", control.v.imm))} |->
            Then([clauses \in {While(tried, LAMBDA r : Type(r) # "end", parseCatch)} |->
                Emit(parseRedundantBranchTargetName(require(clauses, "end"), control.v.name),
                     "end", 0)])]))])

\* The operators that a token can name, other than the control operators.
OperatorTokens == {"return", "br", "br_table", "br_if", "unreachable", "drop", "select",
                   "local_get", "local_set", "local_tee", "global_get", "global_set",
                   "table_get", "table_set", "table_grow", "table_fill", "throw",
                   "rethrow", "call", "call_indirect"} \cup DOMAIN OpSigs

\* parseOp_<name>; the operands of an expression come before the operator.
parseOp(p, operands(_)) ==
    Then([imm \in {parseImm(Advance(p), Type(p))} |->
        Emit(operands(imm), Type(p), imm.v)])

parseOperands(p) == While(p, LAMBDA q : Type(q) # ")", parseExpr)

\* The handler of a RecoverParseException that is thrown again.
Unreachable(p) ==
    IF p.thrown # "recover" THEN p
    ELSE Then([q \in {EmitUnreachable([p EXCEPT !.thrown = "no"])} |->
             [q EXCEPT !.thrown = "recover"]])

parseExprInner(p) ==
    Unreachable(CASE Type(p) \in {"block", "loop"} -> parseBlock(p, Type(p), TRUE)
                  [] Type(p) = "if" -> parseIfExpr(p)
                  [] Type(p) \in OperatorTokens -> parseOp(p, parseOperands)
                  [] OTHER -> Recover(p))

parseExpr(p) == parseParenthesized(p, parseExprInner)

parseInstr(p) ==
    Unreachable(CASE Type(p) = "(" -> parseExpr(p)
                  [] Type(p) \in {"block", "loop"} -> parseBlock(p, Type(p), FALSE)
                  [] Type(p) = "if" -> parseIf(p)
                  [] Type(p) = "try" -> parseTry(p)
                  [] Type(p) \in OperatorTokens -> parseOp(p, LAMBDA q : q)
                  [] OTHER -> Recover(p))

parseInstrSequence(p) ==
    While(p, LAMBDA q : Type(q) \notin {")", "else", "end", "catch", "catch_all"}, parseInstr)

-----------------------------------------------------------------------------
(* Definitions.                                                            *)

\* The type is resolved after all types, the body parsed after that.
parseFunctionDef(p) ==
    Then([type \in {parseFunctionTypeRefAndOrDecl(p)} |->
    LET callback == [kind |-> "def", index |-> size(p.m.functions),
                     def |-> Len(p.m.functions.defs), first |-> type.next, type |-> type.v,
                     locals |-> type.locals, localNames |-> type.localNames]
    IN
    Then([closed \in {findClosingParenthesis([type EXCEPT !.postType = Append(@, callback)])} |->
        [closed EXCEPT !.next = @ - 1,
                       !.v = [type |-> NoIndex, locals |-> <<>>, code |-> <<>>]]])])

resolveDefType(p, callback) ==
    Then([q \in {resolveFunctionType(p, callback.type)} |->
        [q EXCEPT !.m.functions.defs[callback.def + 1].type = q.v,
                  !.postDeclaration = Append(@, [callback EXCEPT !.kind = "body"])]])

parseLocalType(p, def, name) ==
    Then([type \in {parseValueType(Returns([p EXCEPT !.localNames = Append(@, name)], <<>>))} |->
        [type EXCEPT !.m.functions.defs[def].locals = @ \o type.v]])

\* One (local ...); def is the index of the function's definition.
parseLocal(p, def, numParams) ==
    IF Type(p) \in {"name", "quotedName"}
    THEN Then([name \in {optionalName(p)} |->
         Then([bound \in {bindName(name, name.locals, name.v,
                                   numParams + Len(name.m.functions.defs[def].locals))} |->
            parseLocalType([bound EXCEPT !.locals = bound.v], def, name.v)])])
    ELSE While(p, LAMBDA q : Type(q) # ")", LAMBDA q : parseLocalType(q, def, <<>>))

\* Whether the parser leaves out what only a parse without errors goes on to.
Stopped(p) == p.errors \/ p.thrown # "no"

\* The instructions of a function and, if they have no errors, its end.
parseInstructions(p) ==
    With([body \in {parseInstrSequence(p)} |->
        IF Stopped(body) THEN body
        ELSE Then([ended \in {Emit(body, "end", 0)} |->
                 ErrorIf(ended, ~V(ended.m)!finished(ended.fn.c))])])

parseBody(p, callback) ==
    LET def == callback.def + 1
        type == p.m.types[p.m.functions.defs[def].type + 1]
        start == [p EXCEPT !.next = callback.first, !.locals = callback.locals,
                           !.localNames = callback.localNames]
    IN
    Then([declared \in {While(start, LAMBDA q : AtTag(q, "local"), LAMBDA q :
                            parseTagged(q, LAMBDA r : parseLocal(r, def, Len(type.params))))} |->
    With([locals \in {declared.m.functions.defs[def].locals} |->
    With([c \in {V(declared.m)!newContext(type.params, type.results, locals)} |->
    With([inside \in {[declared EXCEPT
                        !.names.functions[callback.index + 1].locals = declared.localNames,
                        !.fn = [c |-> c, code |-> <<>>, locals |-> declared.locals,
                                numLocals |-> Len(type.params) + Len(locals),
                                targets |-> <<>>, depth |-> 0, labels |-> <<>>]]} |->
        IF ~c.ok THEN [inside EXCEPT !.thrown = "validation"]
        ELSE With([q \in {parseInstructions(inside)} |->
                [q EXCEPT !.errors = @ \/ q.thrown = "validation", !.thrown = "no",
                          !.m.functions.defs[def].code = q.fn.code,
                          !.names.functions[callback.index + 1].labels = q.fn.labels,
                          !.next = p.next]])])])])])
=============================================================================
