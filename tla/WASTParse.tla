------------------------------ MODULE WASTParse -----------------------------
(***************************************************************************)
(* The parts of the text parser that modules and functions share           *)
(* (Lib/WASTParse/Parse.h, Parse.cpp and ParseNumbers.cpp).  The state p   *)
(* of a parser is its cursor and what the cursor points to:                *)
(*   tokens, next   the tokens, of which the last is "eof"                 *)
(*   errors         whether an error has been reported                     *)
(*   thrown         "no", or the exception on its way: "recover", "fatal"  *)
(*                  or "validation"                                        *)
(*   v              the value the last operation returned; what may be     *)
(*                  missing is a sequence of at most one element           *)
(*   m, names       the module, and its disassembly names                  *)
(*   maps           the names bound so far, by kind of object              *)
(*   typeIndex      functionTypeToIndexMap                                 *)
(*   postType, postDeclaration   the callbacks, as records                 *)
(*   locals, localNames          the names of the parameters and locals    *)
(*   fn             the FunctionState                                      *)
(* Every operation leaves a state alone that has thrown.                   *)
(***************************************************************************)
EXTENDS WASTPrint

Type(p) == p.tokens[p.next][1]

TypeAfter(p) == IF p.next < Len(p.tokens) THEN p.tokens[p.next + 1][1] ELSE "eof"

AtTag(p, tag) == Type(p) = "(" /\ TypeAfter(p) = tag

Do(p, q) == IF p.thrown = "no" THEN q ELSE p

\* e, for q what an operation made of the state, unless the operation threw:
\* the binding is [q \in {operation} |-> e].
Then(binding) ==
    LET q == CHOOSE x \in DOMAIN binding : TRUE
    IN  IF q.thrown = "no" THEN binding[q] ELSE q

Returns(p, v) == Do(p, [p EXCEPT !.v = v])

Advance(p) == Do(p, [p EXCEPT !.next = @ + 1])

parseErrorf(p) == Do(p, [p EXCEPT !.errors = TRUE])

ErrorIf(p, condition) == Do(p, IF condition THEN parseErrorf(p) ELSE p)

Recover(p) == Do(p, [p EXCEPT !.errors = TRUE, !.thrown = "recover"])

RecoverUnless(p, condition) == Do(p, IF condition THEN p ELSE Recover(p))

\* A loop over seq that an exception ends.
ForEach(p, seq, step(_, _)) ==
    LET RECURSIVE from(_, _)
        from(q, i) == IF q.thrown # "no" \/ i > Len(seq) THEN q
                      ELSE from(step(q, seq[i]), i + 1)
    IN  from(p, 1)

\* The loop while(at(p)) step(p).
While(p, at(_), step(_)) ==
    LET RECURSIVE from(_)
        from(q) == IF q.thrown # "no" \/ ~at(q) THEN q ELSE from(step(q))
    IN  from(p)

-----------------------------------------------------------------------------
(* Parentheses and recovery.                                               *)

\* Skips to after the first ")" that closes more than was opened; the end of
\* the file is fatal.
findClosingParenthesis(p) ==
    LET rest == p.next .. Len(p.tokens)
        at(kind) == {i \in rest : p.tokens[i][1] = kind}
        opens == at("(")
        closes == at(")")
        Before(marks, n) == Cardinality({i \in marks : i <= n})
    IN
    With([ends \in {{n \in closes : Before(closes, n) > Before(opens, n)}} |->
        Do(p, IF ends = {} THEN [p EXCEPT !.next = Len(p.tokens), !.errors = TRUE,
                                          !.thrown = "fatal"]
              ELSE [p EXCEPT !.next = Min(ends) + 1])])

require(p, type) ==
    Do(p, IF Type(p) = type THEN Advance(p) ELSE Recover(p))

\* What follows the opening parenthesis, with recovery at the closing one.
Recovering(p, inner(_)) ==
    With([q \in {inner(p)} |->
        CASE q.thrown = "no" /\ Type(q) = ")" -> Advance(q)
          [] q.thrown = "recover" \/ (q.thrown = "no" /\ Type(q) # ")") ->
                findClosingParenthesis([q EXCEPT !.thrown = "no", !.errors = TRUE])
          [] OTHER -> q])

parseParenthesized(p, inner(_)) ==
    IF p.thrown = "no" /\ Type(p) = "(" THEN Recovering(Advance(p), inner) ELSE Recover(p)

\* inner, in parentheses or not.
parseOptionallyParenthesized(p, parenthesized, inner(_)) ==
    IF parenthesized THEN parseParenthesized(p, inner) ELSE inner(p)

\* Called where AtTag(p, tag): the parenthesis and the tag are consumed.
parseTagged(p, inner(_)) == Do(p, Recovering([p EXCEPT !.next = @ + 2], inner))

-----------------------------------------------------------------------------
(* Characters: st is the input that is left, the output and the errors.    *)

hexit(char) ==
    CASE char \in 48 .. 57 -> char - 48
      [] char \in 97 .. 102 -> char - 97 + 10
      [] char \in 65 .. 70 -> char - 65 + 10
      [] OTHER -> -1

\* Past the end is the closing quote.
Char(st, i) == IF i <= Len(st.in) THEN st.in[i] ELSE 34

Consume(st, n, out, wrong) ==
    [in |-> SubSeq(st.in, n + 1, Len(st.in)), out |-> st.out \o out,
     errors |-> st.errors \/ wrong]

SimpleEscapes == 116 :> 9 @@ 110 :> 10 @@ 114 :> 13 @@ 34 :> 34 @@ 39 :> 39 @@ 92 :> 92

maxCodePoint == 1114111

\* The characters are those after "\u".
parseUnicodeEscape(st) ==
    With([n \in {CHOOSE k \in 0 .. Len(st.in) :
                    /\ hexit(Char(st, k + 2)) < 0
                    /\ \A j \in 1 .. k : hexit(Char(st, j + 1)) >= 0} |->
    LET value[k \in 0 .. n] ==
            IF k = 0 THEN 0
            ELSE LET high == value[k - 1]
                 IN  IF high > maxCodePoint THEN high
                     ELSE high * 16 + hexit(Char(st, k + 1))
    IN
    With([invalid \in {value[n] \in 55296 .. 57343 \/ value[n] > maxCodePoint} |->
        Consume(st, n + 2, encodeUTF8CodePoint(IF invalid THEN 128578 ELSE value[n]),
                invalid \/ Char(st, 1) # 123 \/ Char(st, n + 2) # 125)])])

\* The characters are those after the backslash.
parseCharEscapeCode(st) ==
    With([char \in {Char(st, 1)} |->
    With([first \in {hexit(char)} |->
    With([second \in {hexit(Char(st, 2))} |->
        CASE first >= 0 /\ second >= 0 -> Consume(st, 2, <<first * 16 + second>>, FALSE)
          [] first >= 0 /\ second < 0 -> Consume(st, 1, <<first * 16>>, TRUE)
          [] char \in DOMAIN SimpleEscapes -> Consume(st, 1, <<SimpleEscapes[char]>>, FALSE)
          [] char = 117 -> parseUnicodeEscape(Consume(st, 1, <<>>, FALSE))
          [] OTHER -> Consume(st, 1, <<92>>, TRUE)])])])

RECURSIVE unescape(_)
unescape(st) ==
    IF st.in = <<>> THEN st
    ELSE unescape(IF st.in[1] = 92 THEN parseCharEscapeCode(Consume(st, 1, <<>>, FALSE))
                  ELSE Consume(st, 1, <<st.in[1]>>, FALSE))

parseStringChars(chars) == unescape([in |-> chars, out |-> <<>>, errors |-> FALSE])

\* Appends the string at the cursor to p.v.
parseString(p) ==
    Do(p, With([st \in {parseStringChars(p.tokens[p.next][2])} |->
              ErrorIf(Advance([p EXCEPT !.v = @ \o st.out]), st.errors)]))

parseUTF8String(p) ==
    Then([q \in {parseString(Returns(RecoverUnless(p, Type(p) = "string"), <<>>))} |->
        ErrorIf(q, validateUTF8String(q.v) # Len(q.v))])

-----------------------------------------------------------------------------
(* Numbers.                                                                *)

parseSign(chars) == chars[1] = 45

Unsigned(chars) == IF chars[1] \in {43, 45} THEN Tail(chars) ELSE chars

\* Digits are added as long as the value stays within maxValue.
RECURSIVE parseDecimalUnsignedInt(_, _)
parseDecimalUnsignedInt(digits, maxValue) ==
    IF digits = <<>> THEN [value |-> 0, tooLarge |-> FALSE]
    ELSE LET r == parseDecimalUnsignedInt(Front(digits), maxValue)
             digit == Last(digits) - 48
         IN  IF r.tooLarge \/ r.value > (maxValue - digit) \div 10
             THEN [value |-> maxValue, tooLarge |-> TRUE]
             ELSE [value |-> r.value * 10 + digit, tooLarge |-> FALSE]

\* Yields <<>> or <<n>>, where n is a value of that many bits.
tryParseInt(p, minSignedValue, bits) ==
    LET chars == p.tokens[p.next][2]
        isNegative == parseSign(chars)
        maxValue == IF isNegative THEN -minSignedValue ELSE Pow2(bits) - 1
    IN  Do(p, IF Type(p) # "int" \/ (minSignedValue = 0 /\ isNegative)
              THEN Returns(p, <<>>)
              ELSE With([int \in {parseDecimalUnsignedInt(Unsigned(chars), maxValue)} |->
                       Returns(ErrorIf(Advance(p), int.tooLarge),
                               <<IF isNegative THEN (Pow2(bits) - int.value) % Pow2(bits)
                                 ELSE int.value>>)]))

tryParseU64(p) == tryParseInt(p, 0, Width64)

\* The optional value of p.v has to be there.
Needed(p) == Then([q \in {RecoverUnless(p, p.v # <<>>)} |-> Returns(q, q.v[1])])

parseU32(p) == Needed(tryParseInt(p, 0, Width32))

\* An I8, I16, I32 or I64 may be written as signed or as unsigned.
parseSigned(p, bits) ==
    Then([q \in {Needed(tryParseInt(p, -Pow2(bits - 1), bits))} |->
        Returns(q, IF q.v >= Pow2(bits - 1) THEN q.v - Pow2(bits) ELSE q.v)])

-----------------------------------------------------------------------------
(* Names and references: <<"name", chars>> or <<"index", n>>.              *)

\* Yields <<>>, or the name; a missing name is empty.
tryParseName(p) ==
    LET chars == p.tokens[p.next][2]
    IN  Do(p, CASE Type(p) = "name" -> Returns(Advance(p), <<chars>>)
                [] Type(p) = "quotedName" ->
                      With([st \in {parseStringChars(chars)} |->
                          Returns(Advance(ErrorIf(p,
                                      \/ "quotedNamesInTextFormat" \notin p.m.features
                                      \/ st.errors
                                      \/ st.out = <<>>)), <<st.out>>)])
                [] OTHER -> Returns(p, <<>>))

\* The name, or the empty name.
optionalName(p) ==
    Then([q \in {tryParseName(p)} |->
        Returns(q, IF q.v = <<>> THEN <<>> ELSE q.v[1])])

tryParseNameOrIndexRef(p) ==
    Then([name \in {tryParseName(p)} |->
        IF name.v # <<>> THEN Returns(name, <<<<"name", name.v[1]>>>>)
        ELSE Then([index \in {tryParseInt(name, 0, Width64)} |->
                 IF index.v = <<>> THEN index ELSE Returns(index, <<<<"index", index.v[1]>>>>)])])

parseNameOrIndexRef(p) == Needed(tryParseNameOrIndexRef(p))

\* What stands for a reference that cannot be resolved, UINTPTR_MAX.
Unresolved == UINT64_MAX

resolveRef(p, map, maxIndex, ref) ==
    LET found == IF ref[1] = "index" THEN ref[2] < maxIndex ELSE ref[2] \in DOMAIN map
    IN  Do(p, CASE ~found -> Returns(parseErrorf(p), Unresolved)
                [] found /\ ref[1] = "index" -> Returns(p, ref[2])
                [] OTHER -> Returns(p, map[ref[2]]))

\* Yields <<>> or the resolved index.
tryParseAndResolve(p, map, maxIndex) ==
    Then([ref \in {tryParseNameOrIndexRef(p)} |->
        IF ref.v = <<>> THEN ref
        ELSE Then([index \in {resolveRef(ref, map, maxIndex, ref.v[1])} |->
                 Returns(index, <<index.v>>)])])

parseAndResolveNameOrIndexRef(p, map, maxIndex) ==
    Needed(tryParseAndResolve(p, map, maxIndex))

\* The map with name bound to index; a redefinition is an error.
bindName(p, map, name, index) ==
    LET q == ErrorIf(p, name # <<>> /\ name \in DOMAIN map)
    IN  Returns(q, IF name = <<>> THEN map ELSE (name :> index) @@ map)

-----------------------------------------------------------------------------
(* Types.                                                                  *)

ValueTypes == {"i32", "i64", "f32", "f64", "v128", "anyref", "funcref"}

\* Appends the value type at the cursor to p.v.
parseValueType(p) ==
    LET q == RecoverUnless(p, Type(p) \in ValueTypes)
    IN  Do(q, Advance(Returns(q, Append(q.v, Type(q)))))

parseValueTypes(p) ==
    While(Returns(p, <<>>), LAMBDA q : Type(q) \in ValueTypes, parseValueType)

parseReferenceType(p) ==
    LET q == RecoverUnless(p, Type(p) \in {"anyref", "funcref"})
    IN  Do(q, Returns(Advance(q), Type(q)))

\* The parameters are named by p.locals and p.localNames; p.v is the list of
\* their types.
parseParams(p) ==
    LET types == p.v
    IN  IF Type(p) \in {"name", "quotedName"}
        THEN Then([name \in {optionalName(p)} |->
             Then([bound \in {bindName(name, name.locals, name.v, Len(types))} |->
             Then([named \in {parseValueType(Returns([bound EXCEPT !.locals = bound.v], types))} |->
                [named EXCEPT !.localNames = Append(@, name.v)]])])])
        ELSE Then([plain \in {parseValueTypes(p)} |->
                [plain EXCEPT !.v = types \o @, !.localNames = @ \o Blank(Len(plain.v))]])

parseFunctionType(p) ==
    LET Params(q) == parseTagged(q, parseParams)
        Results(q) == parseTagged(q, LAMBDA r :
                        Then([u \in {parseValueTypes(r)} |->
                            Returns(u, r.v \o u.v)]))
    IN
    Then([params \in {While(Returns(p, <<>>), LAMBDA q : AtTag(q, "param"), Params)} |->
    Then([results \in {While(Returns(params, <<>>), LAMBDA q : AtTag(q, "result"), Results)} |->
        Returns(results, [params |-> params.v, results |-> results.v])])])

\* [ref, type]: ref is empty, or the reference.
parseFunctionTypeRefAndOrDecl(p) ==
    LET fresh == Do(p, [p EXCEPT !.locals = <<>>, !.localNames = <<>>, !.v = <<>>])
    IN
    Then([ref \in {IF p.thrown = "no" /\ AtTag(p, "type")
                   THEN parseTagged(fresh, LAMBDA q :
                            Then([r \in {tryParseNameOrIndexRef(q)} |->
                                RecoverUnless(r, r.v # <<>>)]))
                   ELSE fresh} |->
    Then([type \in {parseFunctionType(ref)} |->
        Returns(type, [ref |-> ref.v, type |-> type.v])])])

noType == [params |-> <<>>, results |-> <<>>]

getUniqueFunctionTypeIndex(p, type) ==
    LET n == Len(p.m.types)
    IN  Do(p, IF type \in DOMAIN p.typeIndex THEN Returns(p, p.typeIndex[type])
              ELSE [p EXCEPT !.typeIndex = (type :> n) @@ @, !.m.types = Append(@, type),
                             !.names.types = Append(@, <<>>), !.v = n])

resolveFunctionType(p, unresolved) ==
    IF unresolved.ref = <<>> THEN getUniqueFunctionTypeIndex(p, unresolved.type)
    ELSE Then([q \in {resolveRef(p, p.maps.types, Len(p.m.types), unresolved.ref[1])} |->
            ErrorIf(q, /\ unresolved.type # noType /\ q.v # Unresolved
                       /\ q.m.types[q.v + 1] # unresolved.type)])
=============================================================================
