------------------------------- MODULE Formats ------------------------------
(***************************************************************************)
(* The tools that convert between the binary and the text format:          *)
(* wavm-disas reads a binary file and prints it, wavm-as parses a text     *)
(* file and writes it.  A file can be damaged before a tool reads it.      *)
(***************************************************************************)
EXTENDS WASTParseModule

CONSTANTS
    InitialFiles,       \* files [format, content] that somebody else wrote
    DefaultFeatures,    \* the features of a FeatureSpec that are on by default
    BadBytes,           \* what a damaged byte may become
    MaxTools            \* bound on the number of tools that run

VARIABLES
    file,       \* the file as it is now
    source,     \* <<m>> if a tool wrote the file from m, <<>> otherwise
    from,       \* the source of the file that the last tool read
    got,        \* <<m>> if the last tool accepted its input, <<>> otherwise
    outcome,    \* "none", "ok", "rejected", "aborted" or "escaped"
    quoted,     \* wavm-disas's --enable-quoted-names
    texts,      \* what wavm-disas printed since names were last dropped
    tools,      \* how many tools have run
    damaged

vars == <<file, source, from, got, outcome, quoted, texts, tools, damaged>>

eof == Tok("eof")

quotedNames == "quotedNamesInTextFormat"

Init ==
    /\ file \in InitialFiles
    /\ quoted \in BOOLEAN
    /\ source = <<>> /\ from = <<>> /\ got = <<>> /\ texts = <<>>
    /\ outcome = "none" /\ tools = 0 /\ damaged = FALSE

Ready(format) ==
    /\ outcome \in {"none", "ok"}
    /\ file.format = format
    /\ tools < MaxTools

\* The tool stops without a result.
Fail(reason) ==
    /\ outcome' = reason
    /\ got' = <<>>
    /\ UNCHANGED <<file, source, texts>>

Succeed(m, format, content) ==
    /\ outcome' = "ok"
    /\ got' = <<m>>
    /\ source' = <<m>>
    /\ file' = [format |-> format, content |-> content]

\* What wavm-disas makes of the bytes of a file.  The printer aborts where its
\* indentation does not balance.
disassemble(bytes, features) ==
    With([read \in {loadBinaryModule(bytes, features)} |->
        IF ~read.ok THEN [outcome |-> "rejected"]
        ELSE With([printed \in {printWAST(read.module)} |->
                IF ~printed.ok THEN [outcome |-> "aborted"]
                ELSE [outcome |-> "ok", module |-> read.module, text |-> printed.text]])])

\* wavm-disas.
disas ==
    LET features == IF quoted THEN DefaultFeatures \cup {quotedNames}
                    ELSE DefaultFeatures \ {quotedNames}
    IN  /\ Ready("wasm")
        /\ \E made \in {disassemble(file.content, features)} :
             IF made.outcome # "ok" THEN Fail(made.outcome)
             ELSE /\ Succeed(made.module, "wast", Append(made.text, eof))
                  /\ texts' = Append(texts, made.text)
        /\ from' = source
        /\ tools' = tools + 1
        /\ UNCHANGED <<quoted, damaged>>

\* What is left of a module's user sections with --omit-names.
omitNames(m) ==
    With([i \in {findUserSection(m, nameSection)} |->
        IF i = 0 THEN m ELSE [m EXCEPT !.userSections = RemoveAt(@, i)]])

\* What wavm-as makes of the tokens of a file.  The parser asserts that the
\* names match the module, and an exception that it does not catch ends the tool.
assemble(tokens, features, omit) ==
    With([read \in {parseModule(tokens, features)} |->
    With([m \in {IF omit THEN omitNames(read.module) ELSE read.module} |->
        IF read.escaped THEN [outcome |-> "escaped"]
        ELSE IF ~read.namesMatch THEN [outcome |-> "aborted"]
        ELSE IF ~read.ok THEN [outcome |-> "rejected"]
        ELSE [outcome |-> "ok", module |-> m, bytes |-> writeModule(m).bytes]])])

\* wavm-as.
as(omit, omitExtended) ==
    LET features == IF omitExtended THEN DefaultFeatures \ {"extendedNamesSection"}
                    ELSE DefaultFeatures
    IN  /\ Ready("wast")
        /\ \E made \in {assemble(file.content, features, omit)} :
             IF made.outcome # "ok" THEN Fail(made.outcome)
             ELSE /\ Succeed(made.module, "wasm", made.bytes)
                  /\ texts' = IF omit \/ omitExtended THEN <<>> ELSE texts
        /\ from' = source
        /\ tools' = tools + 1
        /\ UNCHANGED <<quoted, damaged>>

\* Bounded: once, before the first tool, and only where the tools run with
\* their default options.
Damage(content) ==
    /\ ~damaged /\ ~quoted
    /\ tools = 0
    /\ file' = [file EXCEPT !.content = content]
    /\ source' = <<>>
    /\ texts' = <<>>
    /\ damaged' = TRUE
    /\ UNCHANGED <<from, got, outcome, quoted, tools>>

Truncate ==
    \E n \in DOMAIN file.content :
        /\ file.format = "wasm"
        /\ Damage(SubSeq(file.content, 1, n - 1))

ChangeByte ==
    \E n \in DOMAIN file.content, b \in BadBytes :
        /\ file.format = "wasm"
        /\ Damage([file.content EXCEPT ![n] = b])

\* The "eof" that the lexer adds stays.
LoseToken ==
    \E n \in 1 .. Len(file.content) - 1 :
        /\ file.format = "wast"
        /\ Damage(RemoveAt(file.content, n))

RepeatToken ==
    \E n \in 1 .. Len(file.content) - 1 :
        /\ file.format = "wast"
        /\ Damage(InsertAt(file.content, n, file.content[n]))

SwapTokens ==
    \E n \in 1 .. Len(file.content) - 2 :
        /\ file.format = "wast"
        /\ Damage([file.content EXCEPT ![n] = file.content[n + 1],
                                       ![n + 1] = file.content[n]])

Next ==
    \/ disas
    \/ \E omit, omitExtended \in BOOLEAN : as(omit, omitExtended)
    \/ Truncate \/ ChangeByte
    \/ LoseToken \/ RepeatToken \/ SwapTokens

Spec == Init /\ [][Next]_vars

-----------------------------------------------------------------------------
(* Properties.                                                             *)

MatchingImm(a, b, x, y) ==
    CASE x.op \in {"block", "loop", "if", "try"} -> BlockType(a, x.imm) = BlockType(b, y.imm)
      [] x.op = "call_indirect" -> /\ a.types[x.imm[1] + 1] = b.types[y.imm[1] + 1]
                                   /\ x.imm[2] = y.imm[2]
      [] OTHER -> x.imm = y.imm

MatchingFunctions(a, b) ==
    LET f == a.functions
        g == b.functions
        Types(m, s) == [i \in DOMAIN s |-> m.types[s[i].type + 1]]
        Names(s) == [i \in DOMAIN s |-> <<s[i].moduleName, s[i].exportName>>]
    IN  /\ Types(a, f.imports) = Types(b, g.imports)
        /\ Names(f.imports) = Names(g.imports)
        /\ Types(a, f.defs) = Types(b, g.defs)
        /\ \A i \in DOMAIN f.defs :
            LET x == f.defs[i]
                y == g.defs[i]
            IN  /\ x.locals = y.locals
                /\ Len(x.code) = Len(y.code)
                /\ \A j \in DOMAIN x.code :
                    /\ x.code[j].op = y.code[j].op
                    /\ MatchingImm(a, b, x.code[j], y.code[j])

\* ModuleMatcher of the fuzzers, but passive segments are compared too.
Matches(a, b) ==
    LET Elems(m) == [i \in DOMAIN m.elemSegments |->
                        LET s == m.elemSegments[i]
                        IN  <<s.isActive, s.tableIndex, s.baseOffset,
                              [j \in DOMAIN s.elems |->
                                IF s.elems[j][1] = "ref_null" THEN <<"ref_null">>
                                ELSE s.elems[j]]>>]
    IN  /\ \A field \in {"imports", "exports", "tables", "memories", "globals",
                         "exceptionTypes", "dataSegments", "startFunctionIndex"} :
                a[field] = b[field]
        /\ Elems(a) = Elems(b)
        /\ MatchingFunctions(a, b)


\* A module that loadBinaryModule or parseModule accepts is valid as a whole,
\* its function bodies included, although the binary reader validates section
\* by section and the parser validates bodies operator by operator, replacing
\* the ones it rejects, before the other declarations.
AcceptedIsValid ==
    got # <<>> => /\ validatePreCodeSections(got[1])
                  /\ validatePostCodeSections(got[1])
                  /\ ForAll(got[1].functions.defs, LAMBDA def : validCode(got[1], def))

\* Once a module has been printed, assembling and printing it again gives the
\* same text: the unique names that the printer makes up and the names that
\* the "name" section carries do not drift.
DisassemblyIsStable ==
    \A i \in DOMAIN texts : texts[i] = texts[1]


\* A module that cannot be parsed is reported as parseModule's declaration says,
\* by a list of errors: no other exception leaves the parser.
FailuresAreReported ==
    outcome # "escaped"
=============================================================================
