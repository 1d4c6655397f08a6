------------------------------ MODULE IRTypes -------------------------------
(***************************************************************************)
(* The module and the types that the function validator and the function   *)
(* emitter share (Include/WAVM/IR/Types.h and Module.h).  IRModule is the  *)
(* decoded module; its sequences are indexed from 1 where the code's       *)
(* vectors are indexed from 0.                                             *)
(***************************************************************************)
EXTENDS Integers, Sequences, SequencesExt

CONSTANTS
    WordSize,       \* the number of values of an i32 (2^32 in the code)
    IRModule        \* [types, functions, exceptionTypes, globals, tables,
                    \*  memories (the isShared of each), numDataSegments,
                    \*  numElemSegments, features]

\* e, for the one value that its variable has in [x \in {value} |-> e]
With(binding) == binding[CHOOSE x \in DOMAIN binding : TRUE]

Features == IRModule.features

InRange(index, seq) == index + 1 \in DOMAIN seq

At0(seq, index) == seq[index + 1]

-----------------------------------------------------------------------------
(* Types.h: subtyping of operand types, and which types a module may name. *)

NumericTypes == {"i32", "i64", "f32", "f64", "v128"}

isSubtype(sub, super) ==
    \/ sub = super \/ sub = "none"
    \/ super = "any"
    \/ super = "anyref" /\ sub \in {"funcref", "nullref"}
    \/ super = "funcref" /\ sub = "nullref"

validType(type) ==
    \/ type \in NumericTypes \ {"v128"} /\ "mvp" \in Features
    \/ type = "v128" /\ "simd" \in Features
    \/ type \in {"anyref", "funcref"} /\ "referenceTypes" \in Features

\* An IndexedBlockType: no type, one result, or the index of a function type.
resolveBlockType(imm) ==
    CASE imm[1] = "void"  -> [params |-> <<>>, results |-> <<>>]
      [] imm[1] = "one"   -> [params |-> <<>>, results |-> <<imm[2]>>]
      [] imm[1] = "index" -> At0(IRModule.types, imm[2])
=============================================================================
