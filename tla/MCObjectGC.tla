----------------------------- MODULE MCObjectGC -----------------------------
(* Instances of ObjectGC for TLC.                                          *)
EXTENDS ObjectGC

CONSTANTS t1, t2, i1, i2, tb, m, g1, g2, k, c1, f1, f2

\* One module defines a table and a mutable global that starts as a function,
\* the other a memory, an immutable global that is a function, and a mutable
\* global that starts as null.
Owner == [f \in {f1, f2} |-> IF f = f1 THEN i1 ELSE i2]
Modules == [i \in {i1, i2} |-> IF i = i1 THEN <<tb, g1>> ELSE <<m, k, g2>>]
Enumeration == <<compartment, i1, i2, m, tb, g1, k, g2, c1>>
Imports == {{}, {f1}, {tb}}
OneThread == {t1}

\* Two modules that define a mutable global each.
TwoThreads == {t1, t2}
GlobalModules == [i \in {i1, i2} |-> IF i = i1 THEN <<g1>> ELSE <<g2>>]
GlobalEnumeration == <<compartment, i1, i2, g1, g2>>
NoImports == {{}}
=============================================================================
