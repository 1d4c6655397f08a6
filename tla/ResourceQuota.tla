--------------------------- MODULE ResourceQuota ---------------------------
(***************************************************************************)
(* ResourceQuota::CurrentAndMax: a counter of what has been allocated and  *)
(* a limit that can be changed at any time.  Every operation holds the     *)
(* counter's mutex from its first line to its last, so it is one step.     *)
(* Values are machine words: additions wrap at Modulus.                    *)
(***************************************************************************)
EXTENDS Naturals

CONSTANT
    Modulus     \* 2^64 in the program: one more than UINTPTR_MAX

ASSUME ModulusAssumption == Modulus \in Nat \ {0}

Words == 0 .. Modulus - 1

Quota == [current : Words, max : Words]

\* A quota that was never given a limit has the largest word as its limit.
Unlimited == [current |-> 0, max |-> Modulus - 1]

canAllocate(q, delta) ==
    /\ (q.current + delta) % Modulus >= q.current
    /\ (q.current + delta) % Modulus <= q.max

charge(q, delta) == [q EXCEPT !.current = (q.current + delta) % Modulus]

\* Forgetting to give the quota back.
free_Nothing(q, delta) == q

free(q, delta) == [q EXCEPT !.current = (q.current + Modulus - delta) % Modulus]

setMax(q, newMax) == [q EXCEPT !.max = newMax]
=============================================================================
