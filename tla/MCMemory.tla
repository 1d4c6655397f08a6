------------------------------ MODULE MCMemory ------------------------------
(* Instances of Memory for TLC.                                            *)
EXTENDS Memory

CONSTANTS t1, t2, m1, m2, r1, r2

TwoThreads == {t1, t2}
TwoMemories == {m1, m2}
TwoRegions == {r1, r2}

MaxThree == [m \in Memories |-> 3]
MinZeroAndOne == [m \in Memories |-> IF m = m1 THEN 0 ELSE 1]
OneAndHuge == {1, Modulus - 1}
=============================================================================
