----------------------------- MODULE MCAtomics -----------------------------
(* Instances of Atomics for TLC.                                           *)
EXTENDS Atomics, TLC

CONSTANTS t1, t2, t3, l1, l2, l3, l4, a1, a2

TwoThreads == {t1, t2}
ThreeThreads == {t1, t2, t3}
ThreeLists == {l1, l2, l3}
FourLists == {l1, l2, l3, l4}

SymmetryThree == Permutations(ThreeThreads) \union Permutations(FourLists)
=============================================================================
