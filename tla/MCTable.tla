------------------------------ MODULE MCTable ------------------------------
(* An instance of Table for TLC.  The callers follow one of two profiles:  *)
(* two threads create, clone, grow and fill tables, or a single thread     *)
(* copies and initializes ranges of every position and length.             *)
EXTENDS Table, TLC

CONSTANTS t1, t2, tb1, tb2, f, g

VARIABLE profile    \* which calls the threads make; never changes

TwoThreads == {t1, t2}
TwoTables == {tb1, tb2}
FunctionAndNull == <<g, Null>>

MaxThree == [tb \in Tables |-> 3]
MinOne == [tb \in Tables |-> 1]
Huge == Modulus - 1
SmallAndHuge == {0, 1, 2, Huge}

MCInit == Init /\ profile \in {"growth", "copy"}

Growing(t) ==
    /\ op'[t] \in {"none", "create", "clone", "grow", "fill"}
    /\ args'[t].destOffset < 2 /\ args'[t].count < 2

Copying(t) ==
    /\ t # t1 => pc'[t] = "idle"
    /\ op'[t] # "clone"
    /\ op'[t] = "fill" => args'[t].count = 1

MCNext ==
    /\ Next
    /\ \A t \in Threads : IF profile = "growth" THEN Growing(t) ELSE Copying(t)
    /\ profile = "growth" => segmentDropped' = segmentDropped
    /\ profile = "copy" => quota'.max = quota.max
    /\ UNCHANGED profile

MCSpec == MCInit /\ [][MCNext]_<<vars, profile>>

\* With no other thread writing, table.copy leaves in the destination what the
\* source held when it began, overlapping ranges included (Table.cpp:555-577).
CopyMovesAll == profile = "copy" => CopiesAll
=============================================================================
