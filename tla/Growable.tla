------------------------------ MODULE Growable ------------------------------
(***************************************************************************)
(* What growMemory and growTable promise to the threads that share a       *)
(* memory or a table: an object has a size that never shrinks and never    *)
(* exceeds its limit, and growing it is one atomic step that either fails  *)
(* and changes nothing, or adds the requested amount and returns the size  *)
(* the object had at that moment.  Memory and Table are shown to implement *)
(* this specification.                                                     *)
(***************************************************************************)
EXTENDS Naturals

CONSTANTS Threads, Items, Limit, Gone, Failed, Pending

VARIABLES
    size,       \* the size of each object, Gone if it does not exist
    returned    \* what each thread's last call returned, Pending if it runs

vars == <<size, returned>>

Init ==
    /\ size = [o \in Items |-> Gone]
    /\ returned = [t \in Threads |-> Failed]

Exists(o) == size[o] # Gone

Start(t) ==
    /\ returned' = [returned EXCEPT ![t] = Pending]
    /\ UNCHANGED size

\* The object appears with a size within its limit.
Create(t, o) ==
    /\ returned[t] = Pending
    /\ ~ Exists(o)
    /\ \E n \in 0 .. Limit[o] : size' = [size EXCEPT ![o] = n]
    /\ returned' = [returned EXCEPT ![t] = 0]

\* One atomic growth; n may be zero, which only reads the size.
Grow(t, o) ==
    /\ returned[t] = Pending
    /\ Exists(o)
    /\ \E n \in size[o] .. Limit[o] : size' = [size EXCEPT ![o] = n]
    /\ returned' = [returned EXCEPT ![t] = size[o]]

\* Any other return: a failed growth or creation, or an access to elements.
Fail(t) ==
    /\ returned' = [returned EXCEPT ![t] = Failed]
    /\ UNCHANGED size

\* The deletion may be a call of some thread.
Delete(o) ==
    /\ Exists(o)
    /\ size' = [size EXCEPT ![o] = Gone]
    /\ \/ UNCHANGED returned
       \/ \E t \in Threads : returned' = [returned EXCEPT ![t] = Pending]

Next ==
    \/ \E t \in Threads :
          \/ Start(t)
          \/ Fail(t)
          \/ \E o \in Items : Create(t, o) \/ Grow(t, o)
    \/ \E o \in Items : Delete(o)

Spec == Init /\ [][Next]_vars
=============================================================================
