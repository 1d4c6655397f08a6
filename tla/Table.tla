-------------------------------- MODULE Table --------------------------------
(***************************************************************************)
(* WebAssembly tables (Lib/Runtime/Table.cpp).  A table reserves address   *)
(* space for every possible index and has no bounds check: its pages are   *)
(* committed as it grows, an untouched element reads as zero, and zero is  *)
(* the bias of the out-of-bounds sentinel.  Growing is serialised by the   *)
(* table's resizingMutex and charged to a resource quota; reading and      *)
(* writing elements takes no lock.                                         *)
(***************************************************************************)
EXTENDS ResourceQuota, Integers, Sequences, FiniteSetsExt, Functions

CONSTANTS
    Threads,        \* threads that run WebAssembly code or call the C++ API
    Tables,         \* the tables that can exist
    TypeMax,        \* type.size.max of each table
    TypeMin,        \* type.size.min of each table
    MaxTableElems,  \* IR::maxTableElems
    Reserved,       \* numReservedElements: indices with an address
    ElemsPerPage,   \* table elements on one platform page
    Objects,        \* objects a table element can refer to
    OutOfBounds,    \* getOutOfBoundsElement(), the element whose bias is zero
    Uninitialized,  \* getUninitializedElement()
    Null,           \* a null Object*
    Segment,        \* the elements of a passive elem segment, Null among them
    InitialElements,\* what a caller of growTable passes as initialElement
    Deltas,         \* the numbers of elements callers ask for
    HasQuota,       \* whether creators pass a ResourceQuota: a set of Booleans
    Limits,         \* the limits a caller may set on the quota
    Operations,     \* the operations callers use
    Offsets, Counts,\* bounds: where loops over elements start, how many they handle
    MaxCalls,       \* bound: the calls that are started
    None            \* no thread, no table

ASSUME TablesAssumption ==
    /\ None \notin Threads \cup Tables
    /\ TypeMax \in [Tables -> Nat] /\ TypeMin \in [Tables -> Nat]
    /\ MaxTableElems \in Nat /\ MaxTableElems < Modulus
    /\ Reserved \in Nat /\ MaxTableElems <= Reserved
    /\ ElemsPerPage \in Nat \ {0}
    /\ Deltas \subseteq Words /\ Limits \subseteq Words /\ HasQuota \subseteq BOOLEAN
    /\ \A tb \in Tables : TypeMin[tb] \in Words
    /\ IsFiniteSet(Threads) /\ IsFiniteSet(Tables)
    /\ Offsets \subseteq Nat /\ Counts \subseteq Nat /\ MaxCalls \in Nat

ASSUME SentinelsAssumption ==
    /\ OutOfBounds \notin Objects \cup {Uninitialized, Null}
    /\ InitialElements \subseteq Objects \cup {Uninitialized, Null}
    /\ Segment \in Seq(Objects \cup {Null})

VARIABLES
    state,          \* of each table: absent, creating (no id yet) or live
    numElements,    \* numElements of each table
    committed,      \* platform pages committed for each table
    elements,       \* the object each index of each table refers to
    resizingMutex,  \* the thread that holds each table's resizingMutex
    resourceQuota,  \* whether each table has a ResourceQuota
    quota,          \* the ResourceQuota's tableElems, shared by those tables
    segmentDropped, \* the passive segment has been dropped by elem.drop
    pc,             \* where each thread is
    table,          \* the table each thread's call works on
    delta,          \* numElementsToGrow of each thread's growTableImpl
    old,            \* oldNumElements of each thread's growTableImpl
    next,           \* elementIndex / index of the loop each thread is in
    op,             \* the call each thread is in
    source,         \* the table each thread clones, or copies from
    args,           \* the other arguments of each thread's call
    oldValue,       \* oldBiasedValue of each thread's compare-exchange loop
    newValue,       \* biasedValue each thread is about to store
    returned,       \* what each thread's last call returned
    calls           \* how many calls have been started

vars == <<state, numElements, committed, elements, resizingMutex,
          resourceQuota, quota, segmentDropped, pc, table, delta, old, next,
          op, source, args, oldValue, newValue, returned, calls>>

tableVars  == <<state, numElements, committed, elements, resizingMutex, resourceQuota>>
callVars   == <<op, source, args>>
threadVars == <<table, delta, old, next, callVars>>
valueVars  == <<oldValue, newValue>>
-----------------------------------------------------------------------------
Elements == Objects \cup {OutOfBounds, Uninitialized, Null}
Indices  == 0 .. Reserved - 1
Failed   == -1          \* a null pointer, false, or a thrown exception
Pending  == -2

NoArgs == [init |-> Uninitialized, destOffset |-> 0, sourceOffset |-> 0, count |-> 0,
           before |-> <<>>]    \* before: what table.copy's source held at the start

getNumPlatformPages(n) == (n + ElemsPerPage - 1) \div ElemsPerPage

\* The index has an address, and the page at that address is committed: a read
\* neither throws at the bounds test nor raises an access violation.
IsAccessible(tb, i) ==
    /\ i < Reserved
    /\ i < committed[tb] * ElemsPerPage

\* getTableElementNonNull returns an object instead of throwing.
IsInBounds(tb, i) ==
    /\ IsAccessible(tb, i)
    /\ elements[tb][i] # OutOfBounds
-----------------------------------------------------------------------------
Init ==
    /\ state = [tb \in Tables |-> "absent"]
    /\ numElements = [tb \in Tables |-> 0]
    /\ committed = [tb \in Tables |-> 0]
    /\ elements = [tb \in Tables |-> [i \in Indices |-> OutOfBounds]]
    /\ resizingMutex = [tb \in Tables |-> None]
    /\ resourceQuota = [tb \in Tables |-> FALSE]
    /\ quota = Unlimited
    /\ segmentDropped = FALSE
    /\ pc = [t \in Threads |-> "idle"]
    /\ table = [t \in Threads |-> None]
    /\ delta = [t \in Threads |-> 0]
    /\ old = [t \in Threads |-> 0]
    /\ next = [t \in Threads |-> 0]
    /\ op = [t \in Threads |-> "none"]
    /\ source = [t \in Threads |-> None]
    /\ args = [t \in Threads |-> NoArgs]
    /\ oldValue = [t \in Threads |-> OutOfBounds]
    /\ newValue = [t \in Threads |-> OutOfBounds]
    /\ returned = [t \in Threads |-> Failed]
    /\ calls = 0

\* A thread enters an operation on table tb.
Enter(t, tb, what, from, a, n, where) ==
    /\ pc[t] = "idle"
    /\ calls < MaxCalls
    /\ calls' = calls + 1
    /\ pc' = [pc EXCEPT ![t] = where]
    /\ table' = [table EXCEPT ![t] = tb]
    /\ delta' = [delta EXCEPT ![t] = n]
    /\ next' = [next EXCEPT ![t] = 0]
    /\ op' = [op EXCEPT ![t] = what]
    /\ source' = [source EXCEPT ![t] = from]
    /\ args' = [args EXCEPT ![t] = a]
    /\ returned' = [returned EXCEPT ![t] = Pending]
    /\ UNCHANGED old

\* A step inside a call; Goto if it also leaves the locals alone.
MoveTo(t, where) ==
    /\ pc' = [pc EXCEPT ![t] = where]
    /\ UNCHANGED returned

Goto(t, where) == MoveTo(t, where) /\ UNCHANGED threadVars

\* The call returns, or throws, and its locals are gone.
Return(t, value) ==
    /\ pc' = [pc EXCEPT ![t] = "idle"]
    /\ returned' = [returned EXCEPT ![t] = value]
    /\ table' = [table EXCEPT ![t] = None]
    /\ delta' = [delta EXCEPT ![t] = 0]
    /\ old' = [old EXCEPT ![t] = 0]
    /\ next' = [next EXCEPT ![t] = 0]
    /\ op' = [op EXCEPT ![t] = "none"]
    /\ source' = [source EXCEPT ![t] = None]
    /\ args' = [args EXCEPT ![t] = NoArgs]

\* A thread's call works on the table, or copies from it.
InUse(tb) ==
    \E t \in Threads :
        /\ pc[t] # "idle"
        /\ tb \in {table[t], source[t]}

\* What the quota is after a charge, or a refund of n elements of table tb.
Charged(t) == IF resourceQuota[table[t]] THEN charge(quota, delta[t]) ELSE quota
Refunded(tb, n) == IF resourceQuota[tb] THEN free(quota, n) ELSE quota

\* ~Table: what is left of the table after its pages and quota are freed.
Destroy(tb) ==
    /\ state' = [state EXCEPT ![tb] = "absent"]
    /\ numElements' = [numElements EXCEPT ![tb] = 0]
    /\ committed' = [committed EXCEPT ![tb] = 0]
    /\ elements' = [elements EXCEPT ![tb] = [i \in Indices |-> OutOfBounds]]
    /\ resourceQuota' = [resourceQuota EXCEPT ![tb] = FALSE]
    /\ quota' = Refunded(tb, numElements[tb])
-----------------------------------------------------------------------------
(* growTableImpl, on behalf of growTable, createTable or cloneTable.        *)

GrowTable(t, tb, n, init) ==
    /\ state[tb] = "live"
    /\ Enter(t, tb, "grow", None, [NoArgs EXCEPT !.init = init], n, "grow")
    /\ UNCHANGED <<tableVars, quota, segmentDropped, valueVars>>

\* growTableImpl returns true: what its caller does next.
GrowReturns(t, oldNumElements) ==
    CASE op[t] = "grow"   -> Return(t, oldNumElements)
      [] op[t] = "create" -> Goto(t, "add")
      [] op[t] = "clone"  -> /\ MoveTo(t, "copy")
                             /\ next' = [next EXCEPT ![t] = 0]
                             /\ UNCHANGED <<table, delta, old, callVars>>

\* Nothing to grow: only the size is read.
GrowByZero(t) ==
    /\ pc[t] = "grow" /\ delta[t] = 0
    /\ GrowReturns(t, numElements[table[t]])
    /\ UNCHANGED <<tableVars, quota, segmentDropped, valueVars, calls>>

\* The quota is charged before the mutex is taken.
ChargeQuota(t) ==
    /\ pc[t] = "grow" /\ delta[t] # 0
    /\ IF ~ resourceQuota[table[t]] \/ canAllocate(quota, delta[t])
       THEN quota' = Charged(t) /\ Goto(t, "lock")
       ELSE UNCHANGED quota /\ Goto(t, "failed")
    /\ UNCHANGED <<tableVars, segmentDropped, valueVars, calls>>

Acquire_Unlocked(t, tb) == UNCHANGED resizingMutex

Acquire(t, tb) ==
    /\ resizingMutex[tb] = None
    /\ resizingMutex' = [resizingMutex EXCEPT ![tb] = t]

Release(t, tb) ==
    resizingMutex' = [resizingMutex EXCEPT ![tb] = IF @ = t THEN None ELSE @]

LockResizing(t) ==
    /\ pc[t] = "lock"
    /\ Acquire(t, table[t])
    /\ old' = [old EXCEPT ![t] = numElements[table[t]]]
    /\ MoveTo(t, "check")
    /\ UNCHANGED <<state, numElements, committed, elements, quota,
                   resourceQuota, segmentDropped, table, delta, next, callVars, valueVars, calls>>

Fits(n, oldNumElements, max) ==
    n <= max /\ oldNumElements <= max - n

\* The growth exceeds a limit, or its pages cannot be committed: the charge is
\* given back.  The second can happen only if there are pages to commit.
AbortGrowth(t) ==
    /\ pc[t] = "check"
    /\ \/ ~ Fits(delta[t], old[t], TypeMax[table[t]])
       \/ ~ Fits(delta[t], old[t], MaxTableElems)
       \/ getNumPlatformPages(old[t] + delta[t]) # getNumPlatformPages(old[t])
    /\ quota' = Refunded(table[t], delta[t])
    /\ Release(t, table[t])
    /\ Goto(t, "failed")
    /\ UNCHANGED <<state, numElements, committed, elements, resourceQuota, segmentDropped, valueVars, calls>>

CommitPages(t) ==
    LET newNumElements == old[t] + delta[t] IN
    /\ pc[t] = "check"
    /\ Fits(delta[t], old[t], TypeMax[table[t]])
    /\ Fits(delta[t], old[t], MaxTableElems)
    /\ committed' = [committed EXCEPT ![table[t]] = getNumPlatformPages(newNumElements)]
    /\ next' = [next EXCEPT ![t] = IF op[t] = "clone" THEN newNumElements ELSE old[t]]
    /\ MoveTo(t, "initialize")
    /\ UNCHANGED <<state, numElements, elements, resizingMutex, quota,
                   resourceQuota, segmentDropped, table, delta, old, callVars, valueVars, calls>>

\* One iteration of the loop that writes initialElement to the new elements.
InitializeElement(t) ==
    /\ pc[t] = "initialize"
    /\ next[t] < old[t] + delta[t]
    /\ elements' = [elements EXCEPT ![table[t]][next[t]] = args[t].init]
    /\ next' = [next EXCEPT ![t] = @ + 1]
    /\ UNCHANGED <<state, numElements, committed, resizingMutex, quota,
                   resourceQuota, segmentDropped, pc, returned, table, delta, old, callVars,
                   valueVars, calls>>

\* Publishing the size before the new elements are initialized.
InitializationDone_Early(t) == TRUE

InitializationDone(t) == next[t] = old[t] + delta[t]

PublishSize(t) ==
    /\ pc[t] = "initialize"
    /\ InitializationDone(t)
    /\ numElements' = [numElements EXCEPT ![table[t]] = old[t] + delta[t]]
    /\ Release(t, table[t])
    /\ GrowReturns(t, old[t])
    /\ UNCHANGED <<state, committed, elements, quota, resourceQuota, segmentDropped,
                   valueVars, calls>>

\* growTableImpl returned false: growTable returns false, createTable and
\* cloneTable delete the new table (cloneTable also leaves the original's lock).
GrowFailed(t) ==
    /\ pc[t] = "failed"
    /\ Return(t, Failed)
    /\ IF op[t] = "grow"
       THEN UNCHANGED <<tableVars, quota>>
       ELSE /\ Destroy(table[t])
            /\ IF op[t] = "clone"
               THEN Release(t, source[t])
               ELSE UNCHANGED resizingMutex
    /\ UNCHANGED <<segmentDropped, valueVars, calls>>
-----------------------------------------------------------------------------
(* createTable, cloneTable and ~Table.                                      *)

\* createTableImpl finds address space for the table.
CreateTable(t, tb, init, hasQuota) ==
    /\ state[tb] = "absent" /\ ~ InUse(tb)
    /\ Enter(t, tb, "create", None, [NoArgs EXCEPT !.init = init], TypeMin[tb], "grow")
    /\ state' = [state EXCEPT ![tb] = "creating"]
    /\ resourceQuota' = [resourceQuota EXCEPT ![tb] = hasQuota]
    /\ UNCHANGED <<numElements, committed, elements, resizingMutex, quota,
                   segmentDropped, valueVars>>

\* The new table gets its id in the compartment.
AddToCompartment(t) ==
    /\ pc[t] = "add"
    /\ state' = [state EXCEPT ![table[t]] = "live"]
    /\ Return(t, 0)
    /\ UNCHANGED <<numElements, committed, elements, resizingMutex, quota,
                   resourceQuota, segmentDropped, valueVars, calls>>

\* cloneTable holds the original's resizingMutex until the copy is complete.
CloneTable(t, original, tb) ==
    /\ state[original] = "live"
    /\ state[tb] = "absent" /\ ~ InUse(tb)
    /\ TypeMax[tb] = TypeMax[original]
    /\ Acquire(t, original)
    /\ Enter(t, tb, "clone", original, NoArgs, numElements[original], "grow")
    /\ state' = [state EXCEPT ![tb] = "creating"]
    /\ resourceQuota' = [resourceQuota EXCEPT ![tb] = resourceQuota[original]]
    /\ UNCHANGED <<numElements, committed, elements, quota, segmentDropped, valueVars>>

\* One iteration of the loop that copies the original's elements.
CopyElement(t) ==
    /\ pc[t] = "copy"
    /\ next[t] < delta[t]
    /\ elements' = [elements EXCEPT ![table[t]][next[t]] =
                        elements[source[t]][next[t]]]
    /\ next' = [next EXCEPT ![t] = @ + 1]
    /\ UNCHANGED <<state, numElements, committed, resizingMutex, quota,
                   resourceQuota, segmentDropped, pc, returned, table, delta, old, callVars,
                   valueVars, calls>>

FinishClone(t) ==
    /\ pc[t] = "copy"
    /\ next[t] = delta[t]
    /\ Release(t, source[t])
    /\ Goto(t, "add")
    /\ UNCHANGED <<state, numElements, committed, elements, quota,
                   resourceQuota, segmentDropped, valueVars, calls>>

\* allocateVirtualPages fails: createTable or cloneTable returns null.
ReserveFails(t, tb) ==
    /\ state[tb] = "absent" /\ ~ InUse(tb)
    /\ pc[t] = "idle" /\ calls < MaxCalls
    /\ calls' = calls + 1
    /\ Return(t, Failed)
    /\ UNCHANGED <<tableVars, quota, segmentDropped, valueVars>>

\* The garbage collector deletes a table that no running call can refer to.
DeleteTable(tb) ==
    /\ state[tb] = "live" /\ ~ InUse(tb)
    /\ Destroy(tb)
    /\ UNCHANGED <<resizingMutex, segmentDropped, pc, returned, threadVars,
                   valueVars, calls>>

SetQuotaMax(newMax) ==
    /\ quota.max # newMax
    /\ quota' = setMax(quota, newMax)
    /\ UNCHANGED <<tableVars, segmentDropped, pc, returned, threadVars,
                   valueVars, calls>>
-----------------------------------------------------------------------------
(* Writing elements: table.set, table.fill, table.copy and table.init are   *)
(* loops around setTableElementNonNull.                                     *)

\* table.fill, and table.set as a fill of one element.
TableFill(t, tb, destOffset, n, value) ==
    /\ state[tb] = "live"
    /\ Enter(t, tb, "fill", None,
             [NoArgs EXCEPT !.destOffset = destOffset, !.count = n, !.init = value],
             0, "element")
    /\ UNCHANGED <<tableVars, quota, segmentDropped, valueVars>>

TableCopy(t, dest, destOffset, from, sourceOffset, n) ==
    /\ state[dest] = "live" /\ state[from] = "live"
    /\ Enter(t, dest, "copy", from,
             [NoArgs EXCEPT !.destOffset = destOffset, !.sourceOffset = sourceOffset,
                            !.count = n, !.before = elements[from]],
             0, "element")
    /\ UNCHANGED <<tableVars, quota, segmentDropped, valueVars>>

\* table.init copies the pointer to the segment's elements before it unlocks.
TableInit(t, tb, destOffset, sourceOffset, n) ==
    /\ state[tb] = "live"
    /\ ~ segmentDropped
    /\ Enter(t, tb, "init", None,
             [NoArgs EXCEPT !.destOffset = destOffset, !.sourceOffset = sourceOffset,
                            !.count = n],
             0, "element")
    /\ UNCHANGED <<tableVars, quota, segmentDropped, valueVars>>

ElemDrop ==
    /\ ~ segmentDropped
    /\ segmentDropped' = TRUE
    /\ UNCHANGED <<tableVars, quota, pc, returned, threadVars, valueVars, calls>>

\* Always copying in ascending order.
Step_Ascending(t, k) == k

\* The k-th element a loop handles: table.copy runs downwards when the
\* destination is above the source.
Step(t, k) ==
    IF op[t] = "copy" /\ args[t].sourceOffset < args[t].destOffset
    THEN args[t].count - k - 1 ELSE k

\* The value the loop is about to store can be read, and what it is.
SourceInBounds(t, k) ==
    CASE op[t] = "copy" -> IsInBounds(source[t], args[t].sourceOffset + Step(t, k))
      [] op[t] = "init" -> args[t].sourceOffset + k < Len(Segment)
      [] OTHER -> TRUE

SourceValue(t, k) ==
    CASE op[t] = "copy" -> elements[source[t]][args[t].sourceOffset + Step(t, k)]
      [] op[t] = "init" -> IF Segment[args[t].sourceOffset + k + 1] = Null
                           THEN Uninitialized
                           ELSE Segment[args[t].sourceOffset + k + 1]
      [] OTHER -> args[t].init

DestIndex(t) == args[t].destOffset + Step(t, next[t])

\* setTableElementNonNull reads the element it will replace; an element that is
\* out of bounds, or not readable, throws before anything is written.
LoadElement(t) ==
    /\ pc[t] = "element"
    /\ next[t] < args[t].count
    /\ SourceInBounds(t, next[t])
    /\ IsInBounds(table[t], DestIndex(t))
    /\ newValue' = [newValue EXCEPT ![t] = SourceValue(t, next[t])]
    /\ oldValue' = [oldValue EXCEPT ![t] = elements[table[t]][DestIndex(t)]]
    /\ Goto(t, "exchange")
    /\ UNCHANGED <<tableVars, quota, segmentDropped, calls>>

Throw(t) ==
    /\ pc[t] = "element"
    /\ next[t] < args[t].count
    /\ ~ (/\ SourceInBounds(t, next[t])
          /\ IsInBounds(table[t], DestIndex(t)))
    /\ Return(t, Failed)
    /\ UNCHANGED <<tableVars, quota, segmentDropped, valueVars, calls>>

\* compare_exchange_weak: the store happens only if the element is still the one
\* that was read; otherwise it is read again.  (A spurious failure reads the same.)
CompareExchange(t) ==
    /\ pc[t] = "exchange"
    /\ LET current == elements[table[t]][DestIndex(t)] IN
       IF current = oldValue[t]
       THEN /\ elements' = [elements EXCEPT ![table[t]][DestIndex(t)] = newValue[t]]
            /\ next' = [next EXCEPT ![t] = @ + 1]
            /\ MoveTo(t, "element")
            /\ oldValue' = [oldValue EXCEPT ![t] = OutOfBounds]
            /\ newValue' = [newValue EXCEPT ![t] = OutOfBounds]
       ELSE /\ oldValue' = [oldValue EXCEPT ![t] = current]
            /\ UNCHANGED <<elements, next, pc, returned, newValue>>
    /\ UNCHANGED <<state, numElements, committed, resizingMutex, quota,
                   resourceQuota, segmentDropped, table, delta, old, callVars, calls>>

FinishWrite(t) ==
    /\ pc[t] = "element"
    /\ next[t] = args[t].count
    /\ Return(t, Failed)
    /\ UNCHANGED <<tableVars, quota, segmentDropped, valueVars, calls>>
-----------------------------------------------------------------------------
\* The steps of a call that has started.
Progress(t) ==
    \/ GrowByZero(t) \/ ChargeQuota(t) \/ LockResizing(t)
    \/ AbortGrowth(t) \/ CommitPages(t) \/ InitializeElement(t)
    \/ PublishSize(t) \/ GrowFailed(t)
    \/ AddToCompartment(t) \/ CopyElement(t) \/ FinishClone(t)
    \/ LoadElement(t) \/ Throw(t) \/ CompareExchange(t) \/ FinishWrite(t)

\* The calls a thread can make on tables.
Call(t) ==
    \E tb \in Tables :
        \/ "create" \in Operations /\ ReserveFails(t, tb)
        \/ "create" \in Operations /\ \E init \in InitialElements \ {Null}, hasQuota \in HasQuota :
              CreateTable(t, tb, init, hasQuota)
        \/ "clone" \in Operations /\ \E original \in Tables : CloneTable(t, original, tb)
        \/ "grow" \in Operations /\ \E n \in Deltas, init \in InitialElements :
              GrowTable(t, tb, n, init)
        \/ "fill" \in Operations /\ \E i \in Offsets, n \in Counts, value \in Objects :
              TableFill(t, tb, i, n, value)
        \/ "copy" \in Operations /\ \E from \in Tables, i, j \in Offsets, n \in Counts :
              TableCopy(t, tb, i, from, j, n)
        \/ "init" \in Operations /\ \E i, j \in Offsets, n \in Counts :
              TableInit(t, tb, i, j, n)

Next ==
    \/ \E t \in Threads : Call(t) \/ Progress(t)
    \/ \E tb \in Tables : DeleteTable(tb)
    \/ \E newMax \in Limits : SetQuotaMax(newMax)
    \/ "init" \in Operations /\ ElemDrop

Spec == Init /\ [][Next]_vars

-----------------------------------------------------------------------------
(* Properties.                                                              *)

PCs == {"idle", "grow", "lock", "check", "initialize", "failed", "add",
        "copy", "element", "exchange"}

Arguments ==
    [init : Elements \ {OutOfBounds}, destOffset : Nat, sourceOffset : Nat, count : Nat,
     before : [Indices -> Elements] \cup {<<>>}]

\* Every variable stays in its set: in particular sizes and charges are machine
\* words, and a call never works on a table that does not exist.
TypeOK ==
    /\ state \in [Tables -> {"absent", "creating", "live"}]
    /\ numElements \in [Tables -> 0 .. Reserved]
    /\ committed \in [Tables -> Nat]
    /\ elements \in [Tables -> [Indices -> Elements]]
    /\ resizingMutex \in [Tables -> Threads \cup {None}]
    /\ resourceQuota \in [Tables -> BOOLEAN]
    /\ quota \in Quota
    /\ segmentDropped \in BOOLEAN
    /\ pc \in [Threads -> PCs]
    /\ table \in [Threads -> Tables \cup {None}]
    /\ delta \in [Threads -> Words]
    /\ old \in [Threads -> Nat]
    /\ next \in [Threads -> Nat]
    /\ op \in [Threads -> {"none", "create", "clone", "grow", "fill", "copy", "init"}]
    /\ source \in [Threads -> Tables \cup {None}]
    /\ args \in [Threads -> Arguments]
    /\ returned \in [Threads -> Int]
    /\ oldValue \in [Threads -> Elements]
    /\ newValue \in [Threads -> Elements]
    /\ calls \in 0 .. MaxCalls
    /\ \A t \in Threads : pc[t] # "idle" => table[t] \in Tables

ChargedNotPublished(t) ==
    IF pc[t] \in {"lock", "check", "initialize"} /\ resourceQuota[table[t]]
    THEN delta[t] ELSE 0

ElementsCharged(tb) == IF resourceQuota[tb] THEN numElements[tb] ELSE 0

\* Comparing an element with the out-of-bounds sentinel is a bounds check: an
\* index below the size a table publishes is always readable and initialized, and,
\* once no growth is writing to the table, an index at or above it never is (the
\* elements are initialized before numElements is stored, Table.cpp:145-157).
SizeIsExact ==
    \A tb \in Tables, i \in Indices :
        state[tb] = "live" =>
            /\ i < numElements[tb] => IsInBounds(tb, i)
            /\ IsInBounds(tb, i) /\ i >= numElements[tb] =>
                  \E t \in Threads : pc[t] = "initialize" /\ table[t] = tb

\* The quota is charged with exactly the elements of the existing tables and of the
\* growths under way: every failure path gives back what it took, and deleting a
\* table gives back all its growths (Table.cpp:113, 126, 141, 281).
QuotaIsExact ==
    quota.current =
        SumFunctionOnSet([tb \in Tables |-> ElementsCharged(tb)], Tables)
      + SumFunctionOnSet([t \in Threads |-> ChargedNotPublished(t)], Threads)

\* A growth initializes only elements that nobody could have written yet: an
\* element that can be accessed changes only by the compare-exchange of a writer
\* that saw its present value, or with the table's deletion (Table.cpp:150-154
\* against 320-328).  So a write that succeeded is never undone by a growth.
WritesAreNotLost ==
    [][\A tb \in Tables, i \in Indices :
         /\ elements[tb][i] # OutOfBounds
         /\ elements'[tb][i] # elements[tb][i]
         => \/ state'[tb] = "absent"
            \/ \E t \in Threads :
                  /\ pc[t] = "exchange" /\ table[t] = tb
                  /\ DestIndex(t) = i /\ oldValue[t] = elements[tb][i]]_vars

\* A growth, seen by other threads, is one atomic step with the result of a
\* sequential growth: see Growable.
G == INSTANCE Growable WITH
        Items <- Tables,
        Limit <- [tb \in Tables |-> Min({TypeMax[tb], MaxTableElems})],
        Gone <- -1,
        size <- [tb \in Tables |->
                    IF state[tb] = "live" THEN numElements[tb] ELSE -1]


\* A copy that is complete has left in the destination what the source held when
\* it began.
CopiesAll ==
    \A t \in Threads :
        pc[t] = "element" /\ op[t] = "copy" /\ next[t] = args[t].count =>
            \A k \in 0 .. args[t].count - 1 :
                elements[table[t]][args[t].destOffset + k] =
                    args[t].before[args[t].sourceOffset + k]

\* The assertion in getTableElementNonNull (Table.cpp:358): an element that is
\* in bounds is never a null pointer.
NoNullElement ==
    \A tb \in Tables, i \in Indices : elements[tb][i] # Null
=============================================================================
