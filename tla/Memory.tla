------------------------------- MODULE Memory -------------------------------
(***************************************************************************)
(* WebAssembly linear memories (Lib/Runtime/Memory.cpp).  A memory         *)
(* reserves a region of address space that no access can leave; its pages  *)
(* are committed as it grows, and an access to any other page of the       *)
(* region raises an access violation, which is attributed to the memory by *)
(* searching the global list of memories.  Growing is serialised by        *)
(* resizingMutex and charged to a resource quota.                          *)
(***************************************************************************)
EXTENDS ResourceQuota, Integers, FiniteSetsExt, Functions

CONSTANTS
    Threads,        \* threads that run WebAssembly code or call the C++ API
    Memories,       \* the memories that can exist
    Regions,        \* regions of address space large enough for a memory
    TypeMin,        \* type.size.min of each memory
    TypeMax,        \* type.size.max of each memory
    MaxMemoryPages, \* IR::maxMemoryPages
    Reserved,       \* WebAssembly pages in a memory's reserved region
    Deltas,         \* the numbers of pages callers ask for
    HasQuota,       \* whether creators pass a ResourceQuota: a set of Booleans
    Limits,         \* the limits a caller may set on the quota
    UnmapRanges,    \* the page ranges callers pass to unmapMemoryPages
    MaxCalls,       \* bound: the calls that are started
    None            \* no thread, no memory; as a region: the null address

ASSUME MemoriesAssumption ==
    /\ None \notin Threads \cup Memories \cup Regions
    /\ MaxMemoryPages \in Nat /\ MaxMemoryPages < Modulus
    /\ Reserved \in Nat /\ MaxMemoryPages <= Reserved
    /\ TypeMin \in [Memories -> Words] /\ TypeMax \in [Memories -> Nat]
    /\ Deltas \subseteq Words /\ Limits \subseteq Words /\ HasQuota \subseteq BOOLEAN
    /\ UnmapRanges \subseteq SUBSET (0 .. Reserved - 1)
    /\ IsFiniteSet(Threads) /\ IsFiniteSet(Memories) /\ MaxCalls \in Nat

VARIABLES
    state,          \* of each memory: absent, creating, live or deleting
    baseAddress,    \* the region each memory has reserved
    reservedRegions,\* the regions allocateVirtualPages has handed out
    memories,       \* the memories in the global list
    numPages,       \* numPages of each memory
    committed,      \* the committed pages of each region
    unmapped,       \* pages callers have unmapped from each memory
    resizingMutex,  \* the thread that holds each memory's resizingMutex
    resourceQuota,  \* whether each memory has a ResourceQuota
    quota,          \* the ResourceQuota's memoryPages, shared by those memories
    badFree,        \* freeVirtualPages was given an address nobody reserved
    pc,             \* where each thread is
    memory,         \* the memory each thread's call works on
    delta,          \* numPagesToGrow of each thread's growMemory
    old,            \* oldNumPages of each thread's growMemory
    op,             \* the call each thread is in
    source,         \* the memory each thread is cloning
    returned,       \* what each thread's last call returned
    calls           \* how many calls have been started

addressVars == <<baseAddress, reservedRegions, memories, badFree>>
sizeVars    == <<numPages, committed, unmapped, resourceQuota>>
threadVars  == <<memory, delta, old, op, source>>

vars == <<state, addressVars, sizeVars, resizingMutex, quota, pc, threadVars,
          returned, calls>>
-----------------------------------------------------------------------------
Pages   == 0 .. Reserved - 1
Failed  == -1
Pending == -2

Init ==
    /\ state = [m \in Memories |-> "absent"]
    /\ baseAddress = [m \in Memories |-> None]
    /\ reservedRegions = {}
    /\ memories = {}
    /\ numPages = [m \in Memories |-> 0]
    /\ committed = [r \in Regions |-> {}]
    /\ unmapped = [m \in Memories |-> {}]
    /\ resizingMutex = [m \in Memories |-> None]
    /\ resourceQuota = [m \in Memories |-> FALSE]
    /\ quota = Unlimited
    /\ badFree = FALSE
    /\ pc = [t \in Threads |-> "idle"]
    /\ memory = [t \in Threads |-> None]
    /\ delta = [t \in Threads |-> 0]
    /\ old = [t \in Threads |-> 0]
    /\ op = [t \in Threads |-> "none"]
    /\ source = [t \in Threads |-> None]
    /\ returned = [t \in Threads |-> Failed]
    /\ calls = 0

Enter(t, m, what, from, n, where) ==
    /\ pc[t] = "idle"
    /\ calls < MaxCalls
    /\ calls' = calls + 1
    /\ pc' = [pc EXCEPT ![t] = where]
    /\ memory' = [memory EXCEPT ![t] = m]
    /\ op' = [op EXCEPT ![t] = what]
    /\ source' = [source EXCEPT ![t] = from]
    /\ delta' = [delta EXCEPT ![t] = n]
    /\ returned' = [returned EXCEPT ![t] = Pending]
    /\ UNCHANGED old

\* A step inside a call; Goto if it also leaves the locals alone.
MoveTo(t, where) ==
    /\ pc' = [pc EXCEPT ![t] = where]
    /\ UNCHANGED returned

Goto(t, where) == MoveTo(t, where) /\ UNCHANGED threadVars

\* The call returns, and its locals are gone.
Return(t, value) ==
    /\ pc' = [pc EXCEPT ![t] = "idle"]
    /\ returned' = [returned EXCEPT ![t] = value]
    /\ memory' = [memory EXCEPT ![t] = None]
    /\ delta' = [delta EXCEPT ![t] = 0]
    /\ old' = [old EXCEPT ![t] = 0]
    /\ op' = [op EXCEPT ![t] = "none"]
    /\ source' = [source EXCEPT ![t] = None]

\* A thread's call works on the memory, or clones it.
InUse(m) ==
    \E t \in Threads : pc[t] # "idle" /\ m \in {memory[t], source[t]}

Acquire_Unlocked(t, m) == UNCHANGED resizingMutex

Acquire(t, m) ==
    /\ resizingMutex[m] = None
    /\ resizingMutex' = [resizingMutex EXCEPT ![m] = t]


Release(t, m) ==
    resizingMutex' = [resizingMutex EXCEPT ![m] = IF @ = t THEN None ELSE @]
-----------------------------------------------------------------------------
(* createMemory and cloneMemory: createMemoryImpl.                          *)

CreateMemory(t, m, hasQuota) ==
    /\ state[m] = "absent" /\ ~ InUse(m)
    /\ Enter(t, m, "create", None, TypeMin[m], "reserve")
    /\ state' = [state EXCEPT ![m] = "creating"]
    /\ resourceQuota' = [resourceQuota EXCEPT ![m] = hasQuota]
    /\ UNCHANGED <<addressVars, numPages, committed, unmapped, resizingMutex, quota>>

\* cloneMemory holds the original's resizingMutex until the copy is complete.
CloneMemory(t, original, m) ==
    /\ state[original] = "live"
    /\ state[m] = "absent" /\ ~ InUse(m)
    /\ TypeMax[m] = TypeMax[original]
    /\ Acquire(t, original)
    /\ Enter(t, m, "clone", original, numPages[original], "reserve")
    /\ state' = [state EXCEPT ![m] = "creating"]
    /\ resourceQuota' = [resourceQuota EXCEPT ![m] = resourceQuota[original]]
    /\ UNCHANGED <<addressVars, numPages, committed, unmapped, quota>>

\* mmap may return any region that is not in use, or fail.
ReserveAddresses(t) ==
    /\ pc[t] = "reserve"
    /\ \E r \in Regions \ reservedRegions :
          /\ reservedRegions' = reservedRegions \cup {r}
          /\ baseAddress' = [baseAddress EXCEPT ![memory[t]] = r]
    /\ Goto(t, "grow")
    /\ UNCHANGED <<state, memories, badFree, sizeVars, resizingMutex, quota, calls>>

ReserveFails(t) ==
    /\ pc[t] = "reserve"
    /\ Goto(t, "unlist")
    /\ UNCHANGED <<state, addressVars, sizeVars, resizingMutex, quota, calls>>

\* Forgetting that a clone has a region of its own.
ListMemory_NotClones(t) ==
    /\ pc[t] = "list"
    /\ memories' = IF op[t] = "clone" THEN memories ELSE memories \cup {memory[t]}
    /\ Goto(t, IF op[t] = "clone" THEN "copy" ELSE "add")
    /\ UNCHANGED <<state, baseAddress, reservedRegions, badFree, sizeVars,
                   resizingMutex, quota, calls>>

\* The grown memory is put on the global list, where faults are looked up.
ListMemory(t) ==
    /\ pc[t] = "list"
    /\ memories' = memories \cup {memory[t]}
    /\ Goto(t, IF op[t] = "clone" THEN "copy" ELSE "add")
    /\ UNCHANGED <<state, baseAddress, reservedRegions, badFree, sizeVars,
                   resizingMutex, quota, calls>>

\* cloneMemory copies the pages and leaves the original's resizingMutex.
CopyContents(t) ==
    /\ pc[t] = "copy"
    /\ Release(t, source[t])
    /\ Goto(t, "add")
    /\ UNCHANGED <<state, addressVars, sizeVars, quota, calls>>

\* The memory gets its id: WebAssembly code can reach it.
AddToCompartment(t) ==
    /\ pc[t] = "add"
    /\ state' = [state EXCEPT ![memory[t]] = "live"]
    /\ Return(t, 0)
    /\ UNCHANGED <<addressVars, sizeVars, resizingMutex, quota, calls>>
-----------------------------------------------------------------------------
(* growMemory.                                                              *)

GrowMemory(t, m, n) ==
    /\ state[m] = "live"
    /\ Enter(t, m, "grow", None, n, "grow")
    /\ UNCHANGED <<state, addressVars, sizeVars, resizingMutex, quota>>

GrowReturns(t, oldNumPages) ==
    IF op[t] = "grow" THEN Return(t, oldNumPages) ELSE Goto(t, "list")

\* growMemory returns false; createMemoryImpl then deletes the memory.
GrowFails(t) ==
    IF op[t] = "grow" THEN Return(t, Failed) ELSE Goto(t, "unlist")

GrowByZero(t) ==
    /\ pc[t] = "grow" /\ delta[t] = 0
    /\ GrowReturns(t, numPages[memory[t]])
    /\ UNCHANGED <<state, addressVars, sizeVars, resizingMutex, quota, calls>>

\* What the quota is after a charge, or a refund of n pages of memory m.
Charged(t) == IF resourceQuota[memory[t]] THEN charge(quota, delta[t]) ELSE quota
Refunded(m, n) == IF resourceQuota[m] THEN free(quota, n) ELSE quota

\* The quota is charged before the mutex is taken.
ChargeQuota(t) ==
    /\ pc[t] = "grow" /\ delta[t] # 0
    /\ IF ~ resourceQuota[memory[t]] \/ canAllocate(quota, delta[t])
       THEN quota' = Charged(t) /\ Goto(t, "lock")
       ELSE UNCHANGED quota /\ GrowFails(t)
    /\ UNCHANGED <<state, addressVars, sizeVars, resizingMutex, calls>>

LockResizing(t) ==
    /\ pc[t] = "lock"
    /\ Acquire(t, memory[t])
    /\ old' = [old EXCEPT ![t] = numPages[memory[t]]]
    /\ MoveTo(t, "check")
    /\ UNCHANGED <<state, addressVars, sizeVars, quota, memory, delta, op,
                   source, calls>>

Fits(n, oldNumPages, max) ==
    n <= max /\ oldNumPages <= max - n

FitsLimits(t) ==
    /\ Fits(delta[t], old[t], TypeMax[memory[t]])
    /\ Fits(delta[t], old[t], MaxMemoryPages)

\* The growth exceeds a limit, or commitVirtualPages fails, as it always may:
\* the charge is given back.
AbortGrowth(t) ==
    /\ pc[t] = "check"
    /\ quota' = Refunded(memory[t], delta[t])
    /\ Release(t, memory[t])
    /\ GrowFails(t)
    /\ UNCHANGED <<state, addressVars, sizeVars, calls>>

CommitPages(t) ==
    /\ pc[t] = "check"
    /\ FitsLimits(t)
    /\ committed' = [committed EXCEPT ![baseAddress[memory[t]]] =
                        @ \cup (old[t] .. old[t] + delta[t] - 1)]
    /\ Goto(t, "publish")
    /\ UNCHANGED <<state, addressVars, numPages, unmapped, resourceQuota,
                   resizingMutex, quota, calls>>

PublishSize(t) ==
    /\ pc[t] = "publish"
    /\ numPages' = [numPages EXCEPT ![memory[t]] = old[t] + delta[t]]
    /\ Release(t, memory[t])
    /\ GrowReturns(t, old[t])
    /\ UNCHANGED <<state, addressVars, committed, unmapped, resourceQuota, quota, calls>>
-----------------------------------------------------------------------------
(* ~Memory, run by the garbage collector and by a failed createMemoryImpl.  *)

\* The collector deletes a memory that no running call can refer to.
DeleteMemory(t, m) ==
    /\ state[m] = "live" /\ ~ InUse(m)
    /\ Enter(t, m, "delete", None, 0, "unlist")
    /\ state' = [state EXCEPT ![m] = "deleting"]
    /\ UNCHANGED <<addressVars, sizeVars, resizingMutex, quota>>

\* The memory leaves the compartment and the global list, under its mutex.
UnlistMemory(t) ==
    /\ pc[t] = "unlist"
    /\ memories' = memories \ {memory[t]}
    /\ Goto(t, "free")
    /\ UNCHANGED <<state, baseAddress, reservedRegions, badFree, sizeVars,
                   resizingMutex, quota, calls>>

\* numReservedBytes is set before the reservation is known to have succeeded, so
\* freeVirtualPages is called even if it failed, with the null address.
FreeAddresses(t) ==
    LET r == baseAddress[memory[t]] IN
    /\ pc[t] = "free"
    /\ IF r = None
       THEN badFree' = TRUE /\ UNCHANGED <<reservedRegions, committed>>
       ELSE /\ reservedRegions' = reservedRegions \ {r}
            /\ committed' = [committed EXCEPT ![r] = {}]
            /\ UNCHANGED badFree
    /\ baseAddress' = [baseAddress EXCEPT ![memory[t]] = None]
    /\ Goto(t, "uncharge")
    /\ UNCHANGED <<state, memories, numPages, unmapped, resourceQuota,
                   resizingMutex, quota, calls>>

\* The quota gets the memory's pages back; a failed clone unlocks the original.
FreeQuota(t) ==
    /\ pc[t] = "uncharge"
    /\ quota' = Refunded(memory[t], numPages[memory[t]])
    /\ numPages' = [numPages EXCEPT ![memory[t]] = 0]
    /\ resourceQuota' = [resourceQuota EXCEPT ![memory[t]] = FALSE]
    /\ unmapped' = [unmapped EXCEPT ![memory[t]] = {}]
    /\ state' = [state EXCEPT ![memory[t]] = "absent"]
    /\ IF op[t] = "clone" THEN Release(t, source[t]) ELSE UNCHANGED resizingMutex
    /\ Return(t, Failed)
    /\ UNCHANGED <<addressVars, committed, calls>>
-----------------------------------------------------------------------------
\* unmapMemoryPages takes no lock; any pages of the reserved region may be named.
UnmapMemoryPages(m, pages) ==
    /\ state[m] = "live"
    /\ ~ (pages \subseteq unmapped[m])
    /\ committed' = [committed EXCEPT ![baseAddress[m]] = @ \ pages]
    /\ unmapped' = [unmapped EXCEPT ![m] = @ \cup pages]
    /\ UNCHANGED <<state, addressVars, numPages, resourceQuota, resizingMutex,
                   quota, pc, threadVars, returned, calls>>

SetQuotaMax(newMax) ==
    /\ quota.max # newMax
    /\ quota' = setMax(quota, newMax)
    /\ UNCHANGED <<state, addressVars, sizeVars, resizingMutex, pc, threadVars,
                   returned, calls>>

\* The steps of a call that has started.
Progress(t) ==
    \/ ReserveAddresses(t) \/ ReserveFails(t) \/ ListMemory(t)
    \/ CopyContents(t) \/ AddToCompartment(t)
    \/ GrowByZero(t) \/ ChargeQuota(t) \/ LockResizing(t)
    \/ AbortGrowth(t) \/ CommitPages(t) \/ PublishSize(t)
    \/ UnlistMemory(t) \/ FreeAddresses(t) \/ FreeQuota(t)

Call(t) ==
    \E m \in Memories :
        \/ \E hasQuota \in HasQuota : CreateMemory(t, m, hasQuota)
        \/ \E original \in Memories : CloneMemory(t, original, m)
        \/ \E n \in Deltas : GrowMemory(t, m, n)
        \/ DeleteMemory(t, m)

Next ==
    \/ \E t \in Threads : Call(t) \/ Progress(t)
    \/ \E m \in Memories, pages \in UnmapRanges : UnmapMemoryPages(m, pages)
    \/ \E newMax \in Limits : SetQuotaMax(newMax)

Spec == Init /\ [][Next]_vars

\* A thread that is inside a call keeps being scheduled.
FairSpec == Spec /\ \A t \in Threads : WF_vars(Progress(t))
-----------------------------------------------------------------------------
(* Properties.                                                              *)

PCs == {"idle", "reserve", "grow", "lock", "check", "publish", "list", "copy",
        "add", "unlist", "free", "uncharge"}

\* Every variable stays in its set, and a call works on a memory that exists.
TypeOK ==
    /\ state \in [Memories -> {"absent", "creating", "live", "deleting"}]
    /\ baseAddress \in [Memories -> Regions \cup {None}]
    /\ reservedRegions \subseteq Regions
    /\ memories \subseteq Memories
    /\ numPages \in [Memories -> 0 .. Reserved]
    /\ committed \in [Regions -> SUBSET Pages]
    /\ unmapped \in [Memories -> SUBSET Pages]
    /\ resizingMutex \in [Memories -> Threads \cup {None}]
    /\ resourceQuota \in [Memories -> BOOLEAN]
    /\ quota \in Quota
    /\ badFree \in BOOLEAN
    /\ pc \in [Threads -> PCs]
    /\ delta \in [Threads -> Words]
    /\ old \in [Threads -> Nat]
    /\ op \in [Threads -> {"none", "create", "clone", "grow", "delete"}]
    /\ source \in [Threads -> Memories \cup {None}]
    /\ calls \in 0 .. MaxCalls
    /\ returned \in [Threads -> Int]
    /\ memory \in [Threads -> Memories \cup {None}]
    /\ \A t \in Threads : pc[t] # "idle" => memory[t] \in Memories

\* Page protection is the bounds check: in a memory that code can reach, the
\* pages below numPages are accessible unless the caller unmapped them, and
\* pages at or above it are not, unless a growth is about to publish them
\* (commit before store, Memory.cpp:222-230).
ProtectionMatchesSize ==
    \A m \in Memories :
        state[m] = "live" =>
            /\ (0 .. numPages[m] - 1) \ unmapped[m] \subseteq committed[baseAddress[m]]
            /\ \A p \in committed[baseAddress[m]] :
                  p < numPages[m] \/ \E t \in Threads : /\ pc[t] = "publish"
                                                        /\ memory[t] = m
                                                        /\ p < old[t] + delta[t]

\* isAddressOwnedByMemory, searching the global list for the region of a fault.
Owners(r) == {m \in memories : baseAddress[m] = r}

\* A fault in the region of a memory that code can reach is found to belong to
\* that memory and to no other, so it becomes an outOfBoundsMemoryAccess of the
\* right memory (Memory.cpp:172-189) although regions are reused: reserved address
\* space belongs to exactly one memory that exists, or that a running call is
\* creating or deleting, and failed creations and clones leak none
\* (Memory.cpp:59-70, 160-166).
FaultsAreAttributed ==
    /\ \A m \in Memories : state[m] = "live" => Owners(baseAddress[m]) = {m}
    /\ reservedRegions = {baseAddress[m] : m \in Memories} \ {None}
    /\ \A m, n \in Memories : baseAddress[m] = baseAddress[n] /\ m # n => baseAddress[m] = None
    /\ \A m \in Memories : baseAddress[m] # None => state[m] = "live" \/ InUse(m)

ChargedNotPublished(t) ==
    IF pc[t] \in {"lock", "check", "publish"} /\ resourceQuota[memory[t]]
    THEN delta[t] ELSE 0

PagesCharged(m) == IF resourceQuota[m] THEN numPages[m] ELSE 0

\* The quota is charged with exactly the pages of the existing memories and of
\* the growths under way (Memory.cpp:169, 204, 217, 226).
QuotaIsExact ==
    quota.current =
        SumFunctionOnSet([m \in Memories |-> PagesCharged(m)], Memories)
      + SumFunctionOnSet([t \in Threads |-> ChargedNotPublished(t)], Threads)

\* A growth, seen by other threads, is one atomic step with the result of a
\* sequential growth: see Growable.
G == INSTANCE Growable WITH
        Items <- Memories,
        Limit <- [m \in Memories |-> Min({TypeMax[m], MaxMemoryPages})],
        Gone <- -1,
        size <- [m \in Memories |-> IF state[m] = "live" THEN numPages[m] ELSE -1]



\* Platform/Memory.h:50: "baseVirtualAddress must also be the address returned by
\* allocateVirtualPages."
FreesOnlyWhatWasReserved == ~ badFree
=============================================================================
