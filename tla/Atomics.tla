------------------------------ MODULE Atomics ------------------------------
(***************************************************************************)
(* memory.atomic.wait and memory.atomic.notify (Lib/Runtime/Atomics.cpp)   *)
(* on top of Platform::Event (Lib/Platform/POSIX/EventPOSIX.cpp and        *)
(* Lib/Platform/Windows/EventWindows.cpp).                                 *)
(*                                                                         *)
(* A wait list is a heap object found through addressToWaitListMap; it is  *)
(* reference counted by the calls that have opened it.  Every thread owns  *)
(* one reusable wake event, so a thread stands for its event.              *)
(*                                                                         *)
(* One action is one stretch of code between two points at which another   *)
(* thread can observe or change the shared state.  The body of             *)
(* openWaitList and the second half of closeWaitList run under             *)
(* addressToWaitListMapMutex and never block, so each is a single action.  *)
(* The list mutex is held across several actions and is kept explicitly.   *)
(***************************************************************************)
EXTENDS Integers, Sequences, FiniteSets

CONSTANTS
  Threads,      \* threads that execute WebAssembly code
  Addresses,    \* the addresses waited on and notified
  Unmapped,     \* addresses of Addresses that fault when loaded
  Values,       \* values of the memory cells
  Lists,        \* identities of WaitList heap objects
  Counts,       \* the numToWake arguments of atomic_notify
  EventKinds,   \* the event implementations of the builds considered: "posix"
                \* (condition variable) and "windows" (auto-reset event)
  MaxCalls,     \* bound: wait, notify and store calls
  None          \* absent thread, list, address or value

ASSUME ThreadsAssumption == IsFiniteSet(Threads)
ASSUME UnmappedAssumption == Unmapped \subseteq Addresses
ASSUME CountsAssumption == Counts \subseteq Nat
ASSUME KindAssumption == EventKinds \subseteq {"posix", "windows"}
ASSUME BoundAssumption == MaxCalls \in Nat
ASSUME NoneAssumption == None \notin Lists \union Threads

VARIABLES
  eventKind,      \* the event implementation of this build
  memory,         \* the cells at Addresses
  waitListMap,    \* addressToWaitListMap; None where the key is absent
  allocated,      \* WaitList objects that are not deleted
  numReferences,  \* WaitList::numReferences
  wakeEvents,     \* WaitList::wakeEvents, oldest first
  listMutex,      \* holder of WaitList::mutex
  signaled,       \* Windows: the event is set; POSIX: the blocked thread was signalled
  pc,             \* where each thread is
  call,           \* arguments and locals of each thread's call in progress
  calls,          \* how many calls have been started
  fate,           \* "running", "freed" (a deleted list was used) or "fatal"
  leaked,         \* history: references of each list whose call was unwound
  unanswered,     \* history: addresses stored to since a notify emptied their list
  owed            \* history: sum of the results of the completed notify calls
                  \* minus the number of completed waits that returned 0

heapVars == <<waitListMap, allocated, numReferences>>
ghostVars == <<leaked, unanswered, owed>>
vars == <<eventKind, memory, heapVars, wakeEvents, listMutex, signaled, pc, call, calls, fate,
          ghostVars>>

\* result is 0 ("woken"), 1 ("notEqual") or 2 ("timedOut") of a wait.
Results == {"none", "woken", "notEqual", "timedOut"}

NoCall == [list |-> None, addr |-> None, expected |-> None, timed |-> FALSE,
           toWake |-> 0, wakeIndex |-> 0, result |-> "none"]

\* The pcs at which a call owns a reference of the list it opened.
Holding == {"waitLock", "waitLoad", "waitPush", "eventWait", "blocked", "timedOut",
            "resetWait", "notifyLock", "notifySignal", "close"}

\* The pcs at which a call owns the mutex of its list.
Locking == {"waitLoad", "waitPush", "resetWait", "notifySignal"}

PCs == Holding \union {"idle", "closeRecheck"}

\* The positions of thread t's event in a wake list.
PositionsOf(t, s) == {i \in 1..Len(s) : s[i] = t}

\* std::vector::erase of one position.
Erase(s, i) == SubSeq(s, 1, i - 1) \o SubSeq(s, i + 1, Len(s))

Goto(t, label) == pc' = [pc EXCEPT ![t] = label]

------------------------------------------------------------------------------
\* openWaitList where the map has a list for the address: add a reference.
FindWaitList(l, a) ==
  /\ waitListMap[a] = l
  /\ numReferences' = [numReferences EXCEPT ![l] = @ + 1]
  /\ UNCHANGED <<waitListMap, allocated, wakeEvents, listMutex, leaked>>

\* openWaitList where it has none: create a list with one reference, at an
\* address no call still points to.
CreateWaitList(l, a) ==
  /\ waitListMap[a] = None
  /\ l \notin allocated
  /\ \A u \in Threads : call[u].list # l
  /\ allocated' = allocated \union {l}
  /\ waitListMap' = [waitListMap EXCEPT ![a] = l]
  /\ numReferences' = [numReferences EXCEPT ![l] = 1]
  /\ wakeEvents' = [wakeEvents EXCEPT ![l] = << >>]
  /\ listMutex' = [listMutex EXCEPT ![l] = None]
  /\ leaked' = [leaked EXCEPT ![l] = 0]

openWaitList(t, a, newCall) ==
  \E l \in Lists :
    /\ FindWaitList(l, a) \/ CreateWaitList(l, a)
    /\ call' = [call EXCEPT ![t] = [newCall EXCEPT !.list = l]]

\* The call returns.
Return(t) ==
  /\ Goto(t, "idle")
  /\ call' = [call EXCEPT ![t] = NoCall]
  /\ owed' = owed + call[t].toWake - (IF call[t].result = "woken" THEN 1 ELSE 0)

\* closeWaitList up to the test of the decremented count: an atomic
\* decrement made without addressToWaitListMapMutex.
CloseDecrement(t) ==
  LET l == call[t].list IN
  /\ pc[t] = "close"
  /\ numReferences' = [numReferences EXCEPT ![l] = @ - 1]
  /\ IF numReferences[l] = 1
     THEN Goto(t, "closeRecheck") /\ UNCHANGED <<call, owed>>
     ELSE Return(t)
  /\ UNCHANGED <<memory, waitListMap, allocated, wakeEvents, listMutex, signaled, calls, fate,
                 leaked, unanswered>>

\* The second test of the count in closeWaitList.  The mutant leaves it out.
StillUnreferenced_Always(l) == TRUE

StillUnreferenced(l) == numReferences[l] = 0

\* The rest of closeWaitList, under addressToWaitListMapMutex: if the count
\* is still zero, delete the list and remove the address from the map.  The
\* count of a list that another call has deleted meanwhile is not readable:
\* the program's behaviour is undefined from here on.
CloseRecheck(t) ==
  LET l == call[t].list IN
  /\ pc[t] = "closeRecheck"
  /\ \/ /\ l \notin allocated
        /\ fate' = "freed"
        /\ UNCHANGED <<waitListMap, allocated>>
     \/ /\ l \in allocated
        /\ StillUnreferenced(l)
        /\ allocated' = allocated \ {l}
        /\ waitListMap' = [waitListMap EXCEPT ![call[t].addr] = None]
        /\ UNCHANGED fate
     \/ /\ l \in allocated
        /\ ~StillUnreferenced(l)
        /\ UNCHANGED <<waitListMap, allocated, fate>>
  /\ Return(t)
  /\ UNCHANGED <<memory, numReferences, wakeEvents, listMutex, signaled, calls, leaked,
                 unanswered>>

------------------------------------------------------------------------------
\* waitOnAddress, called by atomic_wait_i32/i64 once memoryRef has checked
\* that the address is in the reserved range of the memory.
StartWait(t, a, v, withTimeout) ==
  /\ pc[t] = "idle"
  /\ calls < MaxCalls
  /\ openWaitList(t, a, [NoCall EXCEPT !.addr = a, !.expected = v, !.timed = withTimeout])
  /\ Goto(t, "waitLock")
  /\ calls' = calls + 1
  /\ UNCHANGED <<memory, signaled, fate, unanswered, owed>>

\* Lock<Platform::Mutex> waitListLock(waitList->mutex), and its unlock.  The
\* mutants leave one of them out.
AcquireList_Unlocked(t) == UNCHANGED listMutex

AcquireList(t) ==
  /\ listMutex[call[t].list] = None
  /\ listMutex' = [listMutex EXCEPT ![call[t].list] = t]

ReleaseList_Forgotten(t) == UNCHANGED listMutex

ReleaseList(t) == listMutex' = [listMutex EXCEPT ![call[t].list] = None]

LockForWait(t) ==
  /\ pc[t] = "waitLock"
  /\ AcquireList(t)
  /\ Goto(t, "waitLoad")
  /\ UNCHANGED <<memory, heapVars, wakeEvents, signaled, call, calls, fate, ghostVars>>

\* The load and the comparison, under the list mutex.  A load that faults is
\* thrown as an exception that releases the lock and leaves waitOnAddress
\* without closing the list.
LoadValue(t) ==
  LET l == call[t].list
      a == call[t].addr
  IN
  /\ pc[t] = "waitLoad"
  /\ \/ /\ a \in Unmapped
        /\ ReleaseList(t)
        /\ leaked' = [leaked EXCEPT ![l] = @ + 1]
        /\ Goto(t, "idle")
        /\ call' = [call EXCEPT ![t] = NoCall]
     \/ /\ a \notin Unmapped
        /\ memory[a] # call[t].expected
        /\ ReleaseList(t)
        /\ Goto(t, "close")
        /\ call' = [call EXCEPT ![t].result = "notEqual"]
        /\ UNCHANGED leaked
     \/ /\ a \notin Unmapped
        /\ memory[a] = call[t].expected
        /\ Goto(t, "waitPush")
        /\ UNCHANGED <<listMutex, leaked, call>>
  /\ UNCHANGED <<memory, heapVars, wakeEvents, signaled, calls, fate, unanswered, owed>>

\* Append the thread's event to the list and unlock it.
PushWakeEvent(t) ==
  /\ pc[t] = "waitPush"
  /\ wakeEvents' = [wakeEvents EXCEPT ![call[t].list] = Append(@, t)]
  /\ ReleaseList(t)
  /\ Goto(t, "eventWait")
  /\ UNCHANGED <<memory, heapVars, signaled, call, calls, fate, ghostVars>>

\* Event::wait up to the point at which the thread is blocked on the
\* condition variable or in WaitForSingleObject.
EnterEventWait(t) ==
  /\ pc[t] = "eventWait"
  /\ Goto(t, "blocked")
  /\ UNCHANGED <<memory, heapVars, wakeEvents, listMutex, signaled, call, calls, fate, ghostVars>>

\* Event::wait returns true because of a signal, which it consumes.  The
\* mutant is a manual-reset event.
WakeUp_ManualReset(t) ==
  /\ pc[t] = "blocked"
  /\ signaled[t]
  /\ call' = [call EXCEPT ![t].result = "woken"]
  /\ Goto(t, "close")
  /\ UNCHANGED <<memory, heapVars, wakeEvents, listMutex, signaled, calls, fate, ghostVars>>

WakeUp(t) ==
  /\ pc[t] = "blocked"
  /\ signaled[t]
  /\ signaled' = [signaled EXCEPT ![t] = FALSE]
  /\ call' = [call EXCEPT ![t].result = "woken"]
  /\ Goto(t, "close")
  /\ UNCHANGED <<memory, heapVars, wakeEvents, listMutex, calls, fate, ghostVars>>

\* The POSIX event waits on its condition variable once, without a
\* predicate, so a spurious wakeup makes Event::wait return true.
SpuriousWakeUp(t) ==
  /\ eventKind = "posix"
  /\ pc[t] = "blocked"
  /\ ~signaled[t]
  /\ call' = [call EXCEPT ![t].result = "woken"]
  /\ Goto(t, "close")
  /\ UNCHANGED <<memory, heapVars, wakeEvents, listMutex, signaled, calls, fate, ghostVars>>

\* Event::wait returns false: the wait has a timeout and the event was not
\* signalled when it expired.
TimeOut(t) ==
  /\ pc[t] = "blocked"
  /\ call[t].timed
  /\ ~signaled[t]
  /\ Goto(t, "timedOut")
  /\ UNCHANGED <<memory, heapVars, wakeEvents, listMutex, signaled, call, calls, fate, ghostVars>>

\* After the timeout, under the list mutex: either the event is still listed
\* and is erased, or a notify has removed it and the event has to be reset,
\* which happens with the mutex still held.
CheckTimedOut(t) ==
  LET l == call[t].list
      found == PositionsOf(t, wakeEvents[l])
  IN
  /\ pc[t] = "timedOut"
  /\ listMutex[l] = None
  /\ \/ /\ \E i \in found :
             /\ \A j \in found : i <= j
             /\ wakeEvents' = [wakeEvents EXCEPT ![l] = Erase(@, i)]
        /\ call' = [call EXCEPT ![t].result = "timedOut"]
        /\ Goto(t, "close")
        /\ UNCHANGED listMutex
     \/ /\ found = {}
        /\ listMutex' = [listMutex EXCEPT ![l] = t]
        /\ Goto(t, "resetWait")
        /\ UNCHANGED <<wakeEvents, call>>
  /\ UNCHANGED <<memory, heapVars, signaled, calls, fate, ghostVars>>

\* errorUnless(threadWakeEvent->wait(...)), with the list mutex held.  A set
\* auto-reset event is consumed at once.  A condition variable remembers no
\* signal, and the notify that would send one needs the mutex: only a
\* spurious wakeup keeps errorUnless from ending the process.
ResetEvent(t) ==
  /\ pc[t] = "resetWait"
  /\ \/ /\ eventKind = "posix" \/ signaled[t]
        /\ signaled' = [signaled EXCEPT ![t] = FALSE]
        /\ call' = [call EXCEPT ![t].result = "woken"]
        /\ ReleaseList(t)
        /\ Goto(t, "close")
        /\ UNCHANGED fate
     \/ /\ ~signaled[t]
        /\ fate' = "fatal"
        /\ UNCHANGED <<signaled, call, listMutex, pc>>
  /\ UNCHANGED <<memory, heapVars, wakeEvents, calls, ghostVars>>

------------------------------------------------------------------------------
\* atomic_notify with numToWake # 0 (zero returns at once): the address is
\* within the memory's current size (it throws otherwise), and wakeAddress
\* opens the list.
StartNotify(t, a, n) ==
  /\ pc[t] = "idle"
  /\ calls < MaxCalls
  /\ a \notin Unmapped
  /\ n # 0
  /\ openWaitList(t, a, [NoCall EXCEPT !.addr = a, !.toWake = n])
  /\ Goto(t, "notifyLock")
  /\ calls' = calls + 1
  /\ UNCHANGED <<memory, signaled, fate, unanswered, owed>>

\* Lock the list and limit the count to the number of listed events.
LockForNotify(t) ==
  LET n == Len(wakeEvents[call[t].list]) IN
  /\ pc[t] = "notifyLock"
  /\ AcquireList(t)
  /\ Goto(t, "notifySignal")
  /\ call' = [call EXCEPT ![t].toWake = IF @ > n THEN n ELSE @]
  /\ UNCHANGED <<memory, heapVars, wakeEvents, signaled, calls, fate, ghostVars>>

\* Event::signal: sets the auto-reset event; wakes a thread that is blocked
\* on the condition variable and is forgotten otherwise.  The mutant forgets
\* the signal on both.
Remembered_IfBlocked(u) == pc[u] = "blocked"

Remembered(u) == eventKind = "windows" \/ pc[u] = "blocked"

SignalNext(t) ==
  LET u == wakeEvents[call[t].list][call[t].wakeIndex + 1] IN
  /\ pc[t] = "notifySignal"
  /\ call[t].wakeIndex < call[t].toWake
  /\ signaled' = IF Remembered(u) THEN [signaled EXCEPT ![u] = TRUE] ELSE signaled
  /\ call' = [call EXCEPT ![t].wakeIndex = @ + 1]
  /\ UNCHANGED <<memory, heapVars, wakeEvents, listMutex, pc, calls, fate, ghostVars>>

\* Erase the signalled events from the front of the list and unlock it.
EraseSignaled(t) ==
  LET l == call[t].list
      rest == SubSeq(wakeEvents[l], call[t].toWake + 1, Len(wakeEvents[l]))
  IN
  /\ pc[t] = "notifySignal"
  /\ call[t].wakeIndex = call[t].toWake
  /\ wakeEvents' = [wakeEvents EXCEPT ![l] = rest]
  /\ unanswered' = IF rest = << >> THEN unanswered \ {call[t].addr} ELSE unanswered
  /\ ReleaseList(t)
  /\ Goto(t, "close")
  /\ UNCHANGED <<memory, heapVars, signaled, call, calls, fate, leaked, owed>>

\* A store executed by WebAssembly code.
Store(t, a, v) ==
  /\ pc[t] = "idle"
  /\ calls < MaxCalls
  /\ a \notin Unmapped
  /\ memory' = [memory EXCEPT ![a] = v]
  /\ unanswered' = unanswered \union {a}
  /\ calls' = calls + 1
  /\ UNCHANGED <<heapVars, wakeEvents, listMutex, signaled, pc, call, fate, leaked, owed>>

------------------------------------------------------------------------------
Init ==
  /\ eventKind \in EventKinds
  /\ memory \in [Addresses -> Values]
  /\ \A a \in Unmapped : memory[a] = CHOOSE v \in Values : TRUE  \* never read
  /\ waitListMap = [a \in Addresses |-> None]
  /\ allocated = {}
  /\ numReferences = [l \in Lists |-> 0]
  /\ wakeEvents = [l \in Lists |-> << >>]
  /\ listMutex = [l \in Lists |-> None]
  /\ signaled = [t \in Threads |-> FALSE]
  /\ pc = [t \in Threads |-> "idle"]
  /\ call = [t \in Threads |-> NoCall]
  /\ calls = 0
  /\ fate = "running"
  /\ leaked = [l \in Lists |-> 0]
  /\ unanswered = {}
  /\ owed = 0

\* What the WebAssembly code of thread t may call.
Call(t) ==
  \/ \E a \in Addresses, v \in Values, b \in BOOLEAN : StartWait(t, a, v, b)
  \/ \E a \in Addresses, n \in Counts : StartNotify(t, a, n)
  \/ \E a \in Addresses, v \in Values : Store(t, a, v)

\* The steps of a call in progress that the scheduler has to take.
Progress(t) ==
  \/ LockForWait(t)
  \/ LoadValue(t)
  \/ PushWakeEvent(t)
  \/ EnterEventWait(t)
  \/ WakeUp(t)
  \/ TimeOut(t)
  \/ CheckTimedOut(t)
  \/ ResetEvent(t)
  \/ LockForNotify(t)
  \/ SignalNext(t)
  \/ EraseSignaled(t)
  \/ CloseDecrement(t)
  \/ CloseRecheck(t)

Next ==
  /\ fate = "running"
  /\ \E t \in Threads : Call(t) \/ Progress(t) \/ SpuriousWakeUp(t)
  /\ UNCHANGED eventKind

Spec == Init /\ [][Next]_vars

\* The operating system runs every thread that is not blocked; nobody owes
\* the program a spurious wakeup or another call.
FairSpec ==
  /\ Spec
  /\ \A t \in Threads : WF_vars(fate = "running" /\ Progress(t) /\ UNCHANGED eventKind)

------------------------------------------------------------------------------
\* The threads of a list that have not been chosen by a notify.
Listed(l) == {wakeEvents[l][i] : i \in 1..Len(wakeEvents[l])}

\* Thread t has published its event and has not come back from Event::wait
\* with an answer.
Waiting(t) == pc[t] \in {"eventWait", "blocked", "timedOut"}

\* A notify has erased the event of waiting thread t from the list.
Notified(t) == pc[t] \in {"eventWait", "blocked"} /\ t \notin Listed(call[t].list)

Calls == [list : Lists \union {None}, addr : Addresses \union {None},
          expected : Values \union {None}, timed : BOOLEAN,
          toWake : Nat, wakeIndex : Nat, result : Results]

\* The types of the variables that change; in particular no reference count that some
\* call decrements is zero before.
TypeOK ==
  /\ memory \in [Addresses -> Values]
  /\ waitListMap \in [Addresses -> Lists \union {None}]
  /\ allocated \subseteq Lists
  /\ numReferences \in [Lists -> Nat]
  /\ wakeEvents \in [Lists -> Seq(Threads)]
  /\ listMutex \in [Lists -> Threads \union {None}]
  /\ signaled \in [Threads -> BOOLEAN]
  /\ pc \in [Threads -> PCs]
  /\ call \in [Threads -> Calls]
  /\ calls \in 0..MaxCalls
  /\ fate \in {"running", "freed", "fatal"}
  /\ leaked \in [Lists -> Nat]
  /\ unanswered \subseteq Addresses
  /\ owed \in Int

\* A call between openWaitList and the decrement in closeWaitList uses a list
\* that is not deleted and is the one the map holds for its address: every
\* notify of an address works on the list the waiters of the address are in.
HeldListIsLive ==
  \A t \in Threads : pc[t] \in Holding =>
    call[t].list \in allocated /\ waitListMap[call[t].addr] = call[t].list

\* The comparison under the list mutex closes the window between load and
\* wait: a thread that still waits for a value that has been overwritten was
\* overtaken by no complete notify-all of its address since the store.
NoMissedWake ==
  \A t \in Threads :
    /\ Waiting(t)
    /\ t \in Listed(call[t].list)
    /\ memory[call[t].addr] # call[t].expected
    => call[t].addr \in unanswered

\* Whenever no call is in progress except waits nobody has answered, the
\* notify calls have reported exactly as many wakes as waits have returned 0:
\* no wake is lost in the race of a timeout with a notify and none is
\* reported twice.  And an event is set only between the notify that chooses
\* the thread and the return of that wait, so that no later wait of the thread
\* starts with its event set, and the reset after a timeout finds it set
\* (Atomics.cpp:137-160, 182-195).
WakesConserved ==
  /\ (\A t \in Threads : pc[t] = "idle" \/ (Waiting(t) /\ t \in Listed(call[t].list)))
        => owed = 0
  /\ \A t \in Threads :
       /\ signaled[t] => Waiting(t) \/ pc[t] = "resetWait"
       /\ pc[t] = "resetWait" => signaled[t]

\* closeWaitList never looks at a list that another call has deleted.
NeverUsesFreedList == fate # "freed"

\* A wait that a notify has counted as woken returns.
NotifiedWaitReturns ==
  \A t \in Threads : Notified(t) ~> (pc[t] = "idle" \/ fate # "running")

\* With auto-reset events it does, whenever it was notified: before it blocked,
\* while blocked, or after its timeout had expired (EventWindows.cpp:20-53).
AutoResetWaitReturns == eventKind = "windows" => NotifiedWaitReturns

\* A notify, a timed wait, and a call that is closing its list all return;
\* no chain of list mutexes keeps them waiting.
BoundedCallsReturn ==
  \A t \in Threads :
    (/\ pc[t] # "idle"
     /\ call[t].timed \/ call[t].expected = None \/ pc[t] \in {"close", "closeRecheck"})
      ~> (pc[t] = "idle" \/ fate # "running")

\* Every reference that openWaitList hands out is given back by
\* closeWaitList: no call leaves with its list still referenced.
NoReferenceLeaks == \A l \in Lists : leaked[l] = 0

=============================================================================
