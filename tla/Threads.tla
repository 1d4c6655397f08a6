------------------------------- MODULE Threads -------------------------------
(***************************************************************************)
(* WebAssembly threads (Lib/ThreadTest/ThreadTest.cpp) over the threads    *)
(* and signals of the platform (Lib/Platform/*/Thread*.cpp,                *)
(* SignalPOSIX.cpp).  A Thread object is counted by the map of threads, by *)
(* the argument of its entry function, by the currentThread variable of    *)
(* the thread that runs, and by locals of the functions that join, detach  *)
(* and fork.  A thread is an actor of its own; so is the program's main    *)
(* thread, which enters WebAssembly code by catchRuntimeExceptions.        *)
(*                                                                         *)
(* What WebAssembly code does is a choice at every step.  It passes to     *)
(* joinThread and detachThread ids that were returned to some thread,      *)
(* however old; it shares them freely.  The critical sections of           *)
(* threadsMutex and of a thread's resultMutex contain no call that waits,  *)
(* so each is one step.                                                    *)
(***************************************************************************)
EXTENDS Naturals, Sequences, FiniteSets, Functions

CONSTANTS
    Slots,          \* the Thread objects that can be made, and their threads
    Main,           \* the program's main thread
    None,           \* no thread
    Platforms,      \* "posix", "windows": the Platform::Thread that is built
    GuestCatches    \* whether WebAssembly code may have handlers: a set of Booleans

Actors == Slots \cup {Main}

ASSUME ThreadsAssumption ==
    /\ Main \notin Slots /\ None \notin Actors
    /\ Platforms \subseteq {"posix", "windows"}
    /\ GuestCatches \subseteq BOOLEAN

VARIABLES
    platform,       \* which of Platforms this program runs on; never changes
    guestCatches,   \* WebAssembly code catches runtime exceptions; never changes
    thread,         \* the Thread objects
    threads,        \* the map from ids to Threads
    lastIndex,      \* the id that the map allocated last
    running,        \* of each slot's platform thread: none, started or ended
    handleRefs,     \* references to each Platform::Thread
    pc,             \* where each actor is
    held,           \* the IntrusiveSharedPtr<Thread> local of each actor's call
    raw,            \* the Thread* local of each actor's createThread or forkThread
    currentThread,  \* thread-local: the Thread each actor runs
    forkedStack,    \* the forkedStackMutex a forking parent holds for its child
    contexts,       \* the SignalContexts in each actor's active frames, outermost first
    innermost,      \* thread-local: innermostSignalContext
    sigAltStack,    \* thread-local: the alternate signal stack is installed
    given,          \* the ids that were returned to WebAssembly code
    outcome,        \* how each thread's function ended
    process         \* running, ended by a fatal error, or undefined

vars == <<platform, guestCatches, thread, threads, lastIndex, running, handleRefs, pc,
          held, raw, currentThread, forkedStack, contexts, innermost, sigAltStack, given,
          outcome, process>>

fixedVars  == <<platform, guestCatches>>
objectVars == <<thread, threads, lastIndex>>
localVars  == <<held, raw, currentThread>>
signalVars == <<contexts, innermost, sigAltStack>>
ghostVars  == <<given, outcome>>
-----------------------------------------------------------------------------
Unset    == "unset"         \* result = -1
Absent   == [state |-> "absent", id |-> 0, numRefs |-> 0, hasHandle |-> FALSE,
             threwException |-> FALSE, result |-> Unset]

\* A SignalContext is named by the stack it lies on and its depth there.
NoContext == [stack |-> None, level |-> 0]
Context(a, n) == [stack |-> a, level |-> n]

Init ==
    /\ platform \in Platforms
    /\ guestCatches \in GuestCatches
    /\ guestCatches => platform = "posix"      \* elsewhere it makes no difference
    /\ thread = [s \in Slots |-> Absent]
    /\ threads = [id \in {} |-> None]
    /\ lastIndex = 0
    /\ running = [s \in Slots |-> "none"]
    /\ handleRefs = [s \in Slots |-> 0]
    /\ pc = [a \in Actors |-> IF a = Main THEN "enter" ELSE "none"]
    /\ held = [a \in Actors |-> None]
    /\ raw = [a \in Actors |-> None]
    /\ currentThread = [a \in Actors |-> None]
    /\ forkedStack = [s \in Slots |-> None]
    /\ contexts = [a \in Actors |-> <<>>]
    /\ innermost = [a \in Actors |-> NoContext]
    /\ sigAltStack = [a \in Actors |-> FALSE]
    /\ given = {}
    /\ outcome = [s \in Slots |-> "none"]
    /\ process = "running"

Goto(a, where) == pc' = [pc EXCEPT ![a] = where]

\* removeRef: the object is deleted with its last reference.
removeRef(object) ==
    [object EXCEPT !.numRefs = @ - 1,
                   !.state = IF object.numRefs = 1 THEN "deleted" ELSE @]

addRef(object, n) == [object EXCEPT !.numRefs = @ + n]
-----------------------------------------------------------------------------
(* catchSignals, and what happens to its SignalContext.                     *)

\* SigAltStack::init and deinit: the page below the alternate stack is protected and
\* the stack announced to the system, or the reverse.
InitSigAltStack(a)   == sigAltStack' = [sigAltStack EXCEPT ![a] = TRUE]
DeinitSigAltStack(a) == sigAltStack' = [sigAltStack EXCEPT ![a] = FALSE]

PushContext(a) ==
    /\ contexts' = [contexts EXCEPT ![a] = Append(@, innermost[a])]
    /\ innermost' = [innermost EXCEPT ![a] = Context(a, Len(contexts[a]) + 1)]
    /\ InitSigAltStack(a)

\* The thunk returns: the context is unlinked.
PopContext(a) ==
    /\ innermost' = [innermost EXCEPT ![a] = contexts[a][Len(contexts[a])]]
    /\ contexts' = [contexts EXCEPT ![a] = SubSeq(@, 1, Len(@) - 1)]

\* A C++ exception leaves the code.  The frames of catchSignals are gone, but only
\* __try unlinks them: the chain of SignalContexts starts with last, the innermost
\* frame that was left.  The exception reaches the catch clause around catchSignals:
\* the main thread's embedder reports it and enters again, a thread's is in
\* threadEntry.
Unwind(a, last) ==
    /\ contexts' = [contexts EXCEPT ![a] = <<>>]
    /\ innermost' = [innermost EXCEPT ![a] =
                        IF platform = "windows" THEN NoContext ELSE last]
    /\ Goto(a, IF a = Main THEN "enter" ELSE "catch")
    /\ outcome' = [s \in Slots |-> IF s = a THEN "exception" ELSE outcome[s]]
    /\ UNCHANGED sigAltStack

\* The main thread enters WebAssembly code.
Enter ==
    /\ pc[Main] = "enter"
    /\ PushContext(Main)
    /\ Goto(Main, "run")
    /\ UNCHANGED <<fixedVars, objectVars, running, handleRefs, localVars, forkedStack,
                   ghostVars, process>>

\* The function that the main thread's embedder invoked returns.
Leave ==
    /\ pc[Main] = "run"
    /\ PopContext(Main)
    /\ Goto(Main, "enter")
    /\ UNCHANGED <<fixedVars, objectVars, running, handleRefs, localVars, forkedStack,
                   sigAltStack, ghostVars, process>>

\* An intrinsic throws a runtime exception.
ThrowException(a) ==
    /\ pc[a] = "run"
    /\ Unwind(a, innermost[a])
    /\ UNCHANGED <<fixedVars, objectVars, running, handleRefs, localVars, forkedStack,
                   given, process>>

\* An intrinsic throws inside the thunk that it passes to unwindSignalsAsExceptions,
\* as table.set does for an index that is out of bounds.  The exception goes through
\* the inner catchSignals, and then to a WebAssembly handler or out of the code.
ThrowInThunk(a) ==
    LET inner == Context(a, Len(contexts[a]) + 1) IN
    /\ pc[a] = "run"
    /\ \/ /\ guestCatches
          /\ innermost' = [innermost EXCEPT ![a] = inner]
          /\ UNCHANGED <<pc, contexts, sigAltStack, outcome>>
       \/ Unwind(a, inner)
    /\ UNCHANGED <<fixedVars, objectVars, running, handleRefs, localVars, forkedStack,
                   given, process>>

IsActive(a, context) ==
    /\ context.stack = a
    /\ context.level \in 1 .. Len(contexts[a])

\* WebAssembly code faults.  signalHandler jumps to the innermost context, whose
\* filter accepts every fault of WebAssembly code; catchSignals unlinks it and its
\* caller throws the exception, through the contexts further out.
Fault(a) ==
    /\ pc[a] = "run"
    /\ IsActive(a, innermost[a])
    /\ Unwind(a, contexts[a][innermost[a].level])
    /\ UNCHANGED <<fixedVars, objectVars, running, handleRefs, localVars, forkedStack,
                   given, process>>

\* The innermost context lay in a frame that was left: the filter, its argument and
\* the jump buffer are whatever the stack holds now.
FaultInDeadFrame(a) ==
    /\ pc[a] = "run"
    /\ ~ IsActive(a, innermost[a])
    /\ process' = "undefined"
    /\ UNCHANGED <<fixedVars, objectVars, running, handleRefs, pc, localVars, forkedStack,
                   signalVars, ghostVars>>
-----------------------------------------------------------------------------
(* createThread, and the start of the thread it creates.                    *)

\* The references to a new Platform::Thread: the creator's, and on Windows that of the
\* ThreadArgs, which the thread releases when it ends.
CreateHandle(s) ==
    handleRefs' = [handleRefs EXCEPT ![s] = IF platform = "windows" THEN 2 ELSE 1]

ReleaseThreadArgs(s) ==
    handleRefs' = [handleRefs EXCEPT ![s] = IF platform = "windows" THEN @ - 1 ELSE @]

\* Platform::joinThread and detachThread delete it, or drop their reference.
ReleaseHandle(s) == handleRefs' = [handleRefs EXCEPT ![s] = @ - 1]

\* allocateThreadId: the map's reference, and the next id.
Listed(s, object) ==
    /\ lastIndex' = lastIndex + 1
    /\ threads' = [id \in DOMAIN threads \cup {lastIndex + 1} |->
                      IF id = lastIndex + 1 THEN s ELSE threads[id]]
    /\ thread' = [thread EXCEPT ![s] = [addRef(object, 1) EXCEPT !.id = lastIndex + 1]]

\* The Thread gets its id and a reference for the argument of threadEntry, and the
\* platform thread is started; nobody else knows of the Thread until then.
CreateThread(a, s) ==
    /\ pc[a] = "run"
    /\ thread[s] = Absent
    /\ Listed(s, [Absent EXCEPT !.state = "live", !.numRefs = 1])
    /\ running' = [running EXCEPT ![s] = "started"]
    /\ CreateHandle(s)
    /\ pc' = [pc EXCEPT ![a] = "created", ![s] = "entry"]
    /\ raw' = [raw EXCEPT ![a] = s]
    /\ UNCHANGED <<fixedVars, held, currentThread, forkedStack, signalVars, ghostVars, process>>

\* The handle is stored, and the id read from the Thread and returned.
ReturnThreadId(a) ==
    /\ pc[a] = "created"
    /\ thread' = [thread EXCEPT ![raw[a]].hasHandle = TRUE]
    /\ given' = given \cup {thread[raw[a]].id}
    /\ raw' = [raw EXCEPT ![a] = None]
    /\ Goto(a, "run")
    /\ UNCHANGED <<fixedVars, threads, lastIndex, running, handleRefs, held, currentThread,
                   forkedStack, signalVars, outcome, process>>

\* threadEntry, or the child's return from forkCurrentThread: setCurrentThread.
SetCurrentThread(s) ==
    /\ pc[s] \in {"entry", "forkEntry"}
    /\ pc[s] = "forkEntry" => forkedStack[s] = None
    /\ currentThread' = [currentThread EXCEPT ![s] = s]
    /\ thread' = [thread EXCEPT ![s] = addRef(@, 1)]
    /\ InitSigAltStack(s)
    /\ Goto(s, IF pc[s] = "entry" THEN "entered" ELSE "forked")
    /\ UNCHANGED <<fixedVars, threads, lastIndex, running, handleRefs, held, raw, forkedStack,
                   contexts, innermost, ghostVars, process>>

\* The reference that came with the entry argument is dropped.
EntryReleases_Not(s) == thread[s]

EntryReleases(s) == removeRef(thread[s])

\* The entry function is called inside catchRuntimeExceptionsOnRelocatableStack.
EnterFunction(s) ==
    /\ pc[s] = "entered"
    /\ thread' = [thread EXCEPT ![s] = EntryReleases(s)]
    /\ PushContext(s)
    /\ Goto(s, "run")
    /\ UNCHANGED <<fixedVars, threads, lastIndex, running, handleRefs, localVars, forkedStack,
                   ghostVars, process>>
-----------------------------------------------------------------------------
(* forkThread: the child continues on a copy of the parent's stack.         *)


ForkRefs == 2

\* The child's platform thread is created; it waits for its stack.
ForkThread(a, s) ==
    /\ pc[a] = "run" /\ currentThread[a] # None
    /\ thread[s] = Absent
    /\ thread' = [thread EXCEPT ![s] = [Absent EXCEPT !.state = "live", !.numRefs = ForkRefs]]
    /\ running' = [running EXCEPT ![s] = "started"]
    /\ CreateHandle(s)
    /\ forkedStack' = [forkedStack EXCEPT ![s] = a]
    /\ pc' = [pc EXCEPT ![a] = "forking", ![s] = "forkEntry"]
    /\ raw' = [raw EXCEPT ![a] = s]
    /\ UNCHANGED <<fixedVars, threads, lastIndex, held, currentThread, signalVars, ghostVars,
                   process>>


\* A pointer into the parent's stack, translated to the child's.
Relocated(context, a, s) ==
    IF context.stack = a THEN Context(s, context.level) ELSE context

\* The stack is copied, and the chain of signal contexts translated to the copy.
CopyStack(a) ==
    LET s == raw[a] IN
    /\ pc[a] = "forking"
    /\ contexts' = [contexts EXCEPT ![s] =
                       [i \in DOMAIN contexts[a] |-> Relocated(contexts[a][i], a, s)]]
    /\ innermost' = [innermost EXCEPT ![s] = Relocated(innermost[a], a, s)]
    /\ forkedStack' = [forkedStack EXCEPT ![s] = None]
    /\ Goto(a, "forkParent")
    /\ UNCHANGED <<fixedVars, objectVars, running, handleRefs, localVars, sigAltStack,
                   ghostVars, process>>

\* In the parent: the child gets its handle and an id.
ListChild(a) ==
    LET s == raw[a] IN
    /\ pc[a] = "forkParent"
    /\ Listed(s, [thread[s] EXCEPT !.hasHandle = TRUE])
    /\ Goto(a, "forkReturn")
    /\ UNCHANGED <<fixedVars, running, handleRefs, localVars, forkedStack, signalVars,
                   ghostVars, process>>

ForkReturnsInParent(a) ==
    LET s == raw[a] IN
    /\ pc[a] = "forkReturn"
    /\ thread' = [thread EXCEPT ![s] = removeRef(@)]
    /\ given' = given \cup {thread[s].id}       \* the local threadId
    /\ raw' = [raw EXCEPT ![a] = None]
    /\ Goto(a, "run")
    /\ UNCHANGED <<fixedVars, threads, lastIndex, running, handleRefs, held, currentThread,
                   forkedStack, signalVars, outcome, process>>

ForkReturnsInChild(s) ==
    /\ pc[s] = "forked"
    /\ thread' = [thread EXCEPT ![s] = removeRef(@)]
    /\ Goto(s, "run")
    /\ UNCHANGED <<fixedVars, threads, lastIndex, running, handleRefs, localVars, forkedStack,
                   signalVars, ghostVars, process>>
-----------------------------------------------------------------------------
(* The end of a thread.                                                     *)

\* The function returned, or called exitThread; its result is stored under
\* resultMutex, and catchSignals returns.
StoreResult(s, how) ==
    /\ pc[s] = "run" /\ currentThread[s] # None
    /\ outcome' = [outcome EXCEPT ![s] = how]
    /\ thread' = [thread EXCEPT ![currentThread[s]].result = how]
    /\ PopContext(s)
    /\ Goto(s, "ending")
    /\ UNCHANGED <<fixedVars, threads, lastIndex, running, handleRefs, localVars, forkedStack,
                   sigAltStack, given, process>>

\* The exception is stored under resultMutex; if nobody else refers to the Thread,
\* nobody will ask for it.
CatchException(s) ==
    LET object == currentThread[s] IN
    /\ pc[s] = "catch"
    /\ IF thread[object].numRefs = 1
       THEN process' = "fatal" /\ UNCHANGED thread
       ELSE /\ thread' = [thread EXCEPT ![object].threwException = TRUE]
            /\ UNCHANGED process
    /\ Goto(s, "ending")
    /\ UNCHANGED <<fixedVars, threads, lastIndex, running, handleRefs, localVars, forkedStack,
                   signalVars, ghostVars>>

\* The entry function of the platform removes the alternate stack, and currentThread
\* is destroyed with the thread's other thread-local variables.
EndThread(s) ==
    /\ pc[s] = "ending"
    /\ thread' = [thread EXCEPT ![currentThread[s]] = removeRef(@)]
    /\ currentThread' = [currentThread EXCEPT ![s] = None]
    /\ DeinitSigAltStack(s)
    /\ running' = [running EXCEPT ![s] = "ended"]
    /\ ReleaseThreadArgs(s)
    /\ Goto(s, "ended")
    /\ UNCHANGED <<fixedVars, threads, lastIndex, held, raw, forkedStack, contexts, innermost,
                   ghostVars, process>>
-----------------------------------------------------------------------------
(* joinThread and detachThread.                                             *)

\* removeThreadById: the map's reference moves to the caller.
RemoveThreadById(a, id, where) ==
    /\ pc[a] = "run"
    /\ id \in given \cap DOMAIN threads
    /\ threads' = Restrict(threads, DOMAIN threads \ {id})
    /\ thread' = [thread EXCEPT ![threads[id]].id = 0]
    /\ held' = [held EXCEPT ![a] = threads[id]]
    /\ Goto(a, where)
    /\ UNCHANGED <<fixedVars, lastIndex, running, handleRefs, raw, currentThread, forkedStack,
                   signalVars, ghostVars, process>>

\* validateThreadId throws: the id is zero, or not in the map any more.
InvalidThreadId(a, id) ==
    /\ id \notin DOMAIN threads
    /\ ThrowException(a)

\* Platform::joinThread deletes the handle without waiting.
JoinWaits_Not(s) == TRUE

JoinWaits(s) == running[s] = "ended"

\* Platform::joinThread returns; a thread that joins itself is an error.
JoinPlatformThread(a) ==
    LET s == held[a] IN
    /\ pc[a] = "join"
    /\ IF s = a /\ platform = "posix"
       THEN process' = "fatal" /\ UNCHANGED <<thread, handleRefs, pc>>
       ELSE /\ JoinWaits(s)
            /\ ReleaseHandle(s)
            /\ thread' = [thread EXCEPT ![s].hasHandle = FALSE]
            /\ Goto(a, "joined")
            /\ UNCHANGED process
    /\ UNCHANGED <<fixedVars, threads, lastIndex, running, localVars, forkedStack, signalVars,
                   ghostVars>>

\* What joinThread reads from a Thread: its exception, or its result.
JoinResult(s) == IF thread[s].threwException THEN "exception" ELSE thread[s].result

\* The result is read under resultMutex, and the caller's reference dropped; an
\* exception of the thread is thrown again.
JoinReturns(a) ==
    LET s == held[a] IN
    /\ pc[a] = "joined"
    /\ thread' = [thread EXCEPT ![s] = removeRef(@)]
    /\ held' = [held EXCEPT ![a] = None]
    /\ IF JoinResult(s) = "exception"
       THEN Unwind(a, innermost[a])
       ELSE Goto(a, "run") /\ UNCHANGED <<signalVars, outcome>>
    /\ UNCHANGED <<fixedVars, threads, lastIndex, running, handleRefs, raw, currentThread,
                   forkedStack, given, process>>

DetachPlatformThread(a) ==
    LET s == held[a] IN
    /\ pc[a] = "detach"
    /\ ReleaseHandle(s)
    /\ thread' = [thread EXCEPT ![s].hasHandle = FALSE]
    /\ Goto(a, "detached")
    /\ UNCHANGED <<fixedVars, threads, lastIndex, running, localVars, forkedStack, signalVars,
                   ghostVars, process>>

\* An exception that was stored is a fatal error.
CheckDetached(a) ==
    /\ pc[a] = "detached"
    /\ process' = IF thread[held[a]].threwException THEN "fatal" ELSE process
    /\ Goto(a, "release")
    /\ UNCHANGED <<fixedVars, objectVars, running, handleRefs, localVars, forkedStack,
                   signalVars, ghostVars>>

DetachReturns(a) ==
    /\ pc[a] = "release"
    /\ thread' = [thread EXCEPT ![held[a]] = removeRef(@)]
    /\ held' = [held EXCEPT ![a] = None]
    /\ Goto(a, "run")
    /\ UNCHANGED <<fixedVars, threads, lastIndex, running, handleRefs, raw, currentThread,
                   forkedStack, signalVars, ghostVars, process>>
-----------------------------------------------------------------------------
\* Steps of the runtime, which follow without a choice of WebAssembly code.
Progress(a) ==
    /\ process = "running"
    /\ \/ ReturnThreadId(a)
       \/ CopyStack(a) \/ ListChild(a) \/ ForkReturnsInParent(a)
       \/ JoinPlatformThread(a) \/ JoinReturns(a)
       \/ DetachPlatformThread(a) \/ CheckDetached(a) \/ DetachReturns(a)
       \/ a = Main /\ Enter
       \/ /\ a \in Slots
          /\ \/ SetCurrentThread(a) \/ EnterFunction(a) \/ ForkReturnsInChild(a)
             \/ CatchException(a) \/ EndThread(a)

\* What WebAssembly code does next.
Guest(a) ==
    /\ process = "running"
    /\ \/ \E s \in Slots : CreateThread(a, s) \/ ForkThread(a, s)
       \/ \E id \in given :
             \/ RemoveThreadById(a, id, "join")
             \/ RemoveThreadById(a, id, "detach")
       \/ \E id \in given \cup {0} : InvalidThreadId(a, id)
       \/ ThrowInThunk(a) \/ Fault(a) \/ FaultInDeadFrame(a)
       \/ a = Main /\ Leave
       \/ a \in Slots /\ \E how \in {"returned", "exited"} : StoreResult(a, how)

Next == \E a \in Actors : Progress(a) \/ Guest(a)

Spec == Init /\ [][Next]_vars

\* Threads inside the runtime keep being scheduled; WebAssembly code may loop.
FairSpec == Spec /\ \A a \in Actors : WF_vars(Progress(a))
-----------------------------------------------------------------------------
(* Properties.                                                              *)

Count(condition) == IF condition THEN 1 ELSE 0

\* The references to a Thread, wherever they are kept.
Holders(s) ==
    Count(\E id \in DOMAIN threads : threads[id] = s)
  + Count(pc[s] \in {"entry", "entered", "forkEntry", "forked"})
  + Cardinality({a \in Actors : currentThread[a] = s})
  + Cardinality({a \in Actors : held[a] = s})
  + Cardinality({a \in Actors : raw[a] = s /\ pc[a] # "created"})


\* joinThread returns what the thread's function ended with: not a result that is
\* still to come, nor the result of a thread that threw, nor what the parent or the
\* child of a fork ended with (ThreadTest.cpp:127-141, 247-255).
OutcomesAreExact ==
    \A a \in Actors : pc[a] = "joined" => JoinResult(held[a]) = outcome[held[a]]

\* A thread that ended and was joined or detached is forgotten: its Thread, and with
\* it the roots that keep its context and function, and its handle are freed.
ThreadsAreReclaimed ==
    \A s \in Slots :
        /\ running[s] = "ended"
        /\ thread[s].id = 0
        /\ \A a \in Actors : raw[a] # s          \* not just forked
        ~> \/ thread[s].state = "deleted" /\ handleRefs[s] = 0
           \/ process # "running"

TopContext(a) == Context(a, Len(contexts[a]))



\* "If the thread has already been detached, the exception is fatal"
\* (ThreadTest.cpp:134): when detachThread is about to return, it does not leave an
\* exception behind that nobody can ask for.
NoExceptionIsLost ==
    \A a \in Actors :
        pc[a] = "release" /\ process = "running" => ~ thread[held[a]].threwException
=============================================================================
