------------------------- MODULE AtomicsWakeProofs -------------------------
(***************************************************************************)
(* The proof that no wake is missed.  NoMissedWake needs two more facts to *)
(* be inductive: the list mutex excludes, so that no notify can run        *)
(* between a waiter's comparison and the publication of its event; and a   *)
(* waiter in between has already been overtaken only by stores that are    *)
(* still unanswered.                                                       *)
(***************************************************************************)
EXTENDS AtomicsProofs

USE NoneAssumption DEF PCs, Holding

\* A call between its lock and its unlock of the list owns the list's mutex.
MutexHeld ==
  \A t \in Threads : pc[t] \in Locking => listMutex[call[t].list] = t

\* A thread that has compared the value and not yet published its event: the
\* store that overtook it is not answered yet, since it owns the mutex.
PendingPush ==
  \A t \in Threads :
    pc[t] = "waitPush" /\ memory[call[t].addr] # call[t].expected => call[t].addr \in unanswered

WakeInv == LiveInv /\ MutexHeld /\ PendingPush /\ NoMissedWake

\* Erasing adds no thread to a wake list.
LEMMA EraseElements ==
  ASSUME NEW S, NEW s \in Seq(S), NEW i \in 1..Len(s), NEW k \in 1..Len(Erase(s, i))
  PROVE  \E j \in 1..Len(s) : Erase(s, i)[k] = s[j]
<1> DEFINE p == SubSeq(s, 1, i - 1)
           q == SubSeq(s, i + 1, Len(s))
<1>1. /\ p \in Seq(S) /\ Len(p) = i - 1
      /\ \A j \in 1..(i - 1) : p[j] = s[j]
  OBVIOUS
<1>2. /\ q \in Seq(S) /\ Len(q) = Len(s) - i
      /\ \A j \in 1..(Len(s) - i) : q[j] = s[i + j]
  OBVIOUS
<1>3. Erase(s, i) = p \o q
  BY DEF Erase
<1> HIDE DEF p, q
<1>4. k \in 1..(Len(p) + Len(q))
      /\ Erase(s, i)[k] = IF k <= Len(p) THEN p[k] ELSE q[k - Len(p)]
  BY <1>1, <1>2, <1>3
<1>5. CASE k <= Len(p)
  BY <1>1, <1>4, <1>5
<1>6. CASE k > Len(p)
  <2>1. Erase(s, i)[k] = s[i + (k - Len(p))] /\ i + (k - Len(p)) \in 1..Len(s)
    BY <1>1, <1>2, <1>4, <1>6
  <2> QED BY <2>1
<1> QED BY <1>1, <1>4, <1>5, <1>6

\* A step that neither stores nor answers a store, and adds nobody to a list
\* but a thread that was about to be added, keeps NoMissedWake.
LEMMA QuietStep ==
  ASSUME WakeInv, NEW t \in Threads,
         UNCHANGED <<memory, unanswered>>,
         \A u \in Threads \ {t} : pc'[u] = pc[u] /\ call'[u] = call[u],
         \A u \in Threads \ {t} : Waiting(u) /\ u \in Listed(call[u].list)'
                                    => u \in Listed(call[u].list),
         Waiting(t)' /\ t \in Listed(call[t].list)' => pc[t] = "waitPush" \/
                                                      (Waiting(t) /\ t \in Listed(call[t].list)),
         pc'[t] = "waitPush" => memory[call[t].addr] = call[t].expected,
         Waiting(t)' \/ pc'[t] = "waitPush" => call'[t].addr = call[t].addr
                                              /\ call'[t].expected = call[t].expected
  PROVE  PendingPush' /\ NoMissedWake'
<1>1. PendingPush'
  <2> SUFFICES ASSUME NEW u \in Threads, pc'[u] = "waitPush",
                      memory'[call'[u].addr] # call'[u].expected
               PROVE  call'[u].addr \in unanswered'
    BY DEF PendingPush
  <2>1. CASE u = t
    BY <2>1
  <2>2. CASE u # t
    BY <2>2 DEF WakeInv, PendingPush
  <2> QED BY <2>1, <2>2
<1>2. NoMissedWake'
  <2> SUFFICES ASSUME NEW u \in Threads, Waiting(u)', (u \in Listed(call[u].list))',
                      memory'[call'[u].addr] # call'[u].expected
               PROVE  (call[u].addr \in unanswered)'
    BY DEF NoMissedWake
  <2>1. CASE u = t
    BY <2>1 DEF WakeInv, NoMissedWake, PendingPush
  <2>2. CASE u # t
    BY <2>2 DEF WakeInv, NoMissedWake, Waiting, Listed
  <2> QED BY <2>1, <2>2
<1> QED BY <1>1, <1>2

\* A step of thread t that leaves the mutexes alone and takes t to no place
\* where it would need one keeps MutexHeld.
LEMMA MutexUntouched ==
  ASSUME MutexHeld, NEW t \in Threads, UNCHANGED listMutex,
         \A u \in Threads \ {t} : pc'[u] = pc[u] /\ call'[u] = call[u],
         pc'[t] \in Locking => pc[t] \in Locking /\ call'[t].list = call[t].list
  PROVE  MutexHeld'
BY DEF MutexHeld

\* So does unlocking, if t owned the mutex and goes where it needs none.
LEMMA MutexReleased ==
  ASSUME LiveInv, MutexHeld, NEW t \in Threads, pc[t] \in Locking, ReleaseList(t),
         \A u \in Threads \ {t} : pc'[u] = pc[u] /\ call'[u] = call[u],
         pc'[t] \notin Locking
  PROVE  MutexHeld'
<1>1. \A u \in Threads \ {t} : pc[u] \in Locking => call[u].list # call[t].list
  BY DEF MutexHeld
<1>2. \A u \in Threads : pc[u] \in Locking => call[u].list \in Lists
  BY DEF LiveInv, CallsAreOpen, Locking
<1> QED BY <1>1, <1>2, Zenon DEF MutexHeld, ReleaseList, LiveInv, TypeOK

\* So does locking a mutex that is free.
LEMMA MutexAcquired ==
  ASSUME LiveInv, MutexHeld, NEW t \in Threads, pc[t] # "idle", AcquireList(t),
         \A u \in Threads \ {t} : pc'[u] = pc[u] /\ call'[u] = call[u],
         call'[t].list = call[t].list
  PROVE  MutexHeld'
<1>1. \A u \in Threads : pc[u] \in Locking => call[u].list # call[t].list
  BY DEF MutexHeld, AcquireList
<1>2. \A u \in Threads : pc[u] \in Locking => call[u].list \in Lists
  BY DEF LiveInv, CallsAreOpen, Locking
<1>3. call[t].list \in Lists
  BY DEF LiveInv, CallsAreOpen
<1> QED BY <1>1, <1>2, <1>3, ZenonT(30) DEF MutexHeld, AcquireList, LiveInv, TypeOK

\* The steps that leave the wake lists alone, the start of a call apart.
LEMMA ListStepsWake ==
  ASSUME WakeInv, NEW t \in Threads, LiveInv', UNCHANGED <<memory, wakeEvents, unanswered>>,
         pc[t] # "idle", \A u \in Threads \ {t} : pc'[u] = pc[u] /\ call'[u] = call[u],
         Waiting(t)' => Waiting(t), MutexHeld',
         pc'[t] = "waitPush" => memory[call[t].addr] = call[t].expected,
         Waiting(t)' \/ pc'[t] = "waitPush" => call'[t] = call[t]
  PROVE  WakeInv'
<1>1. \A u \in Threads \ {t} : (u \in Listed(call[u].list))' => u \in Listed(call[u].list)
  BY DEF Listed
<1>2. Waiting(t)' /\ (t \in Listed(call[t].list))' => Waiting(t) /\ t \in Listed(call[t].list)
  BY DEF Listed
<1>3. PendingPush' /\ NoMissedWake'
  BY <1>1, <1>2, QuietStep
<1> QED BY <1>3 DEF WakeInv

LEMMA SimpleStepsWake ==
  ASSUME WakeInv, NEW t \in Threads, LiveInv',
         \/ LockForWait(t) \/ EnterEventWait(t) \/ WakeUp(t) \/ SpuriousWakeUp(t) \/ TimeOut(t)
         \/ LockForNotify(t) \/ SignalNext(t)
  PROVE  WakeInv'
<1> USE DEF WakeInv, Goto
<1>0. /\ pc \in [Threads -> PCs] /\ call \in [Threads -> Calls]
      /\ call' \in [Threads -> Calls]
  BY DEF LiveInv, TypeOK
<1>1. CASE LockForWait(t)
  <2>1. MutexHeld'
    BY <1>0, <1>1, MutexAcquired DEF LockForWait
  <2> QED BY <1>0, <1>1, <2>1, ListStepsWake, Zenon DEF LockForWait, Waiting, ghostVars
<1>2. CASE EnterEventWait(t) \/ TimeOut(t)
  <2>1. MutexHeld'
    BY <1>0, <1>2, MutexUntouched, Zenon DEF EnterEventWait, TimeOut, Locking
  <2> QED BY <1>0, <1>2, <2>1, ListStepsWake, Zenon DEF EnterEventWait, TimeOut, Waiting, ghostVars
<1>3. CASE WakeUp(t) \/ SpuriousWakeUp(t)
  <2>1. MutexHeld'
    BY <1>0, <1>3, MutexUntouched DEF WakeUp, SpuriousWakeUp, Locking
  <2> QED BY <1>0, <1>3, <2>1, ListStepsWake DEF WakeUp, SpuriousWakeUp, Waiting, ghostVars
<1>4. CASE LockForNotify(t)
  <2>1. MutexHeld'
    BY <1>0, <1>4, MutexAcquired DEF LockForNotify, Calls
  <2> QED BY <1>0, <1>4, <2>1, ListStepsWake DEF LockForNotify, Waiting, ghostVars
<1>5. CASE SignalNext(t)
  <2>1. MutexHeld'
    BY <1>0, <1>5, MutexUntouched DEF SignalNext, Locking, Calls
  <2> QED BY <1>0, <1>5, <2>1, ListStepsWake DEF SignalNext, Waiting, ghostVars
<1> QED BY <1>1, <1>2, <1>3, <1>4, <1>5

LEMMA UnlockingStepsWake ==
  ASSUME WakeInv, NEW t \in Threads, LiveInv',
         LoadValue(t) \/ ResetEvent(t) \/ CloseDecrement(t) \/ CloseRecheck(t)
  PROVE  WakeInv'
<1> USE DEF WakeInv, Goto
<1>0. pc \in [Threads -> PCs] /\ call \in [Threads -> Calls]
  BY DEF LiveInv, TypeOK
<1>1. CASE LoadValue(t)
  <2>1. CASE ReleaseList(t) /\ pc'[t] \in {"idle", "close"} /\ (\E c : call' = [call EXCEPT ![t] = c])
    <3>1. MutexHeld'
      BY <1>0, <1>1, <2>1, MutexReleased DEF LoadValue, Locking
    <3> QED BY <1>0, <1>1, <2>1, <3>1, ListStepsWake DEF LoadValue, Waiting
  <2>2. CASE /\ memory[call[t].addr] = call[t].expected
             /\ Goto(t, "waitPush") /\ UNCHANGED <<listMutex, leaked, call>>
    <3>1. MutexHeld'
      BY <1>0, <1>1, <2>2, MutexUntouched DEF LoadValue, Locking
    <3> QED BY <1>0, <1>1, <2>2, <3>1, ListStepsWake DEF LoadValue, Waiting
  <2> QED BY <1>0, <1>1, <2>1, <2>2 DEF LoadValue
<1>2. CASE ResetEvent(t)
  <2>1. CASE UNCHANGED <<signaled, call, listMutex, pc>>
    <3>1. MutexHeld'
      BY <1>0, <1>2, <2>1, MutexUntouched DEF ResetEvent, Locking
    <3> QED BY <1>0, <1>2, <2>1, <3>1, ListStepsWake DEF ResetEvent, Waiting, ghostVars
  <2>2. CASE ReleaseList(t) /\ Goto(t, "close") /\ (\E c : call' = [call EXCEPT ![t] = c])
    <3>1. MutexHeld'
      BY <1>0, <1>2, <2>2, MutexReleased DEF ResetEvent, Locking
    <3> QED BY <1>0, <1>2, <2>2, <3>1, ListStepsWake DEF ResetEvent, Waiting, ghostVars
  <2> QED BY <1>2, <2>1, <2>2 DEF ResetEvent
<1>3. CASE CloseDecrement(t) \/ CloseRecheck(t)
  <2>1. /\ pc[t] \in {"close", "closeRecheck"} /\ pc'[t] \in {"idle", "closeRecheck"}
        /\ \A u \in Threads \ {t} : pc'[u] = pc[u] /\ call'[u] = call[u]
        /\ UNCHANGED <<memory, wakeEvents, unanswered, listMutex>>
    BY <1>0, <1>3 DEF CloseDecrement, CloseRecheck, Return
  <2>2. MutexHeld'
    BY <2>1, MutexUntouched, Zenon DEF Locking
  <2> QED BY <2>1, <2>2, ListStepsWake, Zenon DEF Waiting
<1> QED BY <1>1, <1>2, <1>3

LEMMA PushWake ==
  ASSUME WakeInv, NEW t \in Threads, LiveInv', PushWakeEvent(t)
  PROVE  WakeInv'
<1> USE DEF WakeInv, Goto
<1>0. /\ pc[t] = "waitPush" /\ pc'[t] = "eventWait" /\ call' = call
      /\ \A u \in Threads \ {t} : pc'[u] = pc[u]
      /\ call[t].list \in Lists /\ wakeEvents \in [Lists -> Seq(Threads)]
      /\ wakeEvents' = [wakeEvents EXCEPT ![call[t].list] = Append(@, t)]
      /\ UNCHANGED <<memory, unanswered>>
  BY Zenon DEF PushWakeEvent, LiveInv, TypeOK, CallsAreOpen, ghostVars
<1>1. MutexHeld'
  BY <1>0, MutexReleased, Zenon DEF PushWakeEvent, Locking
<1>2. \A u \in Threads \ {t} : Waiting(u) /\ (u \in Listed(call[u].list))'
                                => u \in Listed(call[u].list)
  <2> SUFFICES ASSUME NEW u \in Threads \ {t}, Waiting(u), (u \in Listed(call[u].list))'
               PROVE  u \in Listed(call[u].list)
    OBVIOUS
  <2>1. call[u].list \in Lists
    BY DEF Waiting, LiveInv, CallsAreOpen
  <2>2. CASE call[u].list # call[t].list
    BY <1>0, <2>1, <2>2 DEF Listed
  <2>3. CASE call[u].list = call[t].list
    <3> DEFINE s == wakeEvents[call[t].list]
    <3>1. s \in Seq(Threads) /\ wakeEvents'[call'[u].list] = Append(s, t)
      BY <1>0, <2>3
    <3>2. PICK i \in 1..Len(Append(s, t)) : Append(s, t)[i] = u
      BY <3>1 DEF Listed
    <3>3. i \in 1..Len(s) /\ s[i] = u
      BY <3>1, <3>2
    <3> QED BY <2>3, <3>3 DEF Listed
  <2> QED BY <2>2, <2>3
<1>3. PendingPush' /\ NoMissedWake'
  BY <1>0, <1>2, QuietStep
<1> QED BY <1>1, <1>3

LEMMA CheckTimedOutWake ==
  ASSUME WakeInv, NEW t \in Threads, LiveInv', CheckTimedOut(t)
  PROVE  WakeInv'
<1> USE DEF WakeInv, Goto
<1>0. /\ pc[t] = "timedOut" /\ pc'[t] \in {"close", "resetWait"}
      /\ \A u \in Threads \ {t} : pc'[u] = pc[u] /\ call'[u] = call[u]
      /\ call[t].list \in Lists /\ wakeEvents \in [Lists -> Seq(Threads)]
      /\ UNCHANGED <<memory, unanswered>>
  BY DEF CheckTimedOut, LiveInv, TypeOK, CallsAreOpen, ghostVars
<1>1. CASE \E i \in PositionsOf(t, wakeEvents[call[t].list]) :
             /\ wakeEvents' = [wakeEvents EXCEPT ![call[t].list] = Erase(@, i)]
             /\ UNCHANGED listMutex /\ Goto(t, "close")
  <2>1. PICK i \in 1..Len(wakeEvents[call[t].list]) :
               wakeEvents' = [wakeEvents EXCEPT ![call[t].list] = Erase(@, i)]
    BY <1>1, Zenon DEF PositionsOf
  <2>2. MutexHeld'
    BY <1>0, <1>1, MutexUntouched DEF Locking
  <2>3. \A u \in Threads \ {t} : Waiting(u) /\ (u \in Listed(call[u].list))'
                                => u \in Listed(call[u].list)
    <3> SUFFICES ASSUME NEW u \in Threads \ {t}, Waiting(u), (u \in Listed(call[u].list))'
                 PROVE  u \in Listed(call[u].list)
      OBVIOUS
    <3>1. call[u].list \in Lists
      BY DEF Waiting, LiveInv, CallsAreOpen
    <3>2. CASE call[u].list # call[t].list
      BY <1>0, <2>1, <3>1, <3>2, Zenon DEF Listed
    <3>3. CASE call[u].list = call[t].list
      <4> DEFINE s == wakeEvents[call[t].list]
      <4>1. s \in Seq(Threads) /\ wakeEvents'[call'[u].list] = Erase(s, i)
        BY <1>0, <2>1, <3>3
      <4>2. PICK k \in 1..Len(Erase(s, i)) : Erase(s, i)[k] = u
        BY <4>1 DEF Listed
      <4>3. \E j \in 1..Len(s) : Erase(s, i)[k] = s[j]
        <5>1. i \in 1..Len(s)
          OBVIOUS
        <5> HIDE DEF s
        <5> QED BY <4>1, <4>2, <5>1, EraseElements
      <4>4. PICK j \in 1..Len(s) : s[j] = u
        BY <4>2, <4>3, Zenon
      <4> QED BY <3>3, <4>4 DEF Listed
    <3> QED BY <3>2, <3>3
  <2>4. PendingPush' /\ NoMissedWake'
    BY <1>0, <1>1, <2>3, QuietStep, Zenon DEF Waiting
  <2> QED BY <2>2, <2>4
<1>2. CASE /\ listMutex[call[t].list] = None
           /\ listMutex' = [listMutex EXCEPT ![call[t].list] = t]
           /\ Goto(t, "resetWait") /\ UNCHANGED <<wakeEvents, call>>
  <2>1. MutexHeld'
    BY <1>0, <1>2, MutexAcquired, Zenon DEF AcquireList
  <2> QED BY <1>0, <1>2, <2>1, ListStepsWake DEF Waiting
<1> QED BY <1>0, <1>1, <1>2, Zenon DEF CheckTimedOut

\* The notify that empties a list answers the stores to its address: no
\* thread is left in the list, and none is between comparison and push.
LEMMA EraseSignaledWake ==
  ASSUME WakeInv, NEW t \in Threads, LiveInv', EraseSignaled(t)
  PROVE  WakeInv'
<1> USE DEF WakeInv, Goto
<1> DEFINE l == call[t].list
           rest == SubSeq(wakeEvents[l], call[t].toWake + 1, Len(wakeEvents[l]))
<1>0. /\ pc[t] = "notifySignal" /\ pc'[t] = "close" /\ call' = call
      /\ \A u \in Threads \ {t} : pc'[u] = pc[u]
      /\ l \in Lists /\ wakeEvents \in [Lists -> Seq(Threads)] /\ call[t].toWake \in Nat
      /\ wakeEvents' = [wakeEvents EXCEPT ![l] = rest]
      /\ unanswered' = IF rest = << >> THEN unanswered \ {call[t].addr} ELSE unanswered
      /\ UNCHANGED memory
  BY DEF EraseSignaled, LiveInv, TypeOK, CallsAreOpen, Calls
<1>1. MutexHeld'
  BY <1>0, MutexReleased, Zenon DEF EraseSignaled, Locking
<1>2. \A u \in Threads : pc[u] \in Holding /\ call[u].list # l => call[u].addr # call[t].addr
  BY <1>0, Zenon DEF LiveInv, HeldListIsLive
<1>3. \A k \in 1..Len(rest) : \E j \in 1..Len(wakeEvents[l]) : rest[k] = wakeEvents[l][j]
  <2> DEFINE s == wakeEvents[l]
             n == call[t].toWake + 1
  <2>1. s \in Seq(Threads) /\ n \in Nat \ {0} /\ Len(s) \in Nat
    BY <1>0
  <2> HIDE DEF s, n
  <2>2. \A i \in n..Len(s) : s[i] \in Threads
    BY <2>1
  <2>3. /\ Len(SubSeq(s, n, Len(s))) = IF n <= Len(s) THEN Len(s) - n + 1 ELSE 0
        /\ \A i \in 1..(Len(s) - n + 1) : SubSeq(s, n, Len(s))[i] = s[n + i - 1]
    BY <2>1, <2>2
  <2>4. \A k \in 1..Len(SubSeq(s, n, Len(s))) :
          \E j \in 1..Len(s) : SubSeq(s, n, Len(s))[k] = s[j]
    BY <2>1, <2>3
  <2> QED BY <2>4, Zenon DEF s, n
<1> HIDE DEF rest
<1>4. PendingPush'
  <2> SUFFICES ASSUME NEW u \in Threads, pc[u] = "waitPush", memory[call[u].addr] # call[u].expected
               PROVE  call[u].addr \in unanswered'
    BY <1>0 DEF PendingPush
  <2>1. call[u].list # l
    BY <1>0 DEF MutexHeld, Locking
  <2>2. call[u].addr # call[t].addr
    BY <1>2, <2>1
  <2> QED BY <1>0, <2>2 DEF PendingPush
<1>5. NoMissedWake'
  <2> SUFFICES ASSUME NEW u \in Threads, Waiting(u)', (u \in Listed(call[u].list))',
                      memory[call[u].addr] # call[u].expected
               PROVE  call[u].addr \in unanswered'
    BY <1>0 DEF NoMissedWake
  <2>0. u # t /\ Waiting(u) /\ pc[u] \in Holding /\ call[u].list \in Lists
    BY <1>0 DEF Waiting, LiveInv, CallsAreOpen
  <2>1. CASE call[u].list # l
    <3>1. u \in Listed(call[u].list)
      BY <1>0, <2>0, <2>1 DEF Listed
    <3> QED BY <1>0, <1>2, <2>0, <2>1, <3>1, Zenon DEF NoMissedWake
  <2>2. CASE call[u].list = l
    <3>1. wakeEvents'[call'[u].list] = rest
      BY <1>0, <2>2
    <3>2. PICK k \in 1..Len(rest) : rest[k] = u
      BY <3>1 DEF Listed
    <3>3. u \in Listed(call[u].list)
      BY <1>3, <2>2, <3>2, Zenon DEF Listed
    <3>4. rest # << >>
      BY <3>2
    <3> QED BY <1>0, <2>0, <3>3, <3>4, Zenon DEF NoMissedWake
  <2> QED BY <2>1, <2>2
<1> QED BY <1>1, <1>4, <1>5

\* Opening a list adds no waiter: the thread is not listed as waiting, and a
\* new list is empty and nobody's.
LEMMA OpenWake ==
  ASSUME WakeInv, NEW t \in Threads, LiveInv', NEW a, NEW c, NEW label \in {"waitLock", "notifyLock"},
         pc[t] = "idle", openWaitList(t, a, c), Goto(t, label), UNCHANGED <<memory, unanswered>>
  PROVE  WakeInv'
<1> USE DEF WakeInv, Goto
<1>0. /\ pc \in [Threads -> PCs] /\ call \in [Threads -> Calls]
      /\ wakeEvents \in [Lists -> Seq(Threads)] /\ listMutex \in [Lists -> Threads \union {None}]
  BY DEF LiveInv, TypeOK
<1>1. PICK l \in Lists : /\ FindWaitList(l, a) \/ CreateWaitList(l, a)
                         /\ call' = [call EXCEPT ![t] = [c EXCEPT !.list = l]]
  BY Zenon DEF openWaitList
<1>2. /\ pc'[t] = label
      /\ \A u \in Threads \ {t} : pc'[u] = pc[u] /\ call'[u] = call[u]
  BY <1>0, <1>1
<1>3. \A u \in Threads \ {t} : pc[u] # "idle" => wakeEvents'[call[u].list] = wakeEvents[call[u].list]
                                               /\ listMutex'[call[u].list] = listMutex[call[u].list]
  BY <1>0, <1>1 DEF FindWaitList, CreateWaitList, LiveInv, CallsAreOpen
<1>4. MutexHeld'
  BY <1>2, <1>3, Zenon DEF MutexHeld, Locking
<1>5. \A u \in Threads \ {t} : Waiting(u) /\ (u \in Listed(call[u].list))'
                                => u \in Listed(call[u].list)
  <2>1. \A u \in Threads \ {t} : Waiting(u) => /\ call'[u] = call[u]
                                               /\ wakeEvents'[call[u].list] = wakeEvents[call[u].list]
    BY <1>2, <1>3 DEF Waiting
  <2> QED BY <2>1 DEF Listed
<1>6. PendingPush' /\ NoMissedWake'
  BY <1>2, <1>5, QuietStep DEF Waiting
<1> QED BY <1>4, <1>6

LEMMA CallStepsWake ==
  ASSUME WakeInv, NEW t \in Threads, LiveInv', Call(t)
  PROVE  WakeInv'
<1>1. ASSUME NEW a \in Addresses, NEW v \in Values, NEW b \in BOOLEAN, StartWait(t, a, v, b)
      PROVE  WakeInv'
  BY <1>1, OpenWake DEF StartWait
<1>2. ASSUME NEW a \in Addresses, NEW n \in Counts, StartNotify(t, a, n)
      PROVE  WakeInv'
  BY <1>2, OpenWake DEF StartNotify
<1>3. ASSUME NEW a \in Addresses, NEW v \in Values, Store(t, a, v)
      PROVE  WakeInv'
  <2>1. /\ memory' = [memory EXCEPT ![a] = v] /\ unanswered' = unanswered \union {a}
        /\ UNCHANGED <<pc, call, wakeEvents, listMutex>>
        /\ memory \in [Addresses -> Values]
    BY <1>3 DEF Store, WakeInv, LiveInv, TypeOK
  <2>2. \A u \in Threads : Waiting(u)' = Waiting(u)
                          /\ (u \in Listed(call[u].list))' = (u \in Listed(call[u].list))
    BY <2>1, Zenon DEF Waiting, Listed
  <2>3. \A b \in Addresses \ {a} : memory'[b] = memory[b]
    BY <2>1
  <2>4. \A u \in Threads : Waiting(u) \/ pc[u] = "waitPush" => call[u].addr \in Addresses
    BY DEF WakeInv, LiveInv, CallsAreOpen, Waiting
  <2>5. MutexHeld' /\ PendingPush'
    BY <2>1, <2>3, <2>4 DEF WakeInv, MutexHeld, PendingPush
  <2>6. NoMissedWake'
    BY <2>1, <2>2, <2>3, <2>4 DEF WakeInv, NoMissedWake
  <2> QED BY <2>5, <2>6 DEF WakeInv
<1> QED BY <1>1, <1>2, <1>3 DEF Call

LEMMA WakeInvStep == WakeInv /\ [Next]_vars => WakeInv'
<1> SUFFICES ASSUME WakeInv, [Next]_vars PROVE WakeInv'
  OBVIOUS
<1>0. LiveInv'
  BY LiveInvStep DEF WakeInv
<1>1. CASE UNCHANGED vars
  <2>1. \A u \in Threads : Waiting(u)' = Waiting(u)
                          /\ (u \in Listed(call[u].list))' = (u \in Listed(call[u].list))
    BY <1>1 DEF vars, Waiting, Listed
  <2>2. MutexHeld' /\ PendingPush'
    BY <1>1 DEF vars, ghostVars, WakeInv, MutexHeld, PendingPush
  <2>3. NoMissedWake'
    BY <1>1, <2>1 DEF vars, ghostVars, WakeInv, NoMissedWake
  <2> QED BY <1>0, <2>2, <2>3 DEF WakeInv
<1>2. ASSUME NEW t \in Threads, Call(t) \/ Progress(t) \/ SpuriousWakeUp(t)
      PROVE  WakeInv'
  <2>1. CASE Call(t)
    BY <1>0, <2>1, CallStepsWake
  <2>2. CASE Progress(t) \/ SpuriousWakeUp(t)
    BY <1>0, <2>2, SimpleStepsWake, UnlockingStepsWake, PushWake, CheckTimedOutWake,
       EraseSignaledWake DEF Progress
  <2> QED BY <1>2, <2>1, <2>2
<1> QED BY <1>1, <1>2 DEF Next

\* No waiter is overtaken: a thread that is still listed and waits for a value
\* that is gone has a store of its address pending that no notify-all has
\* answered, whatever the interleaving of waits, stores, notifies and
\* timeouts, on both kinds of event.
THEOREM NoWakeIsMissed == Spec => []NoMissedWake
<1>1. Init => WakeInv
  BY LiveInvInit DEF Init, WakeInv, MutexHeld, PendingPush, NoMissedWake, Locking, Waiting
<1>2. WakeInv => NoMissedWake
  BY DEF WakeInv
<1> QED BY <1>1, <1>2, WakeInvStep, PTL DEF Spec

\* Two calls never own the mutex of one list.
THEOREM ListMutexExcludes ==
  Spec => [](\A t, u \in Threads : pc[t] \in Locking /\ pc[u] \in Locking /\ t # u
                                  => call[t].list # call[u].list)
<1>1. Init => WakeInv
  BY LiveInvInit DEF Init, WakeInv, MutexHeld, PendingPush, NoMissedWake, Locking, Waiting
<1>2. WakeInv => (\A t, u \in Threads : pc[t] \in Locking /\ pc[u] \in Locking /\ t # u
                                        => call[t].list # call[u].list)
  BY Zenon DEF WakeInv, MutexHeld
<1> QED BY <1>1, <1>2, WakeInvStep, PTL DEF Spec
=============================================================================
