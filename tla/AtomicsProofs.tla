--------------------------- MODULE AtomicsProofs ---------------------------
(***************************************************************************)
(* Proofs about Atomics, for any threads, addresses, values and number of  *)
(* calls and for both kinds of event.                                      *)
(*                                                                         *)
(* HeldListIsLive is not inductive: that a list is not deleted under a     *)
(* call follows from its reference count being the number of calls that    *)
(* hold it (plus the references lost to faulting loads), and that the map  *)
(* still leads to it follows from every list having one address.           *)
(***************************************************************************)
EXTENDS Atomics, FiniteSetTheorems, TLAPS

\* The calls that own a reference of list l.
Holders(l) == {t \in Threads : pc[t] \in Holding /\ call[t].list = l}

\* WaitList::numReferences counts the calls that hold the list.
RefsCounted ==
  \A l \in allocated : numReferences[l] = Cardinality(Holders(l)) + leaked[l]

\* The map leads to live lists only, and no list belongs to two addresses.
MapIsInjective ==
  /\ \A a \in Addresses : waitListMap[a] # None => waitListMap[a] \in allocated
  /\ \A a, b \in Addresses : waitListMap[a] = waitListMap[b] /\ waitListMap[a] # None => a = b

\* A call that may delete its list has not lost track of the list's address.
RecheckIsMapped ==
  \A t \in Threads : pc[t] = "closeRecheck" /\ call[t].list \in allocated
    => waitListMap[call[t].addr] = call[t].list

\* A call in progress has a list and an address, and an idle thread has none.
CallsAreOpen ==
  \A t \in Threads : pc[t] # "idle" => call[t].list \in Lists /\ call[t].addr \in Addresses

LiveInv == TypeOK /\ HeldListIsLive /\ RefsCounted /\ MapIsInjective /\ RecheckIsMapped
           /\ CallsAreOpen

USE NoneAssumption DEF PCs, Holding

------------------------------------------------------------------------------
\* Erasing one position of a wake list leaves a wake list.
LEMMA EraseType ==
  ASSUME NEW S, NEW s \in Seq(S), NEW i \in 1..Len(s)
  PROVE  Erase(s, i) \in Seq(S)
<1>1. SubSeq(s, 1, i - 1) \in Seq(S)
  OBVIOUS
<1>2. SubSeq(s, i + 1, Len(s)) \in Seq(S)
  OBVIOUS
<1> QED BY <1>1, <1>2 DEF Erase

\* The holders of a list are finitely many threads.
LEMMA HoldersFinite ==
  ASSUME NEW l
  PROVE  IsFiniteSet(Holders(l)) /\ Cardinality(Holders(l)) \in Nat
BY ThreadsAssumption, FS_Subset, FS_CardinalityType DEF Holders

\* Thread t moves within its call: it keeps its list, its address and its
\* reference, and the heap stays as it is.
InnerStep(t) ==
  /\ pc[t] \in Holding /\ pc'[t] \in Holding
  /\ call'[t].list = call[t].list /\ call'[t].addr = call[t].addr
  /\ \A u \in Threads \ {t} : pc'[u] = pc[u] /\ call'[u] = call[u]
  /\ UNCHANGED <<heapVars, leaked>>

\* A move within a call disturbs no conjunct of LiveInv but the types.
LEMMA InnerStepLive ==
  ASSUME LiveInv, NEW t \in Threads, InnerStep(t), TypeOK'
  PROVE  LiveInv'
<1>1. \A l : Holders(l)' = Holders(l)
  BY DEF InnerStep, Holders
<1>2. RefsCounted'
  BY <1>1 DEF LiveInv, RefsCounted, InnerStep, heapVars
<1>3. HeldListIsLive'
  BY DEF LiveInv, HeldListIsLive, InnerStep, heapVars
<1>4. RecheckIsMapped' /\ MapIsInjective'
  BY DEF LiveInv, RecheckIsMapped, MapIsInjective, InnerStep, heapVars
<1>5. CallsAreOpen'
  BY DEF LiveInv, CallsAreOpen, InnerStep
<1> QED BY <1>2, <1>3, <1>4, <1>5 DEF LiveInv

\* openWaitList preserves LiveInv when the thread goes on holding the list.
LEMMA OpenLive ==
  ASSUME LiveInv, NEW t \in Threads, NEW a \in Addresses, NEW c \in Calls, c.addr = a,
         NEW label \in Holding, pc[t] = "idle", Goto(t, label), openWaitList(t, a, c),
         memory' \in [Addresses -> Values], UNCHANGED <<signaled, fate, unanswered, owed>>,
         calls' \in 0..MaxCalls
  PROVE  LiveInv'
<1> USE DEF LiveInv
<1>1. PICK l \in Lists : /\ FindWaitList(l, a) \/ CreateWaitList(l, a)
                         /\ call' = [call EXCEPT ![t] = [c EXCEPT !.list = l]]
  BY Zenon DEF openWaitList
<1>2. /\ call' \in [Threads -> Calls]
      /\ call'[t].list = l /\ call'[t].addr = a
      /\ pc'[t] = label /\ pc' \in [Threads -> PCs]
      /\ \A u \in Threads \ {t} : pc'[u] = pc[u] /\ call'[u] = call[u]
  BY <1>1, Zenon DEF TypeOK, Calls, Goto
<1>3. Holders(l)' = Holders(l) \union {t} /\ t \notin Holders(l)
  BY <1>2 DEF Holders
<1>4. \A m \in Lists \ {l} : Holders(m)' = Holders(m)
  BY <1>2 DEF Holders
<1>5. Cardinality(Holders(l)') = Cardinality(Holders(l)) + 1
  BY <1>3, HoldersFinite, FS_AddElement, Zenon
<1>6. CASE FindWaitList(l, a)
  <2> USE <1>6 DEF FindWaitList
  <2>1. l \in allocated
    BY DEF MapIsInjective
  <2>2. TypeOK'
    BY <1>2 DEF TypeOK
  <2>3. RefsCounted'
    BY <1>4, <1>5, <2>1, HoldersFinite DEF RefsCounted, TypeOK
  <2>4. HeldListIsLive' /\ RecheckIsMapped' /\ MapIsInjective' /\ CallsAreOpen'
    BY <1>2, <2>1 DEF HeldListIsLive, RecheckIsMapped, MapIsInjective, CallsAreOpen
  <2> QED BY <2>2, <2>3, <2>4
<1>7. CASE CreateWaitList(l, a)
  <2> USE <1>7 DEF CreateWaitList
  <2>1. TypeOK'
    <3>1. << >> \in Seq(Threads)
      OBVIOUS
    <3> QED BY <1>2, <3>1 DEF TypeOK
  <2>2. Holders(l) = {}
    BY DEF Holders
  <2>3. RefsCounted'
    BY <1>4, <1>5, <2>2, FS_EmptySet DEF RefsCounted, TypeOK
  <2>4. \A b \in Addresses : waitListMap[b] # l
    BY DEF MapIsInjective
  <2>5. /\ waitListMap'[a] = l /\ l \in allocated'
        /\ \A b \in Addresses \ {a} : waitListMap'[b] = waitListMap[b]
    BY DEF TypeOK
  <2>6. \A u \in Threads \ {t} : call[u].list \in allocated
                                 /\ call[u].addr \in Addresses
                                 /\ waitListMap[call[u].addr] = call[u].list
                 => waitListMap'[call[u].addr] = call[u].list
    BY <2>5 DEF TypeOK
  <2>7. HeldListIsLive'
    <3> SUFFICES ASSUME NEW u \in Threads, pc'[u] \in Holding
                 PROVE  call'[u].list \in allocated' /\ waitListMap'[call'[u].addr] = call'[u].list
      BY DEF HeldListIsLive
    <3>1. CASE u = t
      BY <1>2, <2>5, <3>1
    <3>2. CASE u # t
      <4>1. pc[u] \in Holding /\ call'[u] = call[u]
        BY <1>2, <3>2 DEF TypeOK
      <4>2. call[u].list \in allocated /\ waitListMap[call[u].addr] = call[u].list
        BY <4>1 DEF HeldListIsLive
      <4>3. call[u].addr \in Addresses
        BY <4>1 DEF CallsAreOpen
      <4> QED BY <2>5, <2>6, <3>2, <4>1, <4>2, <4>3
    <3> QED BY <3>1, <3>2
  <2>8. RecheckIsMapped' /\ CallsAreOpen'
    <3>1. CallsAreOpen'
      BY <1>2, SMTT(20) DEF CallsAreOpen
    <3>2. \A u \in Threads \ {t} : call[u].list # l
      OBVIOUS
    <3>3. RecheckIsMapped'
      BY <1>2, <2>6, <3>2 DEF RecheckIsMapped, CallsAreOpen
    <3> QED BY <3>1, <3>3
  <2>9. MapIsInjective'
    BY <2>4 DEF MapIsInjective, TypeOK
  <2> QED BY <2>1, <2>3, <2>7, <2>8, <2>9
<1> QED BY <1>1, <1>6, <1>7

\* Leaving a call gives its reference back: by CloseDecrement, or into the
\* account of leaked references.
LEMMA LeaveHolders ==
  ASSUME LiveInv, NEW t \in Threads, NEW l, l = call[t].list, pc[t] \in Holding, pc'[t] \notin Holding,
         \A u \in Threads \ {t} : pc'[u] = pc[u] /\ call'[u] = call[u]
  PROVE  /\ Cardinality(Holders(l)) \in Nat \ {0}
         /\ Cardinality(Holders(l)') = Cardinality(Holders(l)) - 1
         /\ \A m \in Lists \ {l} : Holders(m)' = Holders(m)
<1>1. t \in Holders(l) /\ Holders(l)' = Holders(l) \ {t}
  BY DEF Holders
<1>2. Cardinality(Holders(l)) # 0
  BY <1>1, HoldersFinite, FS_EmptySet
<1>3. Cardinality(Holders(l) \ {t}) = Cardinality(Holders(l)) - 1
  BY <1>1, HoldersFinite, FS_RemoveElement, Zenon
<1>4. \A m \in Lists \ {l} : Holders(m)' = Holders(m)
  BY DEF Holders
<1> QED BY <1>1, <1>2, <1>3, <1>4, HoldersFinite

LEMMA CloseDecrementLive ==
  ASSUME LiveInv, NEW t \in Threads, CloseDecrement(t)
  PROVE  LiveInv'
<1>0. PICK l : l = call[t].list
  OBVIOUS
<1> USE DEF LiveInv
<1>1. pc[t] = "close" /\ l \in Lists /\ l \in allocated /\ call[t] \in Calls
  BY <1>0 DEF CloseDecrement, CallsAreOpen, HeldListIsLive, TypeOK
<1>2. /\ pc'[t] \in {"idle", "closeRecheck"} /\ pc' \in [Threads -> PCs]
      /\ call' \in [Threads -> Calls] /\ owed' \in Int
      /\ pc'[t] = "closeRecheck" => call'[t] = call[t]
      /\ \A u \in Threads \ {t} : pc'[u] = pc[u] /\ call'[u] = call[u]
  <2>1. NoCall \in Calls
    BY DEF NoCall, Calls, Results
  <2>2. call[t].toWake \in Nat
    BY <1>1 DEF Calls
  <2>3. CASE numReferences[l] = 1
    BY <1>0, <1>1, <2>3, Zenon DEF CloseDecrement, Goto, TypeOK
  <2>4. CASE numReferences[l] # 1
    <3>1. Return(t)
      BY <1>0, <2>4 DEF CloseDecrement
    <3>2. owed' \in Int
      BY <2>2, <3>1 DEF Return, TypeOK
    <3> QED BY <1>1, <2>1, <3>1, <3>2 DEF Return, Goto, TypeOK
  <2> QED BY <2>3, <2>4
<1>3. /\ Cardinality(Holders(l)) \in Nat \ {0}
      /\ Cardinality(Holders(l)') = Cardinality(Holders(l)) - 1
      /\ \A m \in Lists \ {l} : Holders(m)' = Holders(m)
  BY <1>0, <1>1, <1>2, LeaveHolders
<1>4. numReferences[l] \in Nat \ {0}
  BY <1>1, <1>3 DEF RefsCounted, TypeOK
<1>5. TypeOK'
  BY <1>0, <1>1, <1>2, <1>4 DEF CloseDecrement, TypeOK
<1>6. RefsCounted'
  <2>1. /\ numReferences'[l] = numReferences[l] - 1
        /\ \A m \in Lists \ {l} : numReferences'[m] = numReferences[m]
        /\ allocated' = allocated /\ leaked' = leaked
    BY <1>0, <1>1 DEF CloseDecrement, TypeOK
  <2>2. leaked[l] \in Nat /\ allocated \subseteq Lists
    BY <1>1 DEF TypeOK
  <2> QED BY <1>1, <1>3, <2>1, <2>2 DEF RefsCounted
<1>7. HeldListIsLive' /\ MapIsInjective'
  BY <1>2 DEF CloseDecrement, HeldListIsLive, MapIsInjective
<1>8. RecheckIsMapped' /\ CallsAreOpen'
  BY <1>1, <1>2 DEF CloseDecrement, RecheckIsMapped, CallsAreOpen, HeldListIsLive
<1> QED BY <1>5, <1>6, <1>7, <1>8

LEMMA CloseRecheckLive ==
  ASSUME LiveInv, NEW t \in Threads, CloseRecheck(t)
  PROVE  LiveInv'
<1> DEFINE l == call[t].list
<1> USE DEF LiveInv
<1>1. pc[t] = "closeRecheck" /\ l \in Lists /\ call[t].addr \in Addresses /\ call[t] \in Calls
  BY DEF CloseRecheck, CallsAreOpen, TypeOK
<1>2. /\ pc'[t] = "idle" /\ pc' \in [Threads -> PCs]
      /\ call' \in [Threads -> Calls] /\ owed' \in Int
      /\ \A u \in Threads \ {t} : pc'[u] = pc[u] /\ call'[u] = call[u]
  <2>1. NoCall \in Calls
    BY DEF NoCall, Calls, Results
  <2>2. call[t].toWake \in Nat
    BY <1>1 DEF Calls
  <2>3. Return(t)
    BY DEF CloseRecheck
  <2>4. owed' \in Int
    BY <2>2, <2>3 DEF Return, TypeOK
  <2> QED BY <2>1, <2>3, <2>4 DEF Return, Goto, TypeOK
<1>3. \A m : Holders(m)' = Holders(m)
  BY <1>1, <1>2 DEF Holders
<1>4. CallsAreOpen'
  BY <1>2, SMTT(20) DEF CallsAreOpen
<1>5. CASE UNCHANGED <<waitListMap, allocated>>
  <2>1. TypeOK'
    BY <1>2, <1>5 DEF CloseRecheck, TypeOK
  <2>2. RefsCounted'
    BY <1>3, <1>5 DEF CloseRecheck, RefsCounted
  <2>3. HeldListIsLive' /\ MapIsInjective' /\ RecheckIsMapped'
    BY <1>2, <1>5 DEF HeldListIsLive, MapIsInjective, RecheckIsMapped
  <2> QED BY <1>4, <2>1, <2>2, <2>3
<1>6. CASE /\ l \in allocated
           /\ numReferences[l] = 0
           /\ allocated' = allocated \ {l}
           /\ waitListMap' = [waitListMap EXCEPT ![call[t].addr] = None]
           /\ UNCHANGED fate
  <2>1. TypeOK'
    BY <1>2, <1>6, Zenon DEF CloseRecheck, TypeOK
  <2>2. RefsCounted'
    BY <1>3, <1>6 DEF CloseRecheck, RefsCounted
  <2>3. Holders(l) = {}
    BY <1>1, <1>6, HoldersFinite, FS_EmptySet DEF RefsCounted, TypeOK
  <2>4. waitListMap[call[t].addr] = l /\ l # None
    BY <1>1, <1>6 DEF RecheckIsMapped
  <2>5. \A m \in allocated \ {l}, a \in Addresses : waitListMap[a] = m => waitListMap'[a] = m
    BY <1>1, <1>6, <2>4 DEF TypeOK
  <2>6. HeldListIsLive'
    BY <1>2, <1>6, <2>3, <2>5 DEF HeldListIsLive, Holders, CallsAreOpen
  <2>7. RecheckIsMapped'
    BY <1>2, <1>6, <2>5 DEF RecheckIsMapped, CallsAreOpen
  <2>8. MapIsInjective'
    <3>1. \A a \in Addresses : a # call[t].addr => waitListMap'[a] = waitListMap[a]
      BY <1>1, <1>6 DEF TypeOK
    <3>2. waitListMap'[call[t].addr] = None
      BY <1>1, <1>6 DEF TypeOK
    <3> QED BY <1>1, <1>6, <2>4, <3>1, <3>2 DEF MapIsInjective
  <2> QED BY <1>4, <2>1, <2>2, <2>6, <2>7, <2>8
<1> QED BY <1>5, <1>6 DEF CloseRecheck, StillUnreferenced

\* Recording the result of a call changes nothing else of it.
LEMMA SetResult ==
  ASSUME TypeOK, NEW t \in Threads, NEW r \in Results, call' = [call EXCEPT ![t].result = r]
  PROVE  /\ call' \in [Threads -> Calls]
         /\ call'[t].list = call[t].list /\ call'[t].addr = call[t].addr
         /\ call'[t].expected = call[t].expected
         /\ \A u \in Threads \ {t} : call'[u] = call[u]
<1> DEFINE c == [call[t] EXCEPT !.result = r]
<1>1. call[t] \in Calls
  BY DEF TypeOK
<1>2. c \in Calls /\ c.list = call[t].list /\ c.addr = call[t].addr
      /\ c.expected = call[t].expected
  BY <1>1 DEF Calls
<1>3. call' = [call EXCEPT ![t] = c]
  OBVIOUS
<1>4. call'[t] = c /\ (\A u \in Threads \ {t} : call'[u] = call[u])
  BY <1>3 DEF TypeOK
<1> HIDE DEF c
<1>5. [call EXCEPT ![t] = c] \in [Threads -> Calls]
  BY <1>2 DEF TypeOK
<1>6. call' \in [Threads -> Calls]
  BY <1>3, <1>5
<1> QED BY <1>2, <1>4, <1>6

\* The fault path of LoadValue: the reference moves to the leaked ones.
LEMMA LoadValueLive ==
  ASSUME LiveInv, NEW t \in Threads, LoadValue(t)
  PROVE  LiveInv'
<1> USE DEF LiveInv
<1>0. PICK l : l = call[t].list
  OBVIOUS
<1>1. pc[t] = "waitLoad" /\ l \in Lists /\ l \in allocated /\ call[t] \in Calls
  BY <1>0 DEF LoadValue, CallsAreOpen, HeldListIsLive, TypeOK
<1>2. NoCall \in Calls
  BY DEF NoCall, Calls, Results
<1>3. CASE call[t].addr \in Unmapped
  <2>1. /\ pc'[t] = "idle" /\ pc' \in [Threads -> PCs] /\ call' \in [Threads -> Calls]
        /\ \A u \in Threads \ {t} : pc'[u] = pc[u] /\ call'[u] = call[u]
        /\ leaked' = [leaked EXCEPT ![l] = @ + 1]
        /\ listMutex' \in [Lists -> Threads \union {None}]
    <3>1. /\ ReleaseList(t) /\ Goto(t, "idle")
          /\ leaked' = [leaked EXCEPT ![l] = @ + 1]
          /\ call' = [call EXCEPT ![t] = NoCall]
      BY <1>0, <1>3 DEF LoadValue
    <3> QED BY <1>1, <1>2, <3>1, Zenon DEF Goto, ReleaseList, TypeOK
  <2>2. TypeOK'
    BY <1>1, <2>1 DEF LoadValue, TypeOK, heapVars
  <2>3. /\ Cardinality(Holders(l)) \in Nat \ {0}
        /\ Cardinality(Holders(l)') = Cardinality(Holders(l)) - 1
        /\ \A m \in Lists \ {l} : Holders(m)' = Holders(m)
    BY <1>0, <1>1, <2>1, LeaveHolders
  <2>4. RefsCounted'
    <3>1. /\ leaked'[l] = leaked[l] + 1 /\ leaked[l] \in Nat
          /\ \A m \in Lists \ {l} : leaked'[m] = leaked[m]
          /\ allocated' = allocated /\ allocated \subseteq Lists
          /\ numReferences' = numReferences
      BY <1>1, <2>1 DEF LoadValue, TypeOK, heapVars
    <3> QED BY <1>1, <2>3, <3>1 DEF RefsCounted
  <2>5. HeldListIsLive' /\ RecheckIsMapped' /\ MapIsInjective' /\ CallsAreOpen'
    BY <2>1 DEF LoadValue, HeldListIsLive, RecheckIsMapped, MapIsInjective, CallsAreOpen, heapVars
  <2> QED BY <2>2, <2>4, <2>5
<1>4. CASE call[t].addr \notin Unmapped
  <2>1. /\ pc'[t] \in {"close", "waitPush"} /\ pc' \in [Threads -> PCs]
        /\ call' \in [Threads -> Calls]
        /\ call'[t].list = call[t].list /\ call'[t].addr = call[t].addr
        /\ \A u \in Threads \ {t} : pc'[u] = pc[u] /\ call'[u] = call[u]
        /\ listMutex' \in [Lists -> Threads \union {None}]
        /\ UNCHANGED leaked
    <3>1. CASE /\ ReleaseList(t) /\ Goto(t, "close")
               /\ call' = [call EXCEPT ![t].result = "notEqual"]
               /\ UNCHANGED leaked
      <4>1. "notEqual" \in Results
        BY DEF Results
      <4> QED BY <1>1, <3>1, <4>1, SetResult, Zenon DEF Goto, ReleaseList, TypeOK
    <3>2. CASE Goto(t, "waitPush") /\ UNCHANGED <<listMutex, leaked, call>>
      BY <3>2 DEF Goto, TypeOK
    <3> QED BY <1>4, <3>1, <3>2 DEF LoadValue
  <2>2. TypeOK'
    BY <2>1 DEF LoadValue, TypeOK, heapVars
  <2>3. InnerStep(t)
    BY <1>1, <2>1 DEF LoadValue, InnerStep
  <2> QED BY <2>2, <2>3, InnerStepLive
<1> QED BY <1>3, <1>4

\* What the moves within a call change of it.
CallMoved(t) ==
  /\ pc[t] \in Holding /\ pc'[t] \in Holding /\ pc' \in [Threads -> PCs]
  /\ call' \in [Threads -> Calls]
  /\ call'[t].list = call[t].list /\ call'[t].addr = call[t].addr
  /\ \A u \in Threads \ {t} : pc'[u] = pc[u] /\ call'[u] = call[u]

\* Every move within a call keeps LiveInv, provided that it keeps the types.
LEMMA MoveLive ==
  ASSUME LiveInv, NEW t \in Threads, CallMoved(t), UNCHANGED <<heapVars, calls, leaked, memory>>,
         wakeEvents' \in [Lists -> Seq(Threads)], listMutex' \in [Lists -> Threads \union {None}],
         signaled' \in [Threads -> BOOLEAN], fate' \in {"running", "freed", "fatal"},
         unanswered' \subseteq Addresses, owed' \in Int
  PROVE  LiveInv'
<1>1. TypeOK'
  BY DEF LiveInv, TypeOK, CallMoved, heapVars
<1>2. InnerStep(t)
  BY DEF CallMoved, InnerStep
<1> QED BY <1>1, <1>2, InnerStepLive

LEMMA WaitStepsLive ==
  ASSUME LiveInv, NEW t \in Threads,
         \/ LockForWait(t) \/ PushWakeEvent(t) \/ EnterEventWait(t) \/ WakeUp(t)
         \/ SpuriousWakeUp(t) \/ TimeOut(t)
  PROVE  LiveInv'
<1> USE DEF LiveInv, Goto
<1>1. CASE LockForWait(t) \/ EnterEventWait(t) \/ TimeOut(t)
  <2>1. CallMoved(t)
    BY <1>1, Zenon DEF LockForWait, EnterEventWait, TimeOut, CallMoved, TypeOK
  <2>2. listMutex' \in [Lists -> Threads \union {None}]
    BY <1>1, ZenonT(30) DEF LockForWait, AcquireList, EnterEventWait, TimeOut, TypeOK
  <2> QED BY <1>1, <2>1, <2>2, MoveLive, Zenon
          DEF LockForWait, EnterEventWait, TimeOut, TypeOK, ghostVars
<1>2. CASE PushWakeEvent(t)
  <2>1. CallMoved(t)
    BY <1>2 DEF PushWakeEvent, CallMoved, TypeOK
  <2>2. listMutex' \in [Lists -> Threads \union {None}]
    BY <1>2, Zenon DEF PushWakeEvent, ReleaseList, TypeOK
  <2>3. wakeEvents' \in [Lists -> Seq(Threads)]
    <3>1. call[t].list \in Lists
      BY <1>2 DEF PushWakeEvent, CallsAreOpen
    <3>2. Append(wakeEvents[call[t].list], t) \in Seq(Threads)
      BY <3>1 DEF TypeOK
    <3> QED BY <1>2, <3>1, <3>2 DEF PushWakeEvent, TypeOK
  <2> QED BY <1>2, <2>1, <2>2, <2>3, MoveLive, Zenon DEF PushWakeEvent, TypeOK, ghostVars
<1>3. CASE WakeUp(t) \/ SpuriousWakeUp(t)
  <2>1. CallMoved(t)
    <3>1. "woken" \in Results
      BY DEF Results
    <3> QED BY <1>3, <3>1, SetResult, Zenon DEF WakeUp, SpuriousWakeUp, CallMoved, TypeOK
  <2>2. signaled' \in [Threads -> BOOLEAN]
    BY <1>3, Zenon DEF WakeUp, SpuriousWakeUp, TypeOK
  <2> QED BY <1>3, <2>1, <2>2, MoveLive, Zenon DEF WakeUp, SpuriousWakeUp, TypeOK, ghostVars
<1> QED BY <1>1, <1>2, <1>3

LEMMA TimeOutStepsLive ==
  ASSUME LiveInv, NEW t \in Threads, CheckTimedOut(t) \/ ResetEvent(t)
  PROVE  LiveInv'
<1> USE DEF LiveInv, Goto
<1>1. CASE CheckTimedOut(t)
  <2>1. CallMoved(t)
    <3>1. "timedOut" \in Results
      BY DEF Results
    <3>2. CASE call' = [call EXCEPT ![t].result = "timedOut"] /\ Goto(t, "close")
      BY <1>1, <3>1, <3>2, SetResult, Zenon DEF CheckTimedOut, CallMoved, TypeOK
    <3>3. CASE Goto(t, "resetWait") /\ UNCHANGED call
      BY <1>1, <3>3 DEF CheckTimedOut, CallMoved, TypeOK
    <3> QED BY <1>1, <3>2, <3>3 DEF CheckTimedOut
  <2>2. listMutex' \in [Lists -> Threads \union {None}]
    BY <1>1 DEF CheckTimedOut, TypeOK
  <2>3. wakeEvents' \in [Lists -> Seq(Threads)]
    <3>1. call[t].list \in Lists /\ wakeEvents[call[t].list] \in Seq(Threads)
      BY <1>1 DEF CheckTimedOut, CallsAreOpen, TypeOK
    <3>2. \A i \in PositionsOf(t, wakeEvents[call[t].list]) :
            Erase(wakeEvents[call[t].list], i) \in Seq(Threads)
      BY <3>1, EraseType DEF PositionsOf
    <3>3. CASE UNCHANGED wakeEvents
      BY <3>3 DEF TypeOK
    <3>4. CASE \E i \in PositionsOf(t, wakeEvents[call[t].list]) :
            wakeEvents' = [wakeEvents EXCEPT ![call[t].list] = Erase(@, i)]
      BY <3>1, <3>2, <3>4 DEF TypeOK
    <3> QED BY <1>1, <3>3, <3>4 DEF CheckTimedOut
  <2> QED BY <1>1, <2>1, <2>2, <2>3, MoveLive, Zenon DEF CheckTimedOut, TypeOK, ghostVars
<1>2. CASE ResetEvent(t)
  <2>1. CallMoved(t)
    <3>1. "woken" \in Results
      BY DEF Results
    <3>2. CASE call' = [call EXCEPT ![t].result = "woken"] /\ Goto(t, "close")
      BY <1>2, <3>1, <3>2, SetResult, Zenon DEF ResetEvent, CallMoved, TypeOK
    <3>3. CASE UNCHANGED <<call, pc>>
      BY <1>2, <3>3 DEF ResetEvent, CallMoved, TypeOK
    <3> QED BY <1>2, <3>2, <3>3 DEF ResetEvent
  <2>2. listMutex' \in [Lists -> Threads \union {None}]
    BY <1>2, Zenon DEF ResetEvent, ReleaseList, TypeOK
  <2>3. signaled' \in [Threads -> BOOLEAN]
    BY <1>2, Zenon DEF ResetEvent, TypeOK
  <2> QED BY <1>2, <2>1, <2>2, <2>3, MoveLive, Zenon DEF ResetEvent, TypeOK, ghostVars
<1> QED BY <1>1, <1>2

\* Changing a record of call to another one with the same list and address.
LEMMA SetCall ==
  ASSUME TypeOK, NEW t \in Threads, NEW c \in Calls, call' = [call EXCEPT ![t] = c],
         c.list = call[t].list, c.addr = call[t].addr
  PROVE  /\ call' \in [Threads -> Calls]
         /\ call'[t].list = call[t].list /\ call'[t].addr = call[t].addr
         /\ \A u \in Threads \ {t} : call'[u] = call[u]
BY DEF TypeOK

LEMMA NotifyStepsLive ==
  ASSUME LiveInv, NEW t \in Threads, LockForNotify(t) \/ SignalNext(t) \/ EraseSignaled(t)
  PROVE  LiveInv'
<1> USE DEF LiveInv, Goto
<1>0. call[t] \in Calls
  BY DEF TypeOK
<1>1. CASE LockForNotify(t)
  <2> DEFINE n == Len(wakeEvents[call[t].list])
             c == [call[t] EXCEPT !.toWake = IF @ > n THEN n ELSE @]
  <2>1. n \in Nat
    BY <1>1 DEF LockForNotify, CallsAreOpen, TypeOK
  <2>2. call' = [call EXCEPT ![t] = c]
    BY <1>1 DEF LockForNotify
  <2>3. c \in Calls /\ c.list = call[t].list /\ c.addr = call[t].addr
    <3> HIDE DEF n
    <3> QED BY <1>0, <2>1 DEF Calls
  <2> HIDE DEF c
  <2>4. CallMoved(t)
    BY <1>1, <2>2, <2>3, SetCall, Zenon DEF LockForNotify, CallMoved, TypeOK
  <2>5. listMutex' \in [Lists -> Threads \union {None}]
    BY <1>1, Zenon DEF LockForNotify, AcquireList, TypeOK
  <2> QED BY <1>1, <2>4, <2>5, MoveLive, Zenon DEF LockForNotify, TypeOK, ghostVars
<1>2. CASE SignalNext(t)
  <2> DEFINE c == [call[t] EXCEPT !.wakeIndex = @ + 1]
  <2>1. call' = [call EXCEPT ![t] = c]
    BY <1>2 DEF SignalNext
  <2>2. c \in Calls /\ c.list = call[t].list /\ c.addr = call[t].addr
    BY <1>0 DEF Calls
  <2> HIDE DEF c
  <2>3. CallMoved(t)
    BY <1>2, <2>1, <2>2, SetCall, Zenon DEF SignalNext, CallMoved, TypeOK
  <2>4. signaled' \in [Threads -> BOOLEAN]
    BY <1>2, Zenon DEF SignalNext, TypeOK
  <2> QED BY <1>2, <2>3, <2>4, MoveLive, Zenon DEF SignalNext, TypeOK, ghostVars
<1>3. CASE EraseSignaled(t)
  <2> DEFINE l == call[t].list
             rest == SubSeq(wakeEvents[l], call[t].toWake + 1, Len(wakeEvents[l]))
  <2>1. l \in Lists /\ wakeEvents[l] \in Seq(Threads) /\ call[t].toWake \in Nat
    BY <1>0, <1>3, Zenon DEF EraseSignaled, CallsAreOpen, TypeOK, Calls
  <2>2. rest \in Seq(Threads)
    <3> DEFINE s == wakeEvents[l]
               n == call[t].toWake + 1
    <3>1. s \in Seq(Threads) /\ n \in Nat \ {0} /\ Len(s) \in Nat
      BY <2>1
    <3> HIDE DEF s, n
    <3>2. \A i \in n..Len(s) : s[i] \in Threads
      BY <3>1
    <3>3. SubSeq(s, n, Len(s)) \in Seq(Threads)
      BY <3>1, <3>2
    <3> QED BY <3>3 DEF s, n
  <2>3. wakeEvents' = [wakeEvents EXCEPT ![l] = rest]
    BY <1>3 DEF EraseSignaled
  <2>4. wakeEvents' \in [Lists -> Seq(Threads)]
    <3> HIDE DEF rest
    <3> QED BY <2>1, <2>2, <2>3 DEF TypeOK
  <2>5. listMutex' \in [Lists -> Threads \union {None}] /\ unanswered' \subseteq Addresses
    BY <1>3, Zenon DEF EraseSignaled, ReleaseList, TypeOK
  <2>6. CallMoved(t)
    BY <1>3 DEF EraseSignaled, CallMoved, TypeOK
  <2> QED BY <1>3, <2>4, <2>5, <2>6, MoveLive, Zenon DEF EraseSignaled, TypeOK
<1> QED BY <1>1, <1>2, <1>3

\* The steps that start a call, and the store.
LEMMA CallStepsLive ==
  ASSUME LiveInv, NEW t \in Threads, Call(t)
  PROVE  LiveInv'
<1> USE DEF LiveInv
<1>1. ASSUME NEW a \in Addresses, NEW v \in Values, NEW b \in BOOLEAN, StartWait(t, a, v, b)
      PROVE  LiveInv'
  <2> DEFINE c == [NoCall EXCEPT !.addr = a, !.expected = v, !.timed = b]
  <2>1. c \in Calls /\ c.addr = a
    BY Zenon DEF NoCall, Calls, Results
  <2>2. calls' \in 0..MaxCalls
    BY <1>1, BoundAssumption DEF StartWait, TypeOK
  <2>3. openWaitList(t, a, c)
    BY <1>1 DEF StartWait
  <2> HIDE DEF c
  <2> QED BY <1>1, <2>1, <2>2, <2>3, OpenLive, Zenon DEF StartWait, TypeOK
<1>2. ASSUME NEW a \in Addresses, NEW n \in Counts, StartNotify(t, a, n)
      PROVE  LiveInv'
  <2> DEFINE c == [NoCall EXCEPT !.addr = a, !.toWake = n]
  <2>1. c \in Calls /\ c.addr = a
    BY CountsAssumption, Zenon DEF NoCall, Calls, Results
  <2>2. calls' \in 0..MaxCalls
    BY <1>2, BoundAssumption DEF StartNotify, TypeOK
  <2>3. openWaitList(t, a, c)
    BY <1>2 DEF StartNotify
  <2> HIDE DEF c
  <2> QED BY <1>2, <2>1, <2>2, <2>3, OpenLive, Zenon DEF StartNotify, TypeOK
<1>3. ASSUME NEW a \in Addresses, NEW v \in Values, Store(t, a, v)
      PROVE  LiveInv'
  <2>1. TypeOK'
    BY <1>3, BoundAssumption DEF Store, TypeOK, heapVars
  <2>2. \A l : Holders(l)' = Holders(l)
    BY <1>3 DEF Store, Holders
  <2>3. RefsCounted'
    BY <1>3, <2>2, Zenon DEF Store, RefsCounted, heapVars
  <2>4. HeldListIsLive' /\ RecheckIsMapped' /\ MapIsInjective' /\ CallsAreOpen'
    BY <1>3 DEF Store, HeldListIsLive, RecheckIsMapped, MapIsInjective, CallsAreOpen, heapVars
  <2> QED BY <2>1, <2>3, <2>4
<1> QED BY <1>1, <1>2, <1>3 DEF Call

LEMMA LiveInvInit == Init => LiveInv
<1> SUFFICES ASSUME Init PROVE LiveInv
  OBVIOUS
<1>1. NoCall \in Calls
  BY DEF NoCall, Calls, Results
<1>2. TypeOK
  BY <1>1, BoundAssumption DEF Init, TypeOK
<1> QED BY <1>2 DEF Init, LiveInv, HeldListIsLive, RefsCounted, MapIsInjective, RecheckIsMapped,
                    CallsAreOpen

LEMMA LiveInvStep == LiveInv /\ [Next]_vars => LiveInv'
<1> SUFFICES ASSUME LiveInv, [Next]_vars PROVE LiveInv'
  OBVIOUS
<1>1. CASE UNCHANGED vars
  <2>1. \A l : Holders(l)' = Holders(l)
    BY <1>1 DEF vars, Holders
  <2>2. RefsCounted'
    BY <1>1, <2>1, Zenon DEF LiveInv, RefsCounted, vars, heapVars, ghostVars
  <2>3. TypeOK'
    BY <1>1 DEF LiveInv, TypeOK, vars, heapVars, ghostVars
  <2> QED BY <1>1, <2>2, <2>3 DEF vars, heapVars, LiveInv, HeldListIsLive, MapIsInjective,
                                  RecheckIsMapped, CallsAreOpen
<1>2. ASSUME NEW t \in Threads, Call(t) \/ Progress(t) \/ SpuriousWakeUp(t)
      PROVE  LiveInv'
  <2>1. CASE Call(t)
    BY <2>1, CallStepsLive
  <2>2. CASE Progress(t) \/ SpuriousWakeUp(t)
    BY <2>2, WaitStepsLive, TimeOutStepsLive, NotifyStepsLive, LoadValueLive,
       CloseDecrementLive, CloseRecheckLive DEF Progress
  <2> QED BY <1>2, <2>1, <2>2
<1> QED BY <1>1, <1>2 DEF Next

\* The invariant holds in every reachable state.
THEOREM LiveInvHolds == Spec => []LiveInv
BY LiveInvInit, LiveInvStep, PTL DEF Spec

\* The variables keep their types; in particular closeWaitList never
\* decrements a reference count that is zero.
THEOREM TypeCorrect == Spec => []TypeOK
<1>1. LiveInv => TypeOK
  BY DEF LiveInv
<1> QED BY <1>1, LiveInvHolds, PTL

\* From openWaitList to the decrement in closeWaitList, a call's list is not
\* deleted and is the list that the map holds for the call's address, with
\* any number of threads, addresses and calls and on both kinds of event.
THEOREM HeldListsAreLive == Spec => []HeldListIsLive
<1>1. LiveInv => HeldListIsLive
  BY DEF LiveInv
<1> QED BY <1>1, LiveInvHolds, PTL
=============================================================================
