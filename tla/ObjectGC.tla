------------------------------ MODULE ObjectGC ------------------------------
(***************************************************************************)
(* The objects of one compartment: how the embedder and the modules it     *)
(* instantiates create them, which of them hold references to which, and   *)
(* the mark and sweep collector that deletes them (Lib/Runtime/ObjectGC,   *)
(* Compartment, Context, Global, and instantiateModule of Module).         *)
(*                                                                         *)
(* A function is not an object of the collector: it lives in the code of   *)
(* the module instance that owns it, and a reference to it is a reference  *)
(* to that instance.  Memories and exception types hold no references;     *)
(* Leaves stands for both.  Tables have a fixed size here (their growth is *)
(* the subject of Table), and every table and global is of a reference     *)
(* type, since others do not concern the collector.                        *)
(***************************************************************************)
EXTENDS Integers, Sequences, FiniteSets

CONSTANTS
  Threads,        \* threads of the embedder
  compartment,    \* the compartment, itself an object
  Instances, Tables, Leaves, MutableGlobals, ImmutableGlobals, Contexts,
  Functions,
  OwnerOf,        \* the instance whose code holds each function
  DefsOf,         \* what each instance's module defines, in creation order
  RefFunc,        \* globals that a module initializes with ref.func
  ImportSets,     \* what the imports of a module may be bound to
  Order,          \* all objects, in the order the collector enumerates them
  Stored,         \* references that tables and mutable globals are set to
  TableSize,
  MaxMutableGlobals,
  RootTargets,    \* bound: what addGCRoot is called with, besides new objects
  MaxRoots,       \* bound: root references to one object
  MaxCalls,       \* bound: calls the embedder makes
  None, Null

Globals == MutableGlobals \union ImmutableGlobals
Objects == {compartment} \union Instances \union Tables \union Leaves
             \union Globals \union Contexts
References == Functions \union (Objects \ ({compartment} \union Contexts))
Indices == 0 .. TableSize - 1
Slots == 0 .. MaxMutableGlobals - 1

ASSUME ObjectAssumption ==
  /\ OwnerOf \in [Functions -> Instances]
  /\ DefsOf \in [Instances -> Seq(Tables \union Leaves \union Globals)]
  /\ Order \in Seq(Objects)
  /\ \A o \in Objects : \E n \in 1 .. Len(Order) : Order[n] = o
  /\ RefFunc \subseteq Globals
  /\ Stored \subseteq References
  /\ RootTargets \subseteq Objects \union Functions
  /\ \A imports \in ImportSets : imports \subseteq References
  /\ TableSize \in Nat
  /\ Cardinality(MutableGlobals) <= MaxMutableGlobals
  /\ Null \notin References
  /\ None \notin Threads

VARIABLES
  exists,         \* the objects in the compartment's maps
  roots,          \* numRootReferences of objects and functions
  functionsOf,    \* an instance's functions, the imported ones included
  partsOf,        \* an instance's tables, memories, globals, exception types
  elements,       \* table elements
  initialValue,   \* Global::initialValue
  mutableIndex,   \* Global::mutableGlobalIndex, None for immutable globals
  mask,           \* globalDataAllocationMask
  initialSlots,   \* initialContextMutableGlobals
  contextSlots,   \* ContextRuntimeData::mutableGlobals
  mutex,          \* the thread that holds Compartment::mutex
  pc,
  building,       \* the instance a thread is instantiating
  bound,          \* the imports it was given
  made,           \* how many of its definitions exist
  index,          \* the slot createGlobal has chosen
  next,           \* the collector's place in Order
  unreferenced,   \* GCState::unreferencedObjects
  pending,        \* GCState::pendingScanObjects, whose order does not matter
  visits,         \* what is left to visit of the object being scanned
  calls

heap == <<functionsOf, partsOf, elements, initialValue, mutableIndex, mask,
          initialSlots, contextSlots>>
locals == <<building, bound, made, index>>
collector == <<next, unreferenced, pending, visits>>
vars == <<exists, roots, heap, mutex, pc, locals, collector, calls>>

AllNull(S) == [x \in S |-> Null]

Init ==
  /\ exists = {}
  /\ roots = [o \in Objects \union Functions |-> 0]
  /\ functionsOf = [i \in Instances |-> {}]
  /\ partsOf = [i \in Instances |-> {}]
  /\ elements = [tb \in Tables |-> AllNull(Indices)]
  /\ initialValue = AllNull(Globals)
  /\ mutableIndex = [g \in Globals |-> None]
  /\ mask = {}
  /\ initialSlots = AllNull(Slots)
  /\ contextSlots = [c \in Contexts |-> AllNull(Slots)]
  /\ mutex = None
  /\ pc = [t \in Threads |-> "idle"]
  /\ building = [t \in Threads |-> None]
  /\ bound = [t \in Threads |-> {}]
  /\ made = [t \in Threads |-> 0]
  /\ index = [t \in Threads |-> None]
  /\ next = 0
  /\ unreferenced = {}
  /\ pending = {}
  /\ visits = {}
  /\ calls = 0

---------------------------------------------------------------------------
(* References, as the collector sees them *)

\* The object a reference keeps alive: a function stands for its instance.
ObjectOf(r) == IF r \in Functions THEN OwnerOf[r] ELSE r

\* Where an object's references are stored.
ElementAt(tb, k) == [kind |-> "element", object |-> tb, at |-> k]
InitialSlotOf(g) == [kind |-> "initialSlot", object |-> g, at |-> mutableIndex[g]]
ContextSlot(c, g) == [kind |-> "contextSlot", object |-> c, at |-> mutableIndex[g]]
ValueOf(g) == [kind |-> "value", object |-> g, at |-> 0]

Load(location) ==
  CASE location.kind = "element" -> elements[location.object][location.at]
    [] location.kind = "initialSlot" -> initialSlots[location.at]
    [] location.kind = "contextSlot" -> contextSlots[location.object][location.at]
    [] location.kind = "value" -> initialValue[location.object]

\* The locations that scanObject visits whose contents may change.
LocationsOf(o) ==
  CASE o \in Tables -> {ElementAt(o, k) : k \in Indices}
    [] o \in MutableGlobals ->
         {InitialSlotOf(o), ValueOf(o)} \union {ContextSlot(c, o) : c \in exists \intersect Contexts}
    [] o \in ImmutableGlobals -> {ValueOf(o)}
    [] OTHER -> {}

\* References that an object holds as long as it exists: all objects refer to
\* the compartment, and instances to what they import and define.
FixedReferencesOf(o) ==
  {compartment} \union
  IF o \in Instances THEN {ObjectOf(r) : r \in functionsOf[o] \union partsOf[o]} ELSE {}

ReferencesOf(o) ==
  FixedReferencesOf(o) \union ({ObjectOf(Load(l)) : l \in LocationsOf(o)} \ {Null})

\* What addGCRoot protects: a rooted function protects its instance.
RootedObjects == {ObjectOf(r) : r \in {x \in Objects \union Functions : roots[x] > 0}}

\* The reference definition of what a collection must keep: the objects
\* within n references of the set S, for n large enough all there are.
Within(S) ==
  LET near[n \in 0 .. Cardinality(Objects)] ==
        IF n = 0 THEN S
        ELSE LET nearer == near[n - 1]
             IN  nearer \union UNION {ReferencesOf(o) : o \in nearer}
  IN  near[Cardinality(Objects)]

Reachable == Within(RootedObjects)

\* What a thread can have got hold of: the embedder through its roots, and
\* WebAssembly code through the instance it runs in.
Usable(r) == ObjectOf(r) \in Reachable \intersect exists

---------------------------------------------------------------------------
(* The embedder's calls.  They are made with no root at hand but the ones  *)
(* in roots; what a create call returns is put in a GCPointer at once.     *)

Call(t) ==
  /\ pc[t] = "idle"
  /\ calls < MaxCalls
  /\ calls' = calls + 1

createCompartment(t) ==
  /\ pc[t] = "idle" /\ calls < MaxCalls
  /\ exists = {} /\ \A u \in Threads : pc[u] = "idle"
  /\ exists' = {compartment}
  /\ roots' = [roots EXCEPT ![compartment] = 1]
  /\ mask' = {}
  /\ initialSlots' = AllNull(Slots)
  /\ UNCHANGED <<functionsOf, partsOf, elements, initialValue, mutableIndex,
                 contextSlots, mutex, pc, locals, collector, calls>>

createContext(t) ==
  /\ Call(t)
  /\ compartment \in Reachable /\ mutex = None
  /\ \E c \in Contexts \ exists :
       /\ exists' = exists \union {c}
       /\ roots' = [roots EXCEPT ![c] = 1]
       /\ contextSlots' = [contextSlots EXCEPT ![c] = initialSlots]
  /\ UNCHANGED <<functionsOf, partsOf, elements, initialValue, mutableIndex,
                 mask, initialSlots, mutex, pc, locals, collector>>

addGCRoot(t) ==
  /\ Call(t)
  /\ \E r \in RootTargets :
       /\ Usable(r)
       /\ roots[r] < MaxRoots
       /\ roots' = [roots EXCEPT ![r] = @ + 1]
  /\ UNCHANGED <<exists, heap, mutex, pc, locals, collector>>

removeGCRoot(t) ==
  /\ Call(t)
  /\ \E r \in Functions \union Objects :
       /\ roots[r] > 0
       /\ roots' = [roots EXCEPT ![r] = @ - 1]
  /\ UNCHANGED <<exists, heap, mutex, pc, locals, collector>>

\* setTableElement, and table.set in WebAssembly code.  No lock is taken.
setTableElement(t) ==
  /\ Call(t)
  /\ \E tb \in Tables, k \in Indices, r \in Stored \union {Null} :
       /\ Usable(tb)
       /\ r = Null \/ Usable(r)
       /\ elements' = [elements EXCEPT ![tb][k] = r]
  /\ UNCHANGED <<exists, roots, functionsOf, partsOf, initialValue, mutableIndex,
                 mask, initialSlots, contextSlots, mutex, pc, locals, collector>>

\* setGlobalValue, and global.set in WebAssembly code.  No lock is taken.
setGlobalValue(t) ==
  /\ Call(t)
  /\ \E c \in Contexts, g \in MutableGlobals, r \in Stored \union {Null} :
       /\ Usable(c) /\ Usable(g)
       /\ r = Null \/ Usable(r)
       /\ contextSlots' = [contextSlots EXCEPT ![c][mutableIndex[g]] = r]
  /\ UNCHANGED <<exists, roots, functionsOf, partsOf, elements, initialValue,
                 mutableIndex, mask, initialSlots, mutex, pc, locals, collector>>

---------------------------------------------------------------------------
(* instantiateModule *)

Goto(t, label) == pc' = [pc EXCEPT ![t] = label]

\* An instance and its definitions are new objects.
IsFresh(i) ==
  /\ i \notin exists /\ \A u \in Threads : building[u] # i
  /\ \A n \in 1 .. Len(DefsOf[i]) : DefsOf[i][n] \notin exists

\* A placeholder reserves the instance's id, and the imports are checked.
BeginInstantiation(t) ==
  /\ Call(t)
  /\ compartment \in Reachable /\ mutex = None
  /\ \E i \in Instances, imports \in ImportSets :
       /\ IsFresh(i)
       /\ \A r \in imports : Usable(r)
       /\ building' = [building EXCEPT ![t] = i]
       /\ bound' = [bound EXCEPT ![t] = imports]
  /\ Goto(t, "define")
  /\ UNCHANGED <<exists, roots, heap, mutex, made, index, collector>>

Definition(t) == DefsOf[building[t]][made[t] + 1]
IsDefining(t) == pc[t] = "define" /\ made[t] < Len(DefsOf[building[t]])

\* createTable, createMemory, createExceptionType and the last part of
\* createGlobal: the object enters the compartment's map, under the mutex.
AddObject(t, o) ==
  /\ mutex = None
  /\ exists' = exists \union {o}
  /\ made' = [made EXCEPT ![t] = @ + 1]
  /\ Goto(t, "define")

DefineObject(t) ==
  /\ IsDefining(t) /\ Definition(t) \notin MutableGlobals
  /\ AddObject(t, Definition(t))
  /\ UNCHANGED <<roots, heap, mutex, building, bound, index, collector, calls>>

\* The creation of a table or a memory fails: the placeholder is removed and
\* outOfMemory is thrown.  What was created before is left to the collector.
FailToDefine(t) ==
  /\ IsDefining(t) /\ Definition(t) \in Tables \union Leaves /\ mutex = None
  /\ building' = [building EXCEPT ![t] = None]
  /\ bound' = [bound EXCEPT ![t] = {}]
  /\ made' = [made EXCEPT ![t] = 0]
  /\ Goto(t, "idle")
  /\ UNCHANGED <<exists, roots, heap, mutex, index, collector, calls>>

\* createGlobal looks for a free slot, and in a later step claims it.  It
\* holds no lock in between.
SmallestNonMember == CHOOSE n \in Slots \ mask : \A m \in Slots \ mask : n <= m

ChooseSlot(t) ==
  /\ IsDefining(t) /\ Definition(t) \in MutableGlobals
  /\ Slots \ mask # {}
  /\ index' = [index EXCEPT ![t] = SmallestNonMember]
  /\ Goto(t, "claim")
  /\ UNCHANGED <<exists, roots, heap, mutex, building, bound, made, collector, calls>>

\* Mutant: the values of a slot's former owner stay in the contexts.
ClaimSlot_NotZeroed(t) ==
  /\ pc[t] = "claim"
  /\ mask' = mask \union {index[t]}
  /\ Goto(t, "add")
  /\ UNCHANGED <<exists, roots, functionsOf, partsOf, elements, initialValue,
                 mutableIndex, initialSlots, contextSlots, mutex, locals, collector, calls>>

\* The slot is marked and zeroed for all current and future contexts.
ClaimSlot(t) ==
  /\ pc[t] = "claim"
  /\ mask' = mask \union {index[t]}
  /\ initialSlots' = [initialSlots EXCEPT ![index[t]] = Null]
  /\ contextSlots' = [c \in Contexts |->
       IF c \in exists THEN [contextSlots[c] EXCEPT ![index[t]] = Null] ELSE contextSlots[c]]
  /\ Goto(t, "add")
  /\ UNCHANGED <<exists, roots, functionsOf, partsOf, elements, initialValue,
                 mutableIndex, mutex, locals, collector, calls>>

AddMutableGlobal(t) ==
  /\ pc[t] = "add"
  /\ AddObject(t, Definition(t))
  /\ mutableIndex' = [mutableIndex EXCEPT ![Definition(t)] = index[t]]
  /\ index' = [index EXCEPT ![t] = None]
  /\ UNCHANGED <<roots, functionsOf, partsOf, elements, initialValue, mask,
                 initialSlots, contextSlots, mutex, building, bound, collector, calls>>

Defined(t) == LET defs == DefsOf[building[t]] IN {defs[n] : n \in 1 .. made[t]}
OwnFunctions(i) == {f \in Functions : OwnerOf[f] = i}

\* The instance replaces the placeholder.
PublishInstance(t) ==
  /\ pc[t] = "define" /\ made[t] = Len(DefsOf[building[t]]) /\ mutex = None
  /\ LET i == building[t]
     IN  /\ exists' = exists \union {i}
         /\ functionsOf' = [functionsOf EXCEPT
              ![i] = OwnFunctions(i) \union (bound[t] \intersect Functions)]
         /\ partsOf' = [partsOf EXCEPT
              ![i] = Defined(t) \union (bound[t] \ Functions)]
  /\ Goto(t, "initialize")
  /\ UNCHANGED <<roots, elements, initialValue, mutableIndex, mask, initialSlots,
                 contextSlots, mutex, locals, collector, calls>>

\* The globals with ref.func initializers, now that the functions exist.
\* initializeGlobal sets the value for all current and future contexts.
InitializeGlobals(t) ==
  /\ pc[t] = "initialize"
  /\ LET i == building[t]
         deferred == Defined(t) \intersect RefFunc
         slots == {mutableIndex[g] : g \in deferred \intersect MutableGlobals}
     IN  \E f \in functionsOf[i] :
           LET set(values) == [n \in Slots |-> IF n \in slots THEN f ELSE values[n]]
           IN  /\ initialValue' = [g \in Globals |->
                    IF g \in deferred THEN f ELSE initialValue[g]]
               /\ initialSlots' = set(initialSlots)
               /\ contextSlots' = [c \in Contexts |->
                    IF c \in exists THEN set(contextSlots[c]) ELSE contextSlots[c]]
  /\ Goto(t, "segments")
  /\ UNCHANGED <<exists, roots, functionsOf, partsOf, elements, mutableIndex, mask,
                 mutex, locals, collector, calls>>

\* The active elem segments: each writes one of the instance's functions to a
\* table of the instance, or throws.  An instance that returns is put in a
\* GCPointer by the caller; one whose segment is out of bounds is left in the
\* compartment, with the elements that were written before.
InitializeElements(t) ==
  /\ pc[t] = "segments"
  /\ LET i == building[t]
     IN  /\ \/ UNCHANGED elements
            \/ \E tb \in partsOf[i] \intersect Tables, k \in Indices, f \in functionsOf[i] :
                 elements' = [elements EXCEPT ![tb][k] = f]
         /\ \/ roots' = [roots EXCEPT ![i] = 1]
            \/ UNCHANGED roots
  /\ building' = [building EXCEPT ![t] = None]
  /\ bound' = [bound EXCEPT ![t] = {}]
  /\ made' = [made EXCEPT ![t] = 0]
  /\ Goto(t, "idle")
  /\ UNCHANGED <<exists, functionsOf, partsOf, initialValue, mutableIndex, mask,
                 initialSlots, contextSlots, mutex, index, collector, calls>>

---------------------------------------------------------------------------
(* collectGarbageImpl *)

\* The embedder does not collect while another thread instantiates a module:
\* nothing roots the new objects before instantiateModule returns.
BeginCollection(t) ==
  /\ Call(t)
  /\ \A u \in Threads : building[u] = None
  /\ compartment \in exists /\ mutex = None
  /\ mutex' = t
  /\ next' = 1
  /\ Goto(t, "mark")
  /\ UNCHANGED <<exists, heap, locals, unreferenced, pending, visits>>

collectCompartmentGarbage(t) == BeginCollection(t) /\ UNCHANGED roots

\* tryCollectCompartment drops the caller's root before it collects.
tryCollectCompartment(t) ==
  /\ roots[compartment] > 0
  /\ roots' = [roots EXCEPT ![compartment] = @ - 1]
  /\ BeginCollection(t)

\* Mutant: the roots of functions are not transferred to their instance.
IsRoot_NoFunctions(o) == roots[o] > 0

\* The roots of an instance's functions, imported ones included, count as
\* roots of the instance.
IsRoot(o) ==
  \/ roots[o] > 0
  \/ o \in Instances /\ \E f \in functionsOf[o] : roots[f] > 0

initGCObject(t) ==
  /\ pc[t] = "mark" /\ next \in 1 .. Len(Order)
  /\ LET o == Order[next]
     IN  /\ pending' = IF o \in exists /\ IsRoot(o) THEN pending \union {o} ELSE pending
         /\ unreferenced' =
              IF o \in exists /\ ~IsRoot(o) THEN unreferenced \union {o} ELSE unreferenced
  /\ next' = next + 1
  /\ UNCHANGED <<exists, roots, heap, mutex, pc, locals, visits, calls>>

\* Mutant: referenced objects are queued even if they were scanned before.
scanObject_Again(t) ==
  /\ pc[t] = "mark" /\ next = Len(Order) + 1 /\ visits = {}
  /\ \E o \in pending :
       /\ visits' = LocationsOf(o)
       /\ unreferenced' = unreferenced \ FixedReferencesOf(o)
       /\ pending' = (pending \ {o}) \union FixedReferencesOf(o)
  /\ UNCHANGED <<exists, roots, heap, mutex, pc, locals, next, calls>>

\* The next object is taken and its fixed references are visited; the others
\* are visited one at a time, each in a step of its own, since threads may
\* write to the locations in between.
scanObject(t) ==
  /\ pc[t] = "mark" /\ next = Len(Order) + 1 /\ visits = {}
  /\ \E o \in pending :
       LET found == FixedReferencesOf(o) \intersect unreferenced
       IN  /\ visits' = LocationsOf(o)
           /\ unreferenced' = unreferenced \ found
           /\ pending' = (pending \ {o}) \union found
  /\ UNCHANGED <<exists, roots, heap, mutex, pc, locals, next, calls>>

\* One location is read; the object found there, if it had not been seen, is
\* now referenced and will be scanned in its turn.
visitReference(t) ==
  /\ pc[t] = "mark"
  /\ \E location \in visits :
       LET found == {ObjectOf(Load(location))} \intersect unreferenced
       IN  /\ visits' = visits \ {location}
           /\ unreferenced' = unreferenced \ found
           /\ pending' = pending \union found
  /\ UNCHANGED <<exists, roots, heap, mutex, pc, locals, next, calls>>


\* The slots that the destructors of deleted globals free.
SlotsFreed(deleted) == {mutableIndex[g] : g \in deleted \intersect MutableGlobals}

Garbage == unreferenced \ {compartment}

\* All unreferenced objects but the compartment are deleted, each leaving its
\* map, and a mutable global its slot; then the mutex is released.
Sweep(t) ==
  /\ pc[t] = "mark" /\ next = Len(Order) + 1 /\ visits = {} /\ pending = {}
  /\ exists' = exists \ Garbage
  /\ mask' = mask \ SlotsFreed(Garbage)
  /\ functionsOf' = [i \in Instances |-> IF i \in Garbage THEN {} ELSE functionsOf[i]]
  /\ partsOf' = [i \in Instances |-> IF i \in Garbage THEN {} ELSE partsOf[i]]
  /\ elements' = [tb \in Tables |-> IF tb \in Garbage THEN AllNull(Indices) ELSE elements[tb]]
  /\ initialValue' = [g \in Globals |-> IF g \in Garbage THEN Null ELSE initialValue[g]]
  /\ mutableIndex' = [g \in Globals |-> IF g \in Garbage THEN None ELSE mutableIndex[g]]
  /\ contextSlots' = [c \in Contexts |-> IF c \in Garbage THEN AllNull(Slots) ELSE contextSlots[c]]
  /\ UNCHANGED <<roots, initialSlots, locals, calls>>
  /\ mutex' = None
  /\ next' = 0
  /\ unreferenced' = {}
  /\ UNCHANGED <<pending, visits>>
  /\ Goto(t, IF compartment \in unreferenced THEN "delete" ELSE "idle")

DeleteCompartment(t) ==
  /\ pc[t] = "delete" /\ mutex = None
  /\ exists' = exists \ {compartment}
  /\ Goto(t, "idle")
  /\ UNCHANGED <<roots, heap, mutex, locals, collector, calls>>

---------------------------------------------------------------------------
Instantiate(t) ==
  \/ DefineObject(t) \/ FailToDefine(t) \/ ChooseSlot(t) \/ ClaimSlot(t)
  \/ AddMutableGlobal(t) \/ PublishInstance(t) \/ InitializeGlobals(t)
  \/ InitializeElements(t)

Collect(t) ==
  initGCObject(t) \/ scanObject(t) \/ visitReference(t) \/ Sweep(t) \/ DeleteCompartment(t)

Embed(t) ==
  \/ createCompartment(t) \/ createContext(t) \/ addGCRoot(t) \/ removeGCRoot(t)
  \/ setTableElement(t) \/ setGlobalValue(t) \/ BeginInstantiation(t)
  \/ collectCompartmentGarbage(t) \/ tryCollectCompartment(t)

Next == \E t \in Threads : Embed(t) \/ Instantiate(t) \/ Collect(t)

Spec == Init /\ [][Next]_vars

\* A thread in the middle of a call keeps running.  Which calls are made is
\* the embedder's choice.
FairSpec == Spec /\ \A t \in Threads : WF_vars(Instantiate(t) \/ Collect(t))

---------------------------------------------------------------------------
(* Properties *)

TypeOK ==
  /\ exists \subseteq Objects
  /\ roots \in [Objects \union Functions -> Nat]
  /\ functionsOf \in [Instances -> SUBSET Functions]
  /\ partsOf \in [Instances -> SUBSET (Objects \ {compartment})]
  /\ elements \in [Tables -> [Indices -> References \union {Null}]]
  /\ initialValue \in [Globals -> References \union {Null}]
  /\ mutableIndex \in [Globals -> Slots \union {None}]
  /\ mask \subseteq Slots
  /\ initialSlots \in [Slots -> References \union {Null}]
  /\ contextSlots \in [Contexts -> [Slots -> References \union {Null}]]
  /\ mutex \in Threads \union {None}
  /\ pc \in [Threads -> {"idle", "define", "claim", "add", "initialize",
                         "segments", "mark", "delete"}]
  /\ building \in [Threads -> Instances \union {None}]
  /\ bound \in [Threads -> SUBSET References]
  /\ made \in [Threads -> Nat]
  /\ index \in [Threads -> Slots \union {None}]
  /\ next \in 0 .. Len(Order) + 1
  /\ unreferenced \subseteq Objects
  /\ pending \subseteq Objects
  /\ calls \in Nat

\* No object of the compartment holds a reference to a deleted one, wherever
\* it holds it: in a table, in a global's initial value, in the slot of a
\* mutable global in any context, or among an instance's imports and
\* definitions; and no root reference is left to a deleted object.
NoDanglingReferences ==
  /\ \A o \in exists : ReferencesOf(o) \subseteq exists
  /\ RootedObjects \subseteq exists

\* When marking is done, what it has found unreferenced is what no chain of
\* references from a root leads to ("Frees any unreferenced objects owned by
\* a compartment", Runtime.h).  The roots are those of the code: a root of a
\* function also keeps the instances that import it.
MarkingIsExact ==
  \A t \in Threads :
    pc[t] = "mark" /\ next = Len(Order) + 1 /\ visits = {} /\ pending = {} =>
      /\ unreferenced \intersect Reachable = {}
      /\ exists \ unreferenced \subseteq Within({o \in exists : IsRoot(o)})


\* The slot of a mutable global is allocated as long as the global exists:
\* what ~Global asserts before it frees the slot.
AllocatedUntilDeleted == \A g \in exists \intersect MutableGlobals : mutableIndex[g] \in mask

\* Every collection that begins ends: an object is scanned at most once.
CollectionEnds == \A t \in Threads : pc[t] = "mark" ~> pc[t] = "idle"
=============================================================================
