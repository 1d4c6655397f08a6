----------------------------- MODULE Emscripten -----------------------------
(***************************************************************************)
(* The Emscripten host module (Lib/Emscripten): the heap it carves out of  *)
(* the guest's memory, the objects it keeps there, and stdio.              *)
(*                                                                         *)
(*   pages     the memory's size; the guest can only grow it;              *)
(*   top       MutableGlobals::DYNAMICTOP_PTR, a 32-bit word in the guest; *)
(*   tables    the static vmAddress of each ctype table, 0 if not yet put; *)
(*   keys      pthreadSpecific, with pthreadSpecificNextKey its size;      *)
(*   guards    the one-time initialisation guards that are taken;          *)
(*   blocks    ghost: the allocations handed out, as [at, size] records;   *)
(*   wrapped   ghost: some request ran past the end of the address space.  *)
(*                                                                         *)
(* Addresses are in units of 16 bytes: the rounding of an end address to a *)
(* multiple of 16 is a rounding up to the next unit.  AddressSpace is 2^32 *)
(* bytes: addresses wrap there, as the code's U32 does.                    *)
(***************************************************************************)
EXTENDS Files

CONSTANTS AddressSpace,     \* 2^32 bytes, in units
          PageUnits,        \* IR::numBytesPerPage, in units
          StaticPages,      \* minStaticMemoryPages
          MaxPages,         \* the memory type's maximum
          RequestUnits,     \* the sizes the guest asks for, in units
          MaxBlocks,        \* bound on the number of allocations explored
          MaxKeys,          \* bound on the number of pthread keys explored
          EmVectors         \* the buffer lengths passed to readv and writev

VARIABLES emStatus, emPlatform, pages, top, tables, keys, guards, blocks, wrapped

emVars == <<emStatus, emPlatform, pages, top, tables, keys, guards, blocks, wrapped, io>>

STACK_MAX == StaticPages * PageUnits
CTypeTables == {"b", "toupper", "tolower"}
CTypeUnits == 1

----------------------------------------------------------------------------

\* growMemory can be refused (module Memory has its reasons).
resizeHeap(units) ==
    LET desired == (units + PageUnits - 1) \div PageUnits
    IN  CASE desired > pages -> {[ok |-> FALSE, pages |-> pages]}
                                \cup (IF desired <= MaxPages THEN {[ok |-> TRUE, pages |-> desired]} ELSE {})
          [] desired < pages -> {[ok |-> FALSE, pages |-> pages]}
          [] OTHER -> {[ok |-> TRUE, pages |-> pages]}

\* dynamicAlloc moves the top before it knows whether memory can grow, and
\* leaves it moved when it throws outOfMemory.
dynamicAlloc(heap, units) ==
    LET end == (heap.top + units) % AddressSpace
        moved == [heap EXCEPT !.top = end, !.wrapped = @ \/ heap.top + units >= AddressSpace]
        kept == [moved EXCEPT !.blocks = @ \cup {[at |-> heap.top, size |-> units]}]
    IN  CASE heap.ok = FALSE -> {heap}
          [] end <= heap.pages * PageUnits -> {kept}
          [] end > MaxPages * PageUnits -> {[moved EXCEPT !.ok = FALSE]}
          [] OTHER -> {[moved EXCEPT !.ok = FALSE],
                       [kept EXCEPT !.pages = (end + PageUnits - 1) \div PageUnits]}

Heap == [ok |-> TRUE, top |-> top, pages |-> pages, blocks |-> blocks, wrapped |-> wrapped]

\* The heap after a sequence of allocations, one of the possible outcomes.
SetHeap(h) ==
    /\ pages' = h.pages /\ top' = h.top /\ blocks' = h.blocks /\ wrapped' = h.wrapped
    /\ emStatus' = IF h.ok THEN emStatus ELSE "trapped"
    /\ io' = NoIO

Running == emStatus = "running"
MayAllocate == Running /\ Cardinality(blocks) < MaxBlocks

----------------------------------------------------------------------------
\* instantiate: the memory starts with room for the static data and the stack,
\* or the module is refused.
instantiate(min, max) ==
    /\ emStatus = "none"
    /\ emStatus' = IF max >= StaticPages THEN "instantiated" ELSE "refused"
    /\ pages' = IF min <= StaticPages THEN StaticPages ELSE min
    /\ top' = STACK_MAX
    /\ UNCHANGED <<emPlatform, tables, keys, guards, blocks, wrapped, io>>

\* initializeGlobals runs guest code: establishStackSpace, the constructors and
\* ___errno_location.  Any of them may trap.
initializeGlobals ==
    /\ emStatus = "instantiated"
    /\ emStatus' \in {"running", "trapped"}
    /\ UNCHANGED <<emPlatform, pages, top, tables, keys, guards, blocks, wrapped, io>>

\* injectCommandArgs allocates the argv array and then each string.
injectCommandArgs(sizes) ==
    /\ MayAllocate
    /\ \E h \in FoldLeft(LAMBDA S, n : UNION {dynamicAlloc(x, n) : x \in S}, {Heap}, sizes) : SetHeap(h)
    /\ UNCHANGED <<emPlatform, tables, keys, guards>>

\* ___cxa_allocate_exception, and newlocale's allocation.
allocate_exception(units) ==
    /\ MayAllocate
    /\ \E h \in dynamicAlloc(Heap, units) : SetHeap(h)
    /\ UNCHANGED <<emPlatform, tables, keys, guards>>

_emscripten_resize_heap(units) ==
    /\ Running
    /\ \E r \in resizeHeap(units) : pages' = r.pages
    /\ io' = NoIO
    /\ UNCHANGED <<emStatus, emPlatform, top, tables, keys, guards, blocks, wrapped>>

\* The three ctype tables are copied into the heap on their first use.
ctype_loc(t) ==
    /\ MayAllocate /\ tables[t] = 0
    /\ \E h \in dynamicAlloc(Heap, CTypeUnits) :
          /\ SetHeap(h)
          /\ tables' = IF h.ok THEN [tables EXCEPT ![t] = top] ELSE tables
    /\ UNCHANGED <<emPlatform, keys, guards>>

___ctype_b_loc == ctype_loc("b")
___ctype_toupper_loc == ctype_loc("toupper")
___ctype_tolower_loc == ctype_loc("tolower")

\* The intrinsics that only throw: abort and its kin, calls through a null
\* function pointer, and the ones that are not implemented.
Throw == Running /\ emStatus' = "trapped" /\ io' = NoIO
         /\ UNCHANGED <<emPlatform, pages, top, tables, keys, guards, blocks, wrapped>>
_abort == Throw
nullFunc == Throw
calledUnimplementedIntrinsic == Throw

\* Keys are numbered in the order of creation; a null address is EINVAL.
_pthread_key_create(null) ==
    /\ Running /\ Len(keys) < MaxKeys
    /\ keys' = IF null THEN keys ELSE Append(keys, 0)
    /\ io' = NoIO
    /\ UNCHANGED <<emStatus, emPlatform, pages, top, tables, guards, blocks, wrapped>>

_pthread_setspecific(key, value) ==
    /\ Running
    /\ keys' = IF key \in DOMAIN keys THEN [keys EXCEPT ![key] = value] ELSE keys
    /\ io' = NoIO
    /\ UNCHANGED <<emStatus, emPlatform, pages, top, tables, guards, blocks, wrapped>>

___cxa_guard_acquire(g) ==
    /\ Running
    /\ guards' = guards \cup {g}
    /\ io' = NoIO
    /\ UNCHANGED <<emStatus, emPlatform, pages, top, tables, keys, blocks, wrapped>>

----------------------------------------------------------------------------
\* Stdio.  A handle is 0, 1 or 2; any other is refused.

EmOS == StdSystem(emPlatform, [p \in Paths |-> "dir"])

\* One buffer after the other, until an error or a short transfer.
vectorLoop(file, lens, Op(_, _, _, _)) ==
    LET step(S, len) ==
            UNION {IF x.stopped THEN {[x EXCEPT !.moved = Append(@, 0)]}
                   ELSE {[stopped |-> r.res # "success" \/ r.count < len, ok |-> r.res = "success",
                          moved |-> Append(x.moved, r.moved[1]),
                          count |-> x.count + r.count] : r \in Op(EmOS, file, <<len>>, FALSE)} : x \in S}
    IN  FoldLeft(step, {[stopped |-> FALSE, ok |-> TRUE, moved |-> <<>>, count |-> 0]}, lens)

VectorIO(file, lens, Op(_, _, _, _)) ==
    /\ Running
    /\ IF file \notin StdHandles THEN io' = NoIO /\ UNCHANGED emStatus
       ELSE \/ /\ \E x \in vectorLoop(file, lens, Op) :
                     io' = [lens |-> lens, moved |-> x.moved, count |-> x.count, ok |-> x.ok]
               /\ UNCHANGED emStatus
            \/ io' = NoIO /\ emStatus' = "trapped"     \* a buffer outside the memory
    /\ UNCHANGED <<emPlatform, pages, top, tables, keys, guards, blocks, wrapped>>

_readv(file, lens) ==
    VectorIO(file, lens, LAMBDA s, h, l, o : IF l = <<0>> THEN {IO(s, "none", <<0>>, 0)} ELSE VFD_readv(s, h, l, o))
_writev(file, lens) == VectorIO(file, lens, VFD_writev)
_fread(file, len) == VectorIO(file, <<len>>, VFD_readv)
_fwrite(file, len) == VectorIO(file, <<len>>, VFD_writev)
_fputc(file) == VectorIO(file, <<1>>, VFD_writev)

EmInit ==
    /\ emStatus = "none" /\ emPlatform \in {"POSIX", "Windows"}
    /\ pages = 0 /\ top = 0 /\ tables = [t \in CTypeTables |-> 0]
    /\ keys = <<>> /\ guards = {} /\ blocks = {} /\ wrapped = FALSE /\ io = NoIO

EmNext ==
    \/ \E min \in {0, StaticPages + 1}, max \in {StaticPages - 1, MaxPages} : instantiate(min, max)
    \/ initializeGlobals
    \/ \E n \in RequestUnits :
          injectCommandArgs(<<1, n>>) \/ allocate_exception(n) \/ _emscripten_resize_heap(n * PageUnits)
    \/ ___ctype_b_loc \/ ___ctype_toupper_loc \/ ___ctype_tolower_loc
    \/ _abort \/ nullFunc \/ calledUnimplementedIntrinsic
    \/ \E null \in BOOLEAN : _pthread_key_create(null)
    \/ \E key \in 1..(MaxKeys + 1) : _pthread_setspecific(key, 1)
    \/ ___cxa_guard_acquire("g")
    \/ \E file \in 0..3 :
          \/ \E lens \in EmVectors : _readv(file, lens) \/ _writev(file, lens)
          \/ _fread(file, 2) \/ _fwrite(file, 2) \/ _fputc(file)

=============================================================================
