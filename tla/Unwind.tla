------------------------------- MODULE Unwind -------------------------------
(***************************************************************************)
(* libunwind walking a thread's stack: finding the FDE of a return         *)
(* address, stepping to the caller, the two phases of raising an           *)
(* exception, forced unwinding and backtraces, while another thread loads  *)
(* and unloads JIT compiled code whose FDEs WAVM registers.                *)
(*                                                                         *)
(* The compiled code is external.  A function is a record of its address   *)
(* range, CFI, and call sites; a call site has the effect on the registers *)
(* and the stack of the instructions before it (path), the return address  *)
(* its call pushes (ra), what its exception table says (region), and its   *)
(* landing pad, which calls _Unwind_Resume with return address padRA after *)
(* "popped" words of arguments have been removed.                          *)
(*                                                                         *)
(*   lookup   whether the system has an index of the static FDEs;          *)
(*   loaded   the functions of the JIT compiled image, if one is loaded;   *)
(*   cache    DwarfFDECache; room is the capacity of its buffer;           *)
(*   regs, stack    the thread's registers and stack memory;               *)
(*   frames   ghost: the active calls, the innermost last, each with the   *)
(*            registers its function had when it called the next;          *)
(*   cursor   the unw_cursor_t; level is the frame it ought to be at;      *)
(*   private_1, private_2   of the exception in flight;                    *)
(*   target   ghost: the frame phase 1 chose;                              *)
(*   due      ghost: the frames whose cleanups an unwinding has to run;    *)
(*   cleaned  ghost: the frames whose cleanup ran, in order.               *)
(***************************************************************************)
EXTENDS Dwarf

CONSTANTS StaticFDEs,       \* the functions of the program, in the order of .eh_frame
          JITImages,        \* each a sequence of functions at the same addresses
          Callable,         \* the functions of the program that others call
          InitialCalls,     \* the calls at the bottom of a thread's stack
          RaiseFunction, ResumeFunction,
          InitialCapacity, StackWords, MaxDepth, MaxThrows

VARIABLES lookup, loaded, cache, room, regs, stack, frames, mode, cursor, level, private_1, private_2,
          target, due, cleaned, throws

unwindVars == <<lookup, loaded, cache, room, regs, stack, frames, mode, cursor, level, private_1,
                private_2, target, due, cleaned, throws>>

NULL == 0
Code == Callable \cup ToSet(loaded)

----------------------------------------------------------------------------
(***************************************************************************)
(* DwarfFDECache.                                                          *)
(***************************************************************************)

\* The first entry of the group (of any, for group 0) that covers pc.
Cache_findFDE(entries, mh, pc) ==
    LET hits == {k \in DOMAIN entries : /\ entries[k].mh = mh \/ mh = NULL
                                        /\ entries[k].ip_start <= pc
                                        /\ pc < entries[k].ip_end}
    IN IF hits = {} THEN NULL ELSE entries[CHOOSE k \in hits : \A j \in hits : k <= j].fde

\* A full buffer grows fourfold if it may; otherwise nothing is added.
CacheEntry(mh, fn, fde) == [mh |-> mh, ip_start |-> fn.pcStart, ip_end |-> fn.pcEnd, fde |-> fde]
Cache_add(c, entry, isMallocAllowed) ==
    IF Len(c.entries) < c.room THEN [c EXCEPT !.entries = Append(@, entry)]
    ELSE IF ~isMallocAllowed THEN c
    ELSE [entries |-> Append(c.entries, entry), room |-> 4 * c.room]

removeAllIn_KeepsAll(entries, mh) == entries
removeAllIn(entries, mh) == SelectSeq(entries, LAMBDA e : e.mh # mh)

----------------------------------------------------------------------------
(***************************************************************************)
(* Static lookup.  The address of an FDE is its position in .eh_frame; the *)
(* FDEs of a JIT compiled image follow at JITBase, wherever they come from.*)
(***************************************************************************)

DSOBase == 1
JITBase == 100
FunctionOf(fde) == IF fde > JITBase THEN loaded[fde - JITBase] ELSE StaticFDEs[fde]

\* CFI_Parser::findFDE: the scan, from the start or a hint.  Its range excludes
\* the first address of a function and includes the one after its last.
Scan(first, pc) ==
    LET hits == {k \in first..Len(StaticFDEs) : StaticFDEs[k].pcStart < pc /\ pc <= StaticFDEs[k].pcEnd}
    IN IF hits = {} THEN NULL ELSE CHOOSE k \in hits : \A j \in hits : k <= j

\* EHHeaderParser::findFDE: binary search of the table of the header, which the
\* linker sorts by address.
IndexTable == SetToSortSeq(DOMAIN StaticFDEs, LAMBDA i, j : StaticFDEs[i].pcStart < StaticFDEs[j].pcStart)
RECURSIVE SearchIndex(_, _, _, _)
SearchIndex(table, low, len, pc) ==
    IF len <= 1 THEN table[low + 1]
    ELSE LET mid == low + len \div 2
             start == StaticFDEs[table[mid + 1]].pcStart IN
         IF start = pc THEN table[mid + 1]
         ELSE IF start < pc THEN SearchIndex(table, mid, len - len \div 2, pc)
         ELSE SearchIndex(table, low, len \div 2, pc)
IfCovers(fde, pc) == IF StaticFDEs[fde].pcStart <= pc /\ pc < StaticFDEs[fde].pcEnd THEN fde ELSE NULL
Index_findFDE(pc) == IfCovers(SearchIndex(IndexTable, 0, Len(StaticFDEs), pc), pc)

\* getInfoFromDwarfSection: index, cached hint, scan; what the scan finds is
\* cached when there is no index.
Scanned(fde) == [fde |-> fde, add |-> fde # NULL /\ lookup = "scan"]
FirstOf(indexed, hinted, pc) ==
    CASE indexed # NULL -> [fde |-> indexed, add |-> FALSE]
      [] indexed = NULL /\ hinted # NULL -> [fde |-> hinted, add |-> FALSE]
      [] OTHER -> Scanned(Scan(1, pc))
ScanFromHint(hint, pc) == IF hint = NULL THEN NULL ELSE Scan(hint, pc)
findStaticFDE(pc) ==
    FirstOf(IF lookup = "index" THEN Index_findFDE(pc) ELSE NULL,
            ScanFromHint(Cache_findFDE(cache, DSOBase, pc), pc), pc)

\* setInfoBasedOnIPRegister: a return address is looked up one before, for it
\* may be the first address of the next function.  findUnwindSections finds the
\* program's sections for an address of the program only.
InProgram(pc) == \E fn \in ToSet(StaticFDEs) : fn.pcStart <= pc /\ pc < fn.pcEnd
Missing == [missing |-> TRUE, fde |-> NULL, gp |-> 0, start_ip |-> 0, end_ip |-> 0, handler |-> FALSE]
Described(fde, fn, run) ==
    IF ~run.ok THEN Missing
    ELSE [missing |-> FALSE, fde |-> fde, gp |-> run.prolog.spExtraArgSize,
          start_ip |-> fn.pcStart, end_ip |-> fn.pcEnd, handler |-> fn.cie.personality]
DescribedBy(fde, fn, pc) == Described(fde, fn, parseFDEInstructions(fn, fn.cie, pc))
InfoFrom(fde, pc) == IF fde = NULL THEN Missing ELSE DescribedBy(fde, FunctionOf(fde), pc)
LookupPC(r, isReturnAddress) ==
    IF isReturnAddress THEN Word(r[ReturnAddressColumn] - 1) ELSE r[ReturnAddressColumn]
StaticInfo(found, pc) == [info |-> InfoFrom(found.fde, pc), add |-> found.add]
OrDynamic(static, pc) ==
    IF ~static.info.missing THEN static
    ELSE [info |-> InfoFrom(Cache_findFDE(cache, NULL, pc), pc), add |-> FALSE]
InfoAt(pc) ==
    OrDynamic(StaticInfo(IF InProgram(pc) THEN findStaticFDE(pc) ELSE [fde |-> NULL, add |-> FALSE], pc), pc)
setInfoBasedOnIPRegister(r, isReturnAddress) == InfoAt(LookupPC(r, isReturnAddress))

----------------------------------------------------------------------------
(***************************************************************************)
(* The cursor.                                                             *)
(***************************************************************************)

\* The cursor after its registers were set, and the cache after the lookup.
CacheNow == [entries |-> cache, room |-> room]
CursorWith(r, s) ==
    [cursor |-> [regs |-> r, info |-> s.info],
     cache |-> IF s.add THEN Cache_add(CacheNow, CacheEntry(DSOBase, FunctionOf(s.info.fde), s.info.fde), FALSE)
               ELSE CacheNow]
CursorAt(r, isReturnAddress) == CursorWith(r, setInfoBasedOnIPRegister(r, isReturnAddress))
SetCache(c) == cache' = c.entries /\ room' = c.room

\* UnwindCursor::step: the result, the cursor, the cache.  The stack pointer of
\* the new frame is moved past the arguments it had pushed.
Stepped(at) ==
    IF at.cursor.info.missing THEN [result |-> "UNW_STEP_END", cursor |-> at.cursor, cache |-> at.cache]
    ELSE [result |-> "UNW_STEP_SUCCESS",
          cursor |-> [at.cursor EXCEPT !.regs[rsp] = Word(@ + at.cursor.info.gp)], cache |-> at.cache]
NotStepped(result, c) == [result |-> result, cursor |-> c, cache |-> CacheNow]
AfterDwarf(dwarf, c) ==
    IF dwarf.result # "UNW_STEP_SUCCESS" THEN NotStepped(dwarf.result, c)
    ELSE Stepped(CursorAt(dwarf.regs, TRUE))
Step(c) ==
    IF c.info.missing THEN NotStepped("UNW_STEP_END", c)
    ELSE LET fn == FunctionOf(c.info.fde) IN
         AfterDwarf(stepWithDwarf(fn, fn.cie, c.regs[ReturnAddressColumn], c.regs, stack), c)

----------------------------------------------------------------------------
(***************************************************************************)
(* The thread's code (external).                                           *)
(***************************************************************************)

Execute(m, op) ==
    CASE op[1] = "push" -> [m EXCEPT !.regs[rsp] = @ - 1, !.stack[m.regs[rsp] - 1] = m.regs[op[2]]]
      [] op[1] = "sub" -> [m EXCEPT !.regs[rsp] = @ - op[2]]
      [] op[1] = "mov" -> [m EXCEPT !.regs[op[2]] = m.regs[op[3]]]
      [] op[1] = "fork" -> [m EXCEPT !.regs[rsp] = op[2],
                              !.stack[op[2]] = m.regs[rbx], !.stack[op[2] + 1] = m.regs[rsp] + 1,
                              !.stack[op[2] + 2] = m.regs[rbp], !.stack[op[2] + 3] = m.regs[r12],
                              !.stack[op[2] + 4] = m.stack[m.regs[rsp]]]
      [] op[1] = "set" -> [m EXCEPT !.regs[op[2]] = 2000 + m.tag + op[2]]

\* "fork" is switchToForkedStackContext: the caller's context is stored at the
\* base of another stack, where forkedStackTrampoline is called from.

\* The call pushes the return address; the callee runs to its own call.
RunTo(site, r, mem, returnAddress, tag) ==
    LET called == [regs |-> [r EXCEPT ![rsp] = @ - 1],
                   stack |-> [mem EXCEPT ![r[rsp] - 1] = returnAddress], tag |-> tag]
        m == FoldLeft(Execute, called, site.path)
    IN [m EXCEPT !.regs[ReturnAddressColumn] = site.ra]
Enter(returnAddress, fn, site) == RunTo(site, regs, stack, returnAddress, 10 * Len(frames))
NewFrame(fn, site, m) == [fn |-> fn, site |-> site, ra |-> site.ra, at |-> m.regs]
Innermost == frames[Len(frames)]

Call(fn, site) ==
    /\ mode = "run" /\ Len(frames) < MaxDepth
    /\ LET m == Enter(Innermost.ra, fn, site) IN
       /\ regs' = m.regs /\ stack' = m.stack
       /\ frames' = Append(frames, NewFrame(fn, site, m))
    /\ UNCHANGED <<lookup, loaded, cache, room, mode, cursor, level, private_1, private_2, target,
                   due, cleaned, throws>>

\* What is below the stack pointer is lost, to a signal handler or the next call.
Clobbered(sp) == [a \in DOMAIN stack |-> IF a < sp THEN 0 ELSE stack[a]]

\* The epilogue restores the registers the function had saved.
Return ==
    /\ mode = "run" /\ Len(frames) > 1
    /\ frames' = Front(frames)
    /\ regs' = frames[Len(frames) - 1].at
    /\ stack' = Clobbered(regs'[rsp])
    /\ UNCHANGED <<lookup, loaded, cache, room, mode, cursor, level, private_1, private_2, target,
                   due, cleaned, throws>>

----------------------------------------------------------------------------
(***************************************************************************)
(* Another thread loads and unloads an image: visitFDEs passes each FDE to *)
(* __register_frame or __deregister_frame.  A module is not deleted while  *)
(* a call of its functions is active.                                      *)
(***************************************************************************)

\* _unw_add_dynamic_fde: the FDE is its own group, and the buffer may grow.
registerEHFrames(c, image) ==
    FoldLeft(LAMBDA d, k : Cache_add(d, CacheEntry(JITBase + k, image[k], JITBase + k), TRUE),
             c, [k \in DOMAIN image |-> k])
deregisterEHFrames(entries, image) ==
    FoldLeft(LAMBDA e, k : removeAllIn(e, JITBase + k), entries, [k \in DOMAIN image |-> k])

LoadModule(image) ==
    /\ loaded = << >>
    /\ loaded' = image
    /\ SetCache(registerEHFrames([entries |-> cache, room |-> room], image))
    /\ UNCHANGED <<lookup, regs, stack, frames, mode, cursor, level, private_1, private_2, target,
                   due, cleaned, throws>>
UnloadModule ==
    /\ loaded # << >>
    /\ \A k \in DOMAIN frames : frames[k].fn \notin ToSet(loaded)
    /\ cache' = deregisterEHFrames(cache, loaded)
    /\ loaded' = << >>
    /\ UNCHANGED <<lookup, room, regs, stack, frames, mode, cursor, level, private_1, private_2, target,
                   due, cleaned, throws>>

----------------------------------------------------------------------------
(***************************************************************************)
(* The personality function (external): what the exception table says of   *)
(* the call before the frame's instruction pointer.                        *)
(***************************************************************************)

SiteAt(fn, ip) == {s \in fn.sites : s.ra = ip}
Region(c) ==
    LET s == SiteAt(FunctionOf(c.info.fde), c.regs[ReturnAddressColumn]) IN
    IF s = {} \/ ~c.info.handler THEN "none" ELSE (CHOOSE t \in s : TRUE).region
PadOf(c) == (CHOOSE t \in SiteAt(FunctionOf(c.info.fde), c.regs[ReturnAddressColumn]) : TRUE).pad

----------------------------------------------------------------------------
(***************************************************************************)
(* Raising an exception.  The walk starts in the frame of the function     *)
(* that takes the context and the first step leaves that frame.            *)
(***************************************************************************)

\* unw_getcontext and unw_init_local in a function called now.
StartWalk(fn, site, walk) ==
    \E m \in {Enter(Innermost.ra, fn, site)} : \E at \in {CursorAt(m.regs, FALSE)} :
       /\ regs' = m.regs /\ stack' = m.stack
       /\ frames' = Append(frames, NewFrame(fn, site, m))
       /\ cursor' = at.cursor /\ SetCache(at.cache)
       /\ level' = Len(frames) + 1
       /\ mode' = walk

\* The frames between "outer" and the throw that have a cleanup to run.
HasCleanup(f) == f.site.region = "cleanup" /\ f.ra = f.site.ra
CleanupsAbove(outer) ==
    SetToSortSeq({k \in DOMAIN frames : k > outer /\ HasCleanup(frames[k])}, LAMBDA j, k : j > k)

OnlySite(fn) == CHOOSE s \in fn.sites : TRUE
Begin(walk) ==
    /\ mode = "run" /\ throws < MaxThrows
    /\ throws' = throws + 1
    /\ StartWalk(RaiseFunction, OnlySite(RaiseFunction), walk)
    /\ target' = 0 /\ cleaned' = << >>
    /\ UNCHANGED <<lookup, loaded>>
_Unwind_RaiseException == Begin("phase1") /\ private_1' = 0 /\ private_2' = 0 /\ due' = << >>
_Unwind_ForcedUnwind ==
    Begin("forced") /\ private_1' = 1 /\ private_2' = 0 /\ due' = CleanupsAbove(0)
\* captureCallStack and _Unwind_Backtrace.
captureCallStack == Begin("backtrace") /\ UNCHANGED <<private_1, private_2, due>>

\* The walk goes on to the next frame; or the stack ends, or the step fails.
Walked(s) ==
    /\ cursor' = s.cursor /\ SetCache(s.cache) /\ level' = level - 1
NoCursor == [regs |-> << >>, info |-> Missing]
Left(s) == cursor' = NoCursor /\ SetCache(s.cache)
EndOfStack ==
    /\ mode \in {"phase1", "phase2", "forced", "backtrace"}
    /\ \E s \in {Step(cursor)} :
       /\ s.result # "UNW_STEP_SUCCESS" /\ Left(s)
       /\ mode' = IF s.result # "UNW_STEP_END" THEN "fatal"
                  ELSE IF mode = "backtrace" THEN "traced" ELSE "terminated"
    /\ level' = level - 1
    /\ UNCHANGED <<lookup, loaded, regs, stack, frames, private_1, private_2, target, due, cleaned, throws>>
\* The stack pointer that identifies the frame: the one of the frame stepped to.
MarkedSP_Before(before, after) == before.regs[rsp]
MarkedSP(before, after) == after.regs[rsp]

\* One iteration of unwind_phase1: on success, phase 2 begins with a new cursor
\* on the same context.
unwind_phase1 ==
    /\ mode = "phase1"
    /\ \E s \in {Step(cursor)} :
       /\ s.result = "UNW_STEP_SUCCESS"
       /\ IF Region(s.cursor) = "catch"
            THEN /\ private_2' = MarkedSP(cursor, s.cursor) /\ target' = level - 1 /\ due' = CleanupsAbove(level - 1)
                 /\ mode' = "phase2" /\ level' = Len(frames)
                 /\ cursor' = CursorAt(regs, FALSE).cursor /\ SetCache(s.cache)
            ELSE Walked(s) /\ UNCHANGED <<private_2, target, due, mode>>
    /\ UNCHANGED <<lookup, loaded, regs, stack, frames, private_1, cleaned, throws>>

\* What a landing pad expects: the registers at the call, without the arguments.
LandingRegisters(f) ==
    [f.at EXCEPT ![rsp] = @ + f.site.popped, ![ReturnAddressColumn] = f.site.pad]

\* _Unwind_SetIP and unw_resume: the thread continues at the landing pad with
\* the registers of the cursor.
InstallContext(c, region) ==
    LET f == frames[level - 1] IN
    /\ regs' = [c.regs EXCEPT ![ReturnAddressColumn] = PadOf(c)]
    /\ stack' = Clobbered(c.regs[rsp])
    /\ level' = 0
    /\ frames' = Append(SubSeq(frames, 1, level - 2),
                       [f EXCEPT !.ra = f.site.padRA, !.at = LandingRegisters(f)])
    /\ mode' = IF region = "catch" THEN "caught" ELSE "pad"

\* One iteration of unwind_phase2.  The frame phase 1 marked is the one whose
\* stack pointer is private_2.
unwind_phase2 ==
    /\ mode = "phase2"
    /\ \E s \in {Step(cursor)} :
       LET c == s.cursor
           handlerFrame == c.regs[rsp] = private_2
           region == Region(c) IN
       /\ s.result = "UNW_STEP_SUCCESS"
       /\ IF region = "cleanup" \/ (region = "catch" /\ handlerFrame)
            THEN /\ InstallContext(c, region) /\ Left(s)
                 /\ cleaned' = IF region = "cleanup" THEN Append(cleaned, level - 1) ELSE cleaned
          ELSE /\ mode' = IF handlerFrame /\ c.info.handler THEN "aborted" ELSE mode
               /\ Walked(s)
               /\ UNCHANGED <<regs, stack, frames, cleaned>>
    /\ UNCHANGED <<lookup, loaded, private_1, private_2, target, due, throws>>

\* One iteration of unwind_phase2_forced, with a stop function that never stops:
\* only cleanups run.
unwind_phase2_forced ==
    /\ mode = "forced"
    /\ \E s \in {Step(cursor)} :
       /\ s.result = "UNW_STEP_SUCCESS"
       /\ IF Region(s.cursor) = "cleanup"
            THEN InstallContext(s.cursor, "cleanup") /\ Left(s) /\ cleaned' = Append(cleaned, level - 1)
            ELSE Walked(s) /\ UNCHANGED <<regs, stack, frames, cleaned, mode>>
    /\ UNCHANGED <<lookup, loaded, private_1, private_2, target, due, throws>>

\* The landing pad of a cleanup ends by calling _Unwind_Resume.
_Unwind_Resume ==
    /\ mode = "pad"
    /\ StartWalk(ResumeFunction, OnlySite(ResumeFunction), IF private_1 # 0 THEN "forced" ELSE "phase2")
    /\ UNCHANGED <<lookup, loaded, private_1, private_2, target, due, cleaned, throws>>

\* One frame of a backtrace.
_Unwind_Backtrace ==
    /\ mode = "backtrace"
    /\ \E s \in {Step(cursor)} : s.result = "UNW_STEP_SUCCESS" /\ Walked(s)
    /\ UNCHANGED <<lookup, loaded, regs, stack, frames, mode, private_1, private_2, target, due, cleaned,
                   throws>>
\* The call that took the backtrace returns.
Traced ==
    /\ mode = "traced"
    /\ mode' = "run" /\ frames' = Front(frames) /\ regs' = frames[Len(frames) - 1].at
    /\ stack' = Clobbered(regs'[rsp])
    /\ UNCHANGED <<lookup, loaded, cache, room, cursor, level, private_1, private_2, target,
                   due, cleaned, throws>>

\* The handler runs and the function goes on.
Handled ==
    /\ mode = "caught"
    /\ mode' = "run"
    /\ private_2' = 0 /\ target' = 0 /\ due' = << >> /\ cleaned' = << >>
    /\ UNCHANGED <<lookup, loaded, cache, room, regs, stack, frames, cursor, level, private_1, throws>>

----------------------------------------------------------------------------
NoFrames ==
    [regs |-> [r \in {rax, rbx, rbp, rsp, r12, ReturnAddressColumn} |-> IF r = rsp THEN StackWords + 1 ELSE 0],
     stack |-> [a \in 1..(StackWords + 1) |-> 0], frames |-> << >>]
WithCall(s, fn) ==
    LET site == OnlySite(fn)
        n == Len(s.frames)
        m == RunTo(site, s.regs, s.stack, IF n = 0 THEN 0 ELSE s.frames[n].ra, 10 * n)
    IN [regs |-> m.regs, stack |-> m.stack, frames |-> Append(s.frames, NewFrame(fn, site, m))]

UnwindInit ==
    /\ lookup \in {"index", "scan"}
    /\ loaded = << >> /\ cache = << >> /\ room = InitialCapacity
    /\ \E calls \in InitialCalls :
         LET s == FoldLeft(WithCall, NoFrames, calls) IN
         /\ regs = s.regs /\ stack = s.stack /\ frames = s.frames
    /\ mode = "run" /\ level = 0 /\ cursor = NoCursor /\ private_1 = 0 /\ private_2 = 0
    /\ target = 0 /\ due = << >> /\ cleaned = << >> /\ throws = 0

UnwindNext ==
    \/ \E fn \in Code : \E site \in fn.sites : Call(fn, site)
    \/ Return
    \/ \E image \in JITImages : LoadModule(image)
    \/ UnloadModule
    \/ _Unwind_RaiseException \/ _Unwind_ForcedUnwind \/ captureCallStack
    \/ unwind_phase1 \/ unwind_phase2 \/ unwind_phase2_forced
    \/ _Unwind_Resume \/ _Unwind_Backtrace \/ EndOfStack
    \/ Traced \/ Handled

----------------------------------------------------------------------------
Walking == mode \in {"phase1", "phase2", "forced", "backtrace"}
ExpectedSP(f) == f.at[rsp] + (IF f.ra = f.site.ra THEN f.site.popped ELSE 0)

\* Each step of the walk (stepWithDwarf on the FDE that setInfoBasedOnIPRegister
\* finds) gives exactly the registers the caller had at its call, whatever code
\* has been registered and deregistered meanwhile; a landing pad gets them too;
\* and the walk ends at the bottom of the stack, never before.
UnwindRecoversCaller ==
    /\ Walking /\ level > 0 =>
         LET f == frames[level] IN
         /\ ~cursor.info.missing /\ FunctionOf(cursor.info.fde) = f.fn
         /\ \A r \in {rbx, rbp, r12} : cursor.regs[r] = f.at[r]
         /\ cursor.regs[ReturnAddressColumn] = f.ra
         /\ level < Len(frames) => cursor.regs[rsp] = ExpectedSP(f)
    /\ mode \in {"pad", "caught"} => \A r \in DOMAIN regs \ {rax} : regs[r] = Innermost.at[r]
    /\ mode \in {"terminated", "traced"} => level = 0
    /\ mode # "fatal"

\* unwind_phase2 stops at the frame unwind_phase1 chose, identified by its stack
\* pointer alone, after the cleanups of the frames above it have each run once,
\* the innermost first; without a handler none runs; a forced unwinding runs all.
PhasesAgree ==
    /\ mode # "aborted"
    /\ mode \in {"pad", "phase2", "forced", "caught"} => IsPrefix(cleaned, due)
    /\ mode = "caught" => Len(frames) = target /\ cleaned = due
    /\ mode = "terminated" => cleaned = due /\ target = 0

-----------------------------------------------------------------------------
(***************************************************************************)
(* The two phases of libunwind's other unwinders. "sjlj" walks the list of *)
(* the contexts that functions register, and "ehabi" the frames that the   *)
(* ARM personality functions step through. A frame is what its exception   *)
(* table says of the call it is in.                                        *)
(***************************************************************************)

CONSTANT Depth        \* bound on the frames of the thread
Regions == {"none", "cleanup", "catch"}

VARIABLES flavour,    \* "sjlj" or "ehabi"
          chain,      \* the frames, outermost first: [region, registered]
          top,        \* sjlj: head of the list of contexts, 0 is none
          at,         \* the walk's frame: c, or the cursor
          doing,      \* "code", "phase1", "phase2", "forced", "landed", "handled", "ended", "abort"
          resuming,   \* ehabi: the walk began in _Unwind_Resume
          forced,     \* private_1
          marked,     \* private_2, or barrier_cache: the frame phase 1 chose
          expected,   \* the frame an exception must reach and its cleanups
          ran         \* the cleanups that ran
phaseVars == <<flavour, chain, top, at, doing, resuming, forced, marked, expected, ran>>

\* prev: the next context of the list.
Prev(k) == LET outer == {j \in 1..(k - 1) : chain[j].registered} IN
           IF outer = {} THEN 0 ELSE CHOOSE j \in outer : \A i \in outer : i <= j

\* A function that catches or cleans up registers its context when it starts and
\* unregisters it when it returns.
_Unwind_SjLj_Register(region) ==
    /\ doing = "code" /\ Len(chain) < Depth
    /\ chain' = Append(chain, [region |-> region, registered |-> region # "none"])
    /\ top' = IF region # "none" THEN Len(chain) + 1 ELSE top
    /\ UNCHANGED <<flavour, at, doing, resuming, forced, marked, expected, ran>>
_Unwind_SjLj_Unregister ==
    /\ doing = "code" /\ chain # << >>
    /\ chain' = Front(chain)
    /\ top' = IF Last(chain).registered THEN Prev(Len(chain)) ELSE top
    /\ UNCHANGED <<flavour, at, doing, resuming, forced, marked, expected, ran>>

Catches == {k \in DOMAIN chain : chain[k].region = "catch"}
Goal == IF Catches = {} THEN 0 ELSE CHOOSE k \in Catches : \A j \in Catches : j <= k
CleanupsDown(k) ==
    SetToSortSeq({j \in (k + 1)..Len(chain) : chain[j].region = "cleanup"}, LAMBDA a, b : a > b)
WalkStart == IF flavour = "sjlj" THEN top ELSE Len(chain)
NextFrame(k) == IF flavour = "sjlj" THEN Prev(k) ELSE k - 1

RaiseException(f) ==
    /\ doing = "code" /\ flavour = f
    /\ doing' = "phase1" /\ at' = WalkStart /\ forced' = FALSE /\ marked' = 0
    /\ expected' = [frame |-> Goal, cleanups |-> IF Goal = 0 THEN << >> ELSE CleanupsDown(Goal)]
    /\ ran' = << >> /\ resuming' = FALSE
    /\ UNCHANGED <<flavour, chain, top>>
_Unwind_SjLj_RaiseException == RaiseException("sjlj")
_Unwind_RaiseException_EHABI == RaiseException("ehabi")
\* Only sjlj has a forced unwinding here; the stop function does not stop it.
_Unwind_ForcedUnwind_SjLj ==
    /\ doing = "code" /\ flavour = "sjlj"
    /\ doing' = "forced" /\ at' = WalkStart /\ forced' = TRUE /\ marked' = 0
    /\ expected' = [frame |-> 0, cleanups |-> CleanupsDown(0)]
    /\ ran' = << >> /\ resuming' = FALSE
    /\ UNCHANGED <<flavour, chain, top>>

\* No more frames: _URC_END_OF_STACK, or unw_get_proc_info fails.
WalkEnds ==
    /\ doing \in {"phase1", "phase2", "forced"} /\ at = 0
    /\ doing' = "ended"
    /\ UNCHANGED <<flavour, chain, top, at, resuming, forced, marked, expected, ran>>

\* The personality function looks for a handler (_URC_HANDLER_FOUND) or continues.
SearchFrame(f) ==
    /\ doing = "phase1" /\ at # 0 /\ flavour = f
    /\ IF chain[at].region = "catch"
         THEN doing' = "phase2" /\ marked' = at /\ at' = WalkStart
         ELSE at' = NextFrame(at) /\ UNCHANGED <<doing, marked>>
    /\ UNCHANGED <<flavour, chain, top, resuming, forced, expected, ran>>

unwind_phase1_SjLj == SearchFrame("sjlj")
unwind_phase1_EHABI == SearchFrame("ehabi")

\* _URC_INSTALL_CONTEXT: the thread continues at the landing pad of the frame,
\* whose context becomes the head of the list.
Install(catching) ==
    /\ chain' = SubSeq(chain, 1, at)
    /\ top' = IF flavour = "sjlj" THEN at ELSE top
    /\ doing' = IF catching THEN "handled" ELSE "landed"
    /\ ran' = IF catching THEN ran ELSE Append(ran, at)
    /\ UNCHANGED <<at, resuming>>
\* In the frame that a walk resumes in, the call that was interrupted has had its
\* cleanup: the landing pad has set the call site to one without an action (sjlj),
\* or the state is _US_UNWIND_FRAME_RESUME (ehabi).
ActionFor(k) == IF resuming /\ k = Len(chain) THEN "none" ELSE chain[k].region
ContinueFrom(k) == at' = NextFrame(k) /\ UNCHANGED <<chain, top, ran, resuming>>

CleanupFrame(f) ==
    /\ doing = "phase2" /\ at # 0 /\ flavour = f
    /\ \/ ActionFor(at) = "cleanup" /\ Install(FALSE)
       \/ ActionFor(at) = "catch" /\ at = marked /\ Install(TRUE)
       \/ /\ ActionFor(at) = "none" \/ (ActionFor(at) = "catch" /\ at # marked)
          /\ doing' = IF at = marked THEN "abort" ELSE doing
          /\ ContinueFrom(at)
    /\ UNCHANGED <<flavour, forced, marked, expected>>
unwind_phase2_SjLj == CleanupFrame("sjlj")
unwind_phase2_EHABI == CleanupFrame("ehabi")
unwind_phase2_forced_SjLj ==
    /\ doing = "forced" /\ at # 0
    /\ \/ ActionFor(at) = "cleanup" /\ Install(FALSE)
       \/ ActionFor(at) # "cleanup" /\ ContinueFrom(at) /\ UNCHANGED doing
    /\ UNCHANGED <<flavour, forced, marked, expected>>

\* The landing pad of a cleanup ends by resuming the unwinding.
ResumeUnwinding(f) ==
    /\ doing = "landed" /\ flavour = f
    /\ doing' = IF forced THEN "forced" ELSE "phase2"
    /\ at' = WalkStart /\ resuming' = TRUE
    /\ UNCHANGED <<flavour, chain, top, forced, marked, expected, ran>>
_Unwind_SjLj_Resume == ResumeUnwinding("sjlj")
_Unwind_Resume_EHABI == ResumeUnwinding("ehabi")
\* The handler ends the exception.
EndCatch ==
    /\ doing = "handled" /\ doing' = "code" /\ at' = 0 /\ marked' = 0 /\ resuming' = FALSE
    /\ chain' = [chain EXCEPT ![Len(chain)].region = "cleanup"]
    /\ expected' = [frame |-> 0, cleanups |-> << >>] /\ ran' = << >>
    /\ UNCHANGED <<flavour, top, forced>>

PhasesInit ==
    /\ flavour \in {"sjlj", "ehabi"}
    /\ chain = << >> /\ top = 0 /\ at = 0 /\ doing = "code" /\ resuming = FALSE /\ forced = FALSE /\ marked = 0
    /\ expected = [frame |-> 0, cleanups |-> << >>] /\ ran = << >>
PhasesNext ==
    \/ \E r \in Regions : _Unwind_SjLj_Register(r)
    \/ _Unwind_SjLj_Unregister
    \/ _Unwind_SjLj_RaiseException \/ _Unwind_RaiseException_EHABI \/ _Unwind_ForcedUnwind_SjLj \/ WalkEnds
    \/ unwind_phase1_SjLj \/ unwind_phase1_EHABI \/ unwind_phase2_SjLj \/ unwind_phase2_EHABI
    \/ unwind_phase2_forced_SjLj \/ _Unwind_SjLj_Resume \/ _Unwind_Resume_EHABI \/ EndCatch

\* The exception reaches the innermost handler, after each cleanup between it and
\* the throw has run once, the innermost first; and the list of contexts has the
\* functions that are active, and no other, whenever user code runs.
ChainPhasesAgree ==
    /\ doing # "abort"
    /\ doing \in {"phase2", "forced", "landed", "handled"} => IsPrefix(ran, expected.cleanups)
    /\ doing = "handled" => Len(chain) = expected.frame /\ ran = expected.cleanups
    /\ doing = "ended" => expected.frame = 0 /\ ran = expected.cleanups
    /\ flavour = "sjlj" /\ doing \in {"code", "landed", "handled"} =>
         top = (IF chain # << >> /\ Last(chain).registered THEN Len(chain) ELSE Prev(Len(chain)))
=============================================================================
