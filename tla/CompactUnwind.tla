--------------------------- MODULE CompactUnwind ---------------------------
(***************************************************************************)
(* libunwind's compact unwinding of x86, x86_64 and arm64: how the         *)
(* encoding of a function is found in the two-level table of the section,  *)
(* and the step to the caller that each kind of encoding describes.        *)
(*                                                                         *)
(* The compiler and the linker, which lay the frames out and encode them,  *)
(* are external; an encoding is a record of its bit fields.  Words of      *)
(* memory are counted, not bytes, and a saved register is its number.      *)
(* A check is one frame, or one look-up: "work" is what is asked and       *)
(* "answer" what the code returns.                                         *)
(***************************************************************************)
EXTENDS Integers, Sequences, FiniteSets, SequencesExt

CONSTANTS Frames,     \* frames as the ABI lays them out
          Sections,   \* unwind sections
          Offsets     \* function offsets to look up

VARIABLES work, answer
compactVars == <<work, answer>>

----------------------------------------------------------------------------
(***************************************************************************)
(* x86 and x86_64.  Registers 1 to 6 are the ones a function may save      *)
(* (the last is the frame pointer); sp and ip are 7 and 8.                 *)
(***************************************************************************)
\* A set of numbers in increasing order.
InOrder(S) == [i \in 1..Cardinality(S) |-> CHOOSE x \in S : Cardinality({y \in S : y < x}) = i - 1]

BP == 6
SP == 7
IP == 8

\* Up to five registers at consecutive words, from "offset" below the frame
\* pointer; 0 is none.  Then the frame pointer and return address above.
frameUnwind(regs, mem) ==
    [regs EXCEPT ![BP] = mem[regs[BP]], ![SP] = regs[BP] + 2, ![IP] = mem[regs[BP] + 1]]
stepWithCompactEncodingRBPFrame(e, regs, mem) ==
    LET saved == regs[BP] - e.offset
        restored == [r \in DOMAIN regs |->
                        IF \E i \in 1..5 : e.locations[i] = r
                        THEN mem[saved + (CHOOSE i \in 1..5 : e.locations[i] = r) - 1] ELSE regs[r]]
    IN frameUnwind(restored, mem)

\* Each digit of the permutation is the rank of a register among those not yet
\* used; the weights of the digits depend on how many registers there are.
Weights(regCount) ==
    CASE regCount \in {5, 6} -> <<120, 24, 6, 2, 1, 1>>
      [] regCount = 4 -> <<60, 12, 3, 1>>
      [] regCount = 3 -> <<20, 4, 1>>
      [] regCount = 2 -> <<5, 1>>
      [] OTHER -> <<1>>
permunreg(regCount, permutation) ==
    LET w == Weights(regCount)
        digits[i \in 0..regCount] ==
            IF i = 0 THEN [rest |-> permutation, out |-> << >>]
            ELSE LET d == digits[i - 1] IN
                 IF i = 6 THEN [d EXCEPT !.out = Append(@, 0)]
                 ELSE [rest |-> d.rest % w[i], out |-> Append(d.out, d.rest \div w[i])]
    IN digits[regCount].out
registersSaved(regCount, permutation) ==
    LET rank == permunreg(regCount, permutation)
        named[i \in 0..regCount] ==
            IF i = 0 THEN << >>
            ELSE LET before == named[i - 1]
                     unused == InOrder((1..6) \ ToSet(before))
                 IN Append(before, unused[rank[i] + 1])
    IN named[regCount]

\* The stack size is in the encoding, or in the instruction it points to.
framelessUnwind(regs, mem, location) == [regs EXCEPT ![IP] = mem[location], ![SP] = location + 1]
stepWithCompactEncodingFrameless(e, regs, mem, indirect) ==
    LET stackSize == IF indirect THEN e.subl + e.adjust ELSE e.size
        saved == regs[SP] + stackSize - 1 - e.count
        order == registersSaved(e.count, e.permutation)
        restored == [r \in DOMAIN regs |->
                        IF \E i \in 1..e.count : order[i] = r
                        THEN mem[saved + (CHOOSE i \in 1..e.count : order[i] = r) - 1] ELSE regs[r]]
    IN framelessUnwind(restored, mem, saved + e.count)

stepWithCompactEncoding(e, regs, mem) ==
    CASE e.mode = "RBP_FRAME" -> stepWithCompactEncodingRBPFrame(e, regs, mem)
      [] e.mode = "STACK_IMMD" -> stepWithCompactEncodingFrameless(e, regs, mem, FALSE)
      [] e.mode = "STACK_IND" -> stepWithCompactEncodingFrameless(e, regs, mem, TRUE)

----------------------------------------------------------------------------
(***************************************************************************)
(* arm64.  The five pairs of general registers and the four pairs of float *)
(* registers are numbered 1 to 18; fp, lr, sp and pc are 19 to 22.         *)
(***************************************************************************)
FP == 19
LR == 20
ARMSP == 21
ARMPC == 22

\* The registers of the pairs, in order, at descending words from "top".
PairRegisters(pairs) == InOrder(UNION {{2 * p - 1, 2 * p} : p \in pairs})
RestorePairs(regs, mem, pairs, top) ==
    LET order == PairRegisters(pairs) IN
    [r \in DOMAIN regs |-> IF r \in ToSet(order) THEN mem[top + 1 - (CHOOSE i \in DOMAIN order : order[i] = r)] ELSE regs[r]]
arm64_stepWithCompactEncodingFrame(e, regs, mem) ==
    LET restored == RestorePairs(regs, mem, e.pairs, regs[FP] - 1)
        fp == regs[FP]
    IN [restored EXCEPT ![FP] = mem[fp], ![ARMSP] = fp + 2, ![ARMPC] = mem[fp + 1]]
\* The stack pointer is left below the words read.
arm64_stepWithCompactEncodingFrameless(e, regs, mem) ==
    LET top == regs[ARMSP] + e.size
        restored == RestorePairs(regs, mem, e.pairs, top)
    IN [restored EXCEPT ![ARMSP] = top - 2 * Cardinality(e.pairs), ![ARMPC] = regs[LR]]
arm64_stepWithCompactEncoding(e, regs, mem) ==
    IF e.mode = "FRAME" THEN arm64_stepWithCompactEncodingFrame(e, regs, mem)
    ELSE arm64_stepWithCompactEncodingFrameless(e, regs, mem)

----------------------------------------------------------------------------
(***************************************************************************)
(* getInfoFromCompactEncodingSection.  A section has a first-level index,  *)
(* whose last entry marks the end of the code, and per entry a page of     *)
(* functions.  A compressed page counts from the page's first offset and   *)
(* takes encodings from the section's common table before its own.         *)
(***************************************************************************)

\* The last entry of the sorted table t whose offset is at most x, by halving.
RECURSIVE BinarySearch(_, _, _, _)
BinarySearch(t, low, high, x) ==
    IF low >= high THEN low
    ELSE LET mid == (low + high) \div 2 IN
         IF t[mid + 1] <= x
           THEN IF mid = Len(t) - 1 \/ t[mid + 2] > x THEN mid ELSE BinarySearch(t, mid + 1, high, x)
           ELSE BinarySearch(t, low, mid, x)

NotInTable == [found |-> FALSE, start |-> 0, end |-> 0, encoding |-> 0, lsda |-> 0, personality |-> 0]

\* The page's entry for the offset: where its function starts and ends.
PageEntry(page, first, next, offset) ==
    LET base == IF page.kind = "compressed" THEN first ELSE 0
        low == BinarySearch(page.offsets, 0, Len(page.offsets), offset - base) + 1
    IN [start |-> page.offsets[low] + base,
        end |-> IF low = Len(page.offsets) THEN next ELSE page.offsets[low + 1] + base,
        index |-> low]
PageEncoding(section, page, k) ==
    IF page.kind = "regular" THEN page.encodings[k]
    ELSE LET i == page.indices[k] IN
         IF i < Len(section.common) THEN section.common[i + 1]
         ELSE page.encodings[i - Len(section.common) + 1]

RECURSIVE FindLSDA(_, _, _, _)
FindLSDA(t, low, high, start) ==
    IF low >= high THEN 0
    ELSE LET mid == (low + high) \div 2 IN
         IF t[mid + 1].function = start THEN t[mid + 1].lsda
         ELSE IF t[mid + 1].function < start THEN FindLSDA(t, mid + 1, high, start)
         ELSE FindLSDA(t, low, mid, start)

getInfoFromCompactEncodingSection(section, offset) ==
    LET firsts == [k \in DOMAIN section.index |-> section.index[k].first]
        k == BinarySearch(firsts, 0, Len(firsts), offset) + 1
        page == section.index[k].page
        e == PageEntry(page, firsts[k], firsts[k + 1], offset)
        encoding == PageEncoding(section, page, e.index)
        lsda == FindLSDA(section.index[k].lsdas, 0, Len(section.index[k].lsdas), e.start)
    IN IF offset < e.start \/ offset > e.end \/ (encoding.hasLSDA /\ lsda = 0) THEN NotInTable
       ELSE [found |-> TRUE, start |-> e.start, end |-> e.end, encoding |-> encoding.mode,
             lsda |-> IF encoding.hasLSDA THEN lsda ELSE 0,
             personality |-> IF encoding.personality = 0 THEN 0 ELSE section.personalities[encoding.personality]]

----------------------------------------------------------------------------
NoAnswer == [regs |-> << >>, info |-> NotInTable]
CompactInit ==
    /\ \/ \E f \in Frames : work = [kind |-> "frame", frame |-> f, section |-> 0, offset |-> 0]
       \/ \E s \in Sections, o \in Offsets :
             work = [kind |-> "lookup", frame |-> 0, section |-> s, offset |-> o]
    /\ answer = NoAnswer
CompactNext ==
    /\ answer = NoAnswer
    /\ answer' =
         IF work.kind = "lookup"
           THEN [NoAnswer EXCEPT !.info = getInfoFromCompactEncodingSection(work.section, work.offset)]
         ELSE LET f == work.frame IN
              [NoAnswer EXCEPT !.regs = IF f.arm THEN arm64_stepWithCompactEncoding(f.encoding, f.regs, f.mem)
                                        ELSE stepWithCompactEncoding(f.encoding, f.regs, f.mem)]
    /\ UNCHANGED work

\* A step with a compact encoding gives every register the caller had, for every
\* set and order of saved registers the encoding can express; and a look-up by
\* the two binary searches gives the function that contains the address, with
\* its own encoding, exception table and personality.
CompactStepRecoversCaller ==
    answer # NoAnswer =>
        IF work.kind = "frame" THEN answer.regs = work.frame.caller
        ELSE \E f \in work.section.functions :
                /\ f.start <= work.offset /\ work.offset < f.end
                /\ answer.info = [found |-> TRUE, start |-> f.start, end |-> f.end, encoding |-> f.encoding,
                                  lsda |-> f.lsda, personality |-> f.personality]
=============================================================================
