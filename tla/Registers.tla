----------------------------- MODULE Registers -----------------------------
(***************************************************************************)
(* libunwind's register files: for each processor, the numbers its         *)
(* Registers_ class accepts, the field of the saved context each number    *)
(* reads and writes, and the words of the context unw_getcontext stores    *)
(* and jumpto loads.                                                       *)
(*                                                                         *)
(* A machine register or a field of the context is a pair of a name and an *)
(* index.  A layout maps word offsets of the context to fields.  The words *)
(* are those of the processor; a double or vector that takes several is    *)
(* kept at the first, and the eight parts of PowerPC's condition register, *)
(* which the code masks out of one word, are kept at offsets of their own. *)
(*                                                                         *)
(*   arch      the processor libunwind was built for;                      *)
(*   machine   the thread's registers;                                     *)
(*   context   the words of the cursor's register file;                    *)
(*   lazy      the blocks of ARM's VFP registers copied into it so far;    *)
(*   logical   ghost: what each register should hold at the landing pad.   *)
(***************************************************************************)
EXTENDS Naturals, Integers, Sequences, FiniteSets, SequencesExt

CONSTANTS Archs, MaxSets

VARIABLES arch, machine, context, lazy, logical, phase, sets

registerVars == <<arch, machine, context, lazy, logical, phase, sets>>

UNW_REG_IP == -1
UNW_REG_SP == -2

Regs(name, first, last) == [i \in 1..(last - first + 1) |-> <<name, first + i - 1>>]
Named(names) == [i \in DOMAIN names |-> <<names[i], 0>>]
\* The fields of a sequence at consecutive (or every k-th) offsets.
At(first, fields) == [o \in first..(first + Len(fields) - 1) |-> fields[o - first + 1]]
Every(k, first, fields) ==
    [o \in {first + k * (i - 1) : i \in DOMAIN fields} |-> fields[(o - first) \div k + 1]]
IPSP(ip, sp) == (UNW_REG_IP :> ip) @@ (UNW_REG_SP :> sp)

----------------------------------------------------------------------------
\* x86.  Numbers 4 and 5 follow the System V order, not the enumerators' names.

x86_fields ==
    At(0, Named(<<"eax", "ebx", "ecx", "edx", "edi", "esi", "ebp", "esp", "ss", "eflags", "eip",
                  "cs", "ds", "es", "fs", "gs">>))
x86_validRegister == {UNW_REG_IP, UNW_REG_SP} \cup 0..7
x86_getRegister ==
    IPSP(<<"eip", 0>>, <<"esp", 0>>)
    @@ At(0, Named(<<"eax", "ecx", "edx", "ebx", "esp", "ebp", "esi", "edi">>))
x86_setRegister ==
    IPSP(<<"eip", 0>>, <<"esp", 0>>)
    @@ At(0, Named(<<"eax", "ecx", "edx", "ebx", "esp", "ebp", "esi", "edi">>))
x86_getcontext ==
    At(0, Named(<<"eax", "ebx", "ecx", "edx", "edi", "esi", "ebp", "esp">>)) @@ At(10, Named(<<"eip">>))
x86_jumpto ==
    At(0, Named(<<"eax", "ebx", "ecx", "edx", "edi", "esi", "ebp", "esp">>)) @@ At(10, Named(<<"eip">>))

----------------------------------------------------------------------------
\* x86_64, as built for other systems than Windows: no vector registers.

x86_64_fields ==
    At(0, Named(<<"rax", "rbx", "rcx", "rdx", "rdi", "rsi", "rbp", "rsp">>) \o Regs("r", 8, 15)
          \o Named(<<"rip", "rflags", "cs", "fs", "gs">>))
x86_64_validRegister == {UNW_REG_IP, UNW_REG_SP} \cup 0..15
x86_64_getRegister ==
    IPSP(<<"rip", 0>>, <<"rsp", 0>>)
    @@ At(0, Named(<<"rax", "rdx", "rcx", "rbx", "rsi", "rdi", "rbp", "rsp">>) \o Regs("r", 8, 15))
x86_64_setRegister ==
    IPSP(<<"rip", 0>>, <<"rsp", 0>>)
    @@ At(0, Named(<<"rax", "rdx", "rcx", "rbx", "rsi", "rdi", "rbp", "rsp">>) \o Regs("r", 8, 15))
x86_64_getcontext ==
    At(0, Named(<<"rax", "rbx", "rcx", "rdx", "rdi", "rsi", "rbp", "rsp">>) \o Regs("r", 8, 15)
          \o Named(<<"rip">>))
x86_64_jumpto_LosesR15 ==
    At(0, Named(<<"rax", "rbx", "rcx", "rdx", "rdi", "rsi", "rbp", "rsp">>) \o Regs("r", 8, 14))
    @@ At(16, Named(<<"rip">>))
x86_64_jumpto ==
    At(0, Named(<<"rax", "rbx", "rcx", "rdx", "rdi", "rsi", "rbp", "rsp">>) \o Regs("r", 8, 15)
          \o Named(<<"rip">>))

----------------------------------------------------------------------------
\* 32-bit PowerPC.  Eight parts of the condition register at 1000 to 1007.

CRParts == At(1000, Regs("cr", 0, 7))
ppc_fields ==
    At(0, Named(<<"srr0", "srr1">>) \o Regs("r", 0, 31)) @@ CRParts
    @@ At(35, Named(<<"xer", "lr", "ctr", "mq", "vrsave">>))
    @@ Every(2, 40, Regs("f", 0, 31)) @@ Every(4, 106, Regs("v", 0, 31))
ppc_validRegister ==
    {UNW_REG_IP, UNW_REG_SP, 109} \cup 0..31 \cup {64, 65, 66} \cup 68..75
\* validRegister accepts MQ and CTR, but reading them aborts.
ppc_getRegister ==
    IPSP(<<"srr0", 0>>, <<"r", 1>>) @@ At(0, Regs("r", 0, 31))
    @@ At(65, Named(<<"lr">>)) @@ At(68, Regs("cr", 0, 7)) @@ At(109, Named(<<"vrsave">>))
ppc_setRegister ==
    IPSP(<<"srr0", 0>>, <<"r", 1>>) @@ At(0, Regs("r", 0, 31))
    @@ At(64, Named(<<"mq", "lr", "ctr">>)) @@ At(68, Regs("cr", 0, 7) \o Named(<<"xer">>))
    @@ At(109, Named(<<"vrsave">>))
ppc_floatRegister == At(32, Regs("f", 0, 31))
ppc_vectorRegister == At(77, Regs("v", 0, 31))
ppc_getcontext ==
    At(0, Named(<<"lr">>)) @@ At(2, Regs("r", 0, 31)) @@ CRParts @@ At(37, Named(<<"ctr">>))
    @@ At(39, Named(<<"vrsave">>)) @@ Every(2, 40, Regs("f", 0, 31)) @@ Every(4, 106, Regs("v", 0, 31))
ppc_jumpto ==
    At(0, Named(<<"srr0">>)) @@ At(2, Regs("r", 0, 31)) @@ CRParts
    @@ Every(2, 40, Regs("f", 0, 31)) @@ Every(4, 106, Regs("v", 0, 31))

----------------------------------------------------------------------------
\* 64-bit PowerPC.  A float register is half of the vector-scalar register of
\* the same number.

ppc64_vsr == Every(2, 39, Regs("f", 0, 63)) @@ Every(2, 40, Regs("half", 0, 63))
ppc64_fields ==
    At(0, Named(<<"srr0", "srr1">>) \o Regs("r", 0, 31)) @@ CRParts
    @@ At(35, Named(<<"xer", "lr", "ctr", "vrsave">>)) @@ ppc64_vsr
ppc64_validRegister ==
    {UNW_REG_IP, UNW_REG_SP, 65, 66, 76, 109} \cup 0..31 \cup 68..75
ppc64_getRegister ==
    IPSP(<<"srr0", 0>>, <<"r", 1>>) @@ At(0, Regs("r", 0, 31))
    @@ At(65, Named(<<"lr", "ctr">>)) @@ At(68, Regs("cr", 0, 7) \o Named(<<"xer">>))
    @@ At(109, Named(<<"vrsave">>))
ppc64_setRegister ==
    IPSP(<<"srr0", 0>>, <<"r", 1>>) @@ At(0, Regs("r", 0, 31))
    @@ At(65, Named(<<"lr", "ctr">>)) @@ At(68, Regs("cr", 0, 7) \o Named(<<"xer">>))
    @@ At(109, Named(<<"vrsave">>))
ppc64_floatRegister == At(32, Regs("f", 0, 31))
\* getVectorRegNum: the vector registers follow the 32 float ones.
ppc64_vectorRegister == At(32, Regs("f", 0, 31)) @@ At(77, Regs("f", 32, 63))
ppc64_getcontext ==
    At(0, Named(<<"lr">>)) @@ At(2, Regs("r", 0, 31)) @@ CRParts
    @@ At(35, Named(<<"xer", "lr", "ctr", "vrsave">>)) @@ ppc64_vsr
ppc64_jumpto == At(0, Named(<<"srr0">>)) @@ At(2, Regs("r", 0, 31)) @@ CRParts @@ ppc64_vsr

----------------------------------------------------------------------------
\* 64-bit ARM.  The return address is in the link register, x30, both when the
\* context is taken and when it is restored.

arm64_fields == At(0, Regs("x", 0, 30) \o Named(<<"sp", "pc">>)) @@ At(34, Regs("d", 0, 31))
arm64_validRegister == {UNW_REG_IP, UNW_REG_SP} \cup 0..31 \cup 64..95
arm64_getRegister == IPSP(<<"pc", 0>>, <<"sp", 0>>) @@ At(0, Regs("x", 0, 30) \o Named(<<"sp">>))
arm64_setRegister == IPSP(<<"pc", 0>>, <<"sp", 0>>) @@ At(0, Regs("x", 0, 30) \o Named(<<"sp">>))
arm64_floatRegister == At(64, Regs("d", 0, 31))
arm64_getcontext == At(0, Regs("x", 0, 30) \o Named(<<"sp">>) \o Regs("x", 30, 30)) @@ At(34, Regs("d", 0, 31))
arm64_jumpto == At(0, Regs("x", 0, 29)) @@ At(31, Named(<<"sp", "pc">>)) @@ At(34, Regs("d", 0, 31))

----------------------------------------------------------------------------
\* 32-bit ARM.  The VFP registers are copied on first use, block by block.

arm_fields == At(0, Regs("r", 0, 12) \o Named(<<"sp", "lr", "pc">>)) @@ At(20, Regs("d", 0, 31))
arm_validRegister == {UNW_REG_IP, UNW_REG_SP} \cup 0..15
arm_getRegister == IPSP(<<"pc", 0>>, <<"sp", 0>>) @@ At(0, Regs("r", 0, 12) \o Named(<<"sp", "lr", "pc">>))
arm_setRegister == IPSP(<<"pc", 0>>, <<"sp", 0>>) @@ At(0, Regs("r", 0, 12) \o Named(<<"sp", "lr", "pc">>))
arm_floatRegister == At(256, Regs("d", 0, 31))
arm_getcontext == At(0, Regs("r", 0, 12) \o Named(<<"sp", "lr", "lr">>))
arm_jumpto == At(0, Regs("r", 0, 12) \o Named(<<"sp">>)) @@ At(15, Named(<<"pc">>))
\* The words a float register's block occupies, and restoreSavedFloatRegisters.
arm_block(f) == IF f[2] < 16 THEN At(20, Regs("d", 0, 15)) ELSE At(36, Regs("d", 16, 31))
arm_restoreSavedFloatRegisters == [o \in lazy |-> arm_fields[o]]

----------------------------------------------------------------------------
\* OpenRISC, whose r9 doubles as the instruction pointer, and MIPS.

or1k_fields == At(0, Regs("r", 0, 31))
or1k_validRegister == {UNW_REG_IP, UNW_REG_SP} \cup 0..31
or1k_getRegister == IPSP(<<"r", 9>>, <<"r", 1>>) @@ At(0, Regs("r", 0, 31))
or1k_setRegister == IPSP(<<"r", 9>>, <<"r", 1>>) @@ At(0, Regs("r", 0, 31))
or1k_getcontext == At(0, Regs("r", 0, 31))
or1k_jumpto == At(0, Regs("r", 0, 31))

mips_fields == At(0, Regs("r", 0, 31) \o Named(<<"pc", "hi", "lo">>))
mips_validRegister == {UNW_REG_IP, UNW_REG_SP} \cup 0..31 \cup {64, 65}
mips_o32_getRegister ==
    IPSP(<<"pc", 0>>, <<"r", 29>>) @@ At(0, Regs("r", 0, 31)) @@ At(64, Named(<<"hi", "lo">>))
mips_o32_setRegister ==
    IPSP(<<"pc", 0>>, <<"r", 29>>) @@ At(0, Regs("r", 0, 31)) @@ At(64, Named(<<"hi", "lo">>))
mips_o32_getcontext == At(1, Regs("r", 1, 31) \o Regs("r", 31, 31) \o Named(<<"hi", "lo">>))
mips_o32_jumpto == At(1, Regs("r", 1, 30)) @@ At(32, Named(<<"pc", "hi", "lo">>))
mips_newabi_validRegister == {UNW_REG_IP, UNW_REG_SP} \cup 0..31 \cup {64, 65}
mips_newabi_getRegister ==
    IPSP(<<"pc", 0>>, <<"r", 29>>) @@ At(0, Regs("r", 0, 31)) @@ At(64, Named(<<"hi", "lo">>))
mips_newabi_setRegister ==
    IPSP(<<"pc", 0>>, <<"r", 29>>) @@ At(0, Regs("r", 0, 31)) @@ At(64, Named(<<"hi", "lo">>))
mips_newabi_getcontext == At(1, Regs("r", 1, 31) \o Regs("r", 31, 31) \o Named(<<"hi", "lo">>))
mips_newabi_jumpto == At(1, Regs("r", 1, 30)) @@ At(32, Named(<<"pc", "hi", "lo">>))

----------------------------------------------------------------------------
\* The register file of the processor libunwind was built for.

fields ==
    CASE arch = "x86" -> x86_fields [] arch = "x86_64" -> x86_64_fields [] arch = "ppc" -> ppc_fields
      [] arch = "ppc64" -> ppc64_fields [] arch = "arm64" -> arm64_fields [] arch = "arm" -> arm_fields
      [] arch = "or1k" -> or1k_fields [] OTHER -> mips_fields
validRegister ==
    CASE arch = "x86" -> x86_validRegister [] arch = "x86_64" -> x86_64_validRegister
      [] arch = "ppc" -> ppc_validRegister [] arch = "ppc64" -> ppc64_validRegister
      [] arch = "arm64" -> arm64_validRegister [] arch = "arm" -> arm_validRegister
      [] arch = "or1k" -> or1k_validRegister [] arch = "mips_o32" -> mips_validRegister
      [] OTHER -> mips_newabi_validRegister
getRegister ==
    CASE arch = "x86" -> x86_getRegister [] arch = "x86_64" -> x86_64_getRegister
      [] arch = "ppc" -> ppc_getRegister [] arch = "ppc64" -> ppc64_getRegister
      [] arch = "arm64" -> arm64_getRegister [] arch = "arm" -> arm_getRegister
      [] arch = "or1k" -> or1k_getRegister [] arch = "mips_o32" -> mips_o32_getRegister
      [] OTHER -> mips_newabi_getRegister
setRegister ==
    CASE arch = "x86" -> x86_setRegister [] arch = "x86_64" -> x86_64_setRegister
      [] arch = "ppc" -> ppc_setRegister [] arch = "ppc64" -> ppc64_setRegister
      [] arch = "arm64" -> arm64_setRegister [] arch = "arm" -> arm_setRegister
      [] arch = "or1k" -> or1k_setRegister [] arch = "mips_o32" -> mips_o32_setRegister
      [] OTHER -> mips_newabi_setRegister
NoRegisters == [n \in {} |-> <<"", 0>>]
floatRegister ==
    CASE arch = "ppc" -> ppc_floatRegister [] arch = "ppc64" -> ppc64_floatRegister
      [] arch = "arm64" -> arm64_floatRegister [] arch = "arm" -> arm_floatRegister
      [] OTHER -> NoRegisters
vectorRegister ==
    CASE arch = "ppc" -> ppc_vectorRegister [] arch = "ppc64" -> ppc64_vectorRegister [] OTHER -> NoRegisters
getcontextWords ==
    CASE arch = "x86" -> x86_getcontext [] arch = "x86_64" -> x86_64_getcontext
      [] arch = "ppc" -> ppc_getcontext [] arch = "ppc64" -> ppc64_getcontext
      [] arch = "arm64" -> arm64_getcontext [] arch = "arm" -> arm_getcontext
      [] arch = "or1k" -> or1k_getcontext [] arch = "mips_o32" -> mips_o32_getcontext
      [] OTHER -> mips_newabi_getcontext
jumptoWords ==
    CASE arch = "x86" -> x86_jumpto [] arch = "x86_64" -> x86_64_jumpto
      [] arch = "ppc" -> ppc_jumpto [] arch = "ppc64" -> ppc64_jumpto
      [] arch = "arm64" -> arm64_jumpto [] arch = "arm" -> arm_jumpto @@ arm_restoreSavedFloatRegisters
      [] arch = "or1k" -> or1k_jumpto [] arch = "mips_o32" -> mips_o32_jumpto
      [] OTHER -> mips_newabi_jumpto

\* A value is the register of the thread it was first read from, the word of
\* the context that was never written, or the number of the call that set it.
Held(f) == <<"machine", f[1], f[2]>>
Unwritten(o) == <<"unwritten", "", o>>
Written(k) == <<"set", "", k>>

OffsetOf(f) == CHOOSE o \in DOMAIN fields : fields[o] = f
ReadField(words, f) == words[OffsetOf(f)]
\* What a read of register n gives: a float register of ARM not yet copied is
\* copied from the machine by the read itself.
ReadRegister(words, n) ==
    IF n \in DOMAIN floatRegister
    THEN IF arch = "arm" /\ OffsetOf(floatRegister[n]) \notin lazy
         THEN machine[floatRegister[n]] ELSE ReadField(words, floatRegister[n])
    ELSE IF n \in DOMAIN vectorRegister THEN ReadField(words, vectorRegister[n])
    ELSE ReadField(words, getRegister[n])
Readable ==
    (validRegister \cap DOMAIN getRegister) \cup DOMAIN floatRegister \cup DOMAIN vectorRegister

RegistersInit ==
    /\ arch \in Archs
    /\ machine = [f \in {fields[o] : o \in DOMAIN fields} |-> Held(f)]
    /\ context = [o \in DOMAIN fields |-> Unwritten(o)]
    /\ lazy = {} /\ phase = "running" /\ sets = 0
    /\ logical = [n \in Readable |-> Unwritten(0)]

\* The registers the landing pad of each processor's ABI relies on: those a
\* call preserves and the two that carry the exception.
LandingPadRegisters(vectors) ==
    CASE arch = "x86" -> At(0, Named(<<"eax">>)) @@ At(2, Named(<<"edx", "ebx", "esp", "ebp", "esi", "edi">>))
      [] arch = "x86_64" -> At(0, Named(<<"rax", "rdx">>)) @@ At(3, Named(<<"rbx">>))
                            @@ At(6, Named(<<"rbp", "rsp">>)) @@ At(12, Regs("r", 12, 15))
      [] arch = "ppc" -> At(1, Regs("r", 1, 4)) @@ At(14, Regs("r", 14, 31)) @@ At(46, Regs("f", 14, 31))
                         @@ (IF vectors THEN At(97, Regs("v", 20, 31)) ELSE NoRegisters)
      [] arch = "ppc64" -> At(1, Regs("r", 1, 4)) @@ At(14, Regs("r", 14, 31)) @@ At(46, Regs("f", 14, 31))
                           @@ (IF vectors THEN At(97, Regs("f", 52, 63)) ELSE NoRegisters)
      [] arch = "arm64" -> At(0, Regs("x", 0, 1)) @@ At(19, Regs("x", 19, 29)) @@ At(31, Named(<<"sp">>))
                           @@ At(72, Regs("d", 8, 15))
      [] arch = "arm" -> At(0, Regs("r", 0, 1)) @@ At(4, Regs("r", 4, 11)) @@ At(13, Named(<<"sp">>))
                         @@ At(264, Regs("d", 8, 15))
      [] arch = "or1k" -> At(1, Regs("r", 1, 4)) @@ Every(2, 14, [i \in 1..9 |-> <<"r", 12 + 2 * i>>])
      [] OTHER -> At(4, Regs("r", 4, 5)) @@ At(16, Regs("r", 16, 23)) @@ At(28, Regs("r", 28, 30))
LandingPadIP ==
    CASE arch = "x86" -> <<"eip", 0>> [] arch = "x86_64" -> <<"rip", 0>> [] arch \in {"ppc", "ppc64"} -> <<"srr0", 0>>
      [] arch = "or1k" -> <<"r", 9>> [] OTHER -> <<"pc", 0>>

ReturnAddress ==
    CASE arch = "x86" -> <<"eip", 0>> [] arch = "x86_64" -> <<"rip", 0>> [] arch \in {"ppc", "ppc64", "arm"} -> <<"lr", 0>>
      [] arch = "arm64" -> <<"x", 30>> [] arch = "or1k" -> <<"r", 9>> [] OTHER -> <<"r", 31>>
\* What the caller has in a register; one no landing pad relies on is what the
\* context happens to hold.
CallerHolds(words, n) ==
    IF n = UNW_REG_IP THEN Held(ReturnAddress)
    ELSE IF n \in DOMAIN LandingPadRegisters(TRUE) THEN Held(LandingPadRegisters(TRUE)[n])
    ELSE ReadRegister(words, n)

\* unw_getcontext and the constructor of the register file, which copies the
\* words.  The registers of the caller are the logical ones from here on.
unw_getcontext ==
    /\ phase = "running"
    /\ phase' = "context"
    /\ context' = [o \in DOMAIN fields |->
                       IF o \in DOMAIN getcontextWords THEN machine[getcontextWords[o]] ELSE context[o]]
    /\ logical' = [n \in Readable |-> CallerHolds(context', n)]
    /\ UNCHANGED <<arch, machine, lazy, sets>>

\* Two numbers name one register: the pairs of the processor's ABI.
Aliases ==
    CASE arch = "x86" -> {{UNW_REG_SP, 4}} [] arch = "x86_64" -> {{UNW_REG_SP, 7}}
      [] arch \in {"ppc", "ppc64"} -> {{UNW_REG_SP, 1}} [] arch = "arm64" -> {{UNW_REG_SP, 31}}
      [] arch = "arm" -> {{UNW_REG_SP, 13}, {UNW_REG_IP, 15}}
      [] arch = "or1k" -> {{UNW_REG_SP, 1}, {UNW_REG_IP, 9}} [] OTHER -> {{UNW_REG_SP, 29}}
SetLogical(n) ==
    logical' = [m \in Readable |-> IF m = n \/ {m, n} \in Aliases THEN Written(sets') ELSE logical[m]]

SetsRegister(n) ==
    /\ phase = "context" /\ sets < MaxSets[arch]
    /\ sets' = sets + 1 /\ SetLogical(n)
    /\ UNCHANGED <<arch, machine, phase>>

unw_set_reg(n) ==
    /\ n \in validRegister \cap DOMAIN setRegister
    /\ SetsRegister(n)
    /\ context' = [context EXCEPT ![OffsetOf(setRegister[n])] = Written(sets')]
    /\ UNCHANGED lazy

\* Registers_arm::setFloatRegister copies the whole block before the first write.
unw_set_fpreg(n) ==
    /\ n \in DOMAIN floatRegister
    /\ SetsRegister(n)
    /\ LET f == floatRegister[n]
           copied == IF arch = "arm" THEN (DOMAIN arm_block(f)) \ lazy ELSE {}
       IN  /\ context' = [o \in DOMAIN fields |->
                              IF o = OffsetOf(f) THEN Written(sets')
                              ELSE IF o \in copied THEN machine[fields[o]] ELSE context[o]]
           /\ lazy' = lazy \cup copied

\* setVectorRegister, called by the DWARF step: on 64-bit PowerPC it writes
\* both halves of the vector-scalar register.
setVectorRegister(n) ==
    /\ n \in DOMAIN vectorRegister \ DOMAIN floatRegister
    /\ SetsRegister(n)
    /\ LET f == vectorRegister[n]
           halves == {f} \cup (IF arch = "ppc64" THEN {<<"half", f[2]>>} ELSE {})
       IN  context' = [o \in DOMAIN fields |-> IF fields[o] \in halves THEN Written(sets') ELSE context[o]]
    /\ UNCHANGED lazy

\* jumpto.  PowerPC loads the vector registers the context's VRSAVE says are in
\* use: all of them as the thread had it, none once it was overwritten.
jumpto ==
    /\ phase = "context"
    /\ phase' = "landed"
    /\ LET saved == IF arch \in {"ppc", "ppc64"} /\ ReadField(context, <<"vrsave", 0>>) # Held(<<"vrsave", 0>>)
                    THEN {o \in DOMAIN jumptoWords : jumptoWords[o][1] = "v"
                                                     \/ (jumptoWords[o][1] \in {"f", "half"} /\ jumptoWords[o][2] >= 32)}
                    ELSE {}
           loaded == DOMAIN jumptoWords \ saved
       IN  machine' = [f \in DOMAIN machine |->
                           IF \E o \in loaded : jumptoWords[o] = f
                           THEN context[CHOOSE o \in loaded : jumptoWords[o] = f] ELSE machine[f]]
    /\ UNCHANGED <<arch, context, lazy, logical, sets>>

RegistersNext ==
    \/ unw_getcontext
    \/ jumpto
    \/ \E n \in validRegister : unw_set_reg(n)
    \/ \E n \in DOMAIN floatRegister : unw_set_fpreg(n)
    \/ \E n \in DOMAIN vectorRegister : setVectorRegister(n)

----------------------------------------------------------------------------
(***************************************************************************)
(* The numbers a personality routine and the DWARF step use address        *)
(* distinct registers: a read through number n gives what was last written *)
(* through n or its alias, and what the thread had in it when nothing was, *)
(* on every processor and whatever other registers were written between.   *)
(***************************************************************************)
RegistersAreIndependent == phase = "context" => \A n \in Readable : ReadRegister(context, n) = logical[n]

(***************************************************************************)
(* jumpto transfers to the landing pad with the context's instruction and  *)
(* stack pointers, and with every register a call preserves and both       *)
(* exception registers as the cursor holds them, float and vector ones     *)
(* included, whether the unwinder wrote them or not.                       *)
(***************************************************************************)
LandingPadSeesContext ==
    phase = "landed" =>
        /\ machine[LandingPadIP] = logical[UNW_REG_IP]
        /\ LET vectors == 109 \in Readable => logical[109] = Held(<<"vrsave", 0>>)
           IN  \A n \in DOMAIN LandingPadRegisters(vectors) : machine[LandingPadRegisters(vectors)[n]] = logical[n]

=============================================================================
