---------------------------- MODULE KernelProofs ----------------------------
(***************************************************************************)
(* The kernel, for every size of the process table and of memory, every    *)
(* layout, every set of program images and all inputs: type correctness,   *)
(* the safety properties, and that schedule() implements round-robin.      *)
(***************************************************************************)
EXTENDS Kernel, TLAPS

-----------------------------------------------------------------------------
(* Facts about the constants *)

\* Slots 0, 1 and 2 exist, and the scan of schedule() stays in the table.
LEMMA PidFacts ==
  /\ 0 \in Pids /\ 1 \in Pids /\ 2 \in Pids
  /\ \A p \in Pids : p \in Nat /\ (p + 1) % NPROC \in Pids
BY TableAssumption, SMTT(30), Z3T(30) DEF Pids

\* Page 0 and the console exist, and physical addresses are virtual ones.
LEMMA PageFacts ==
  /\ NPAGES \in Nat /\ PROC_START_ADDR \in Nat /\ PROC_SIZE \in Nat
  /\ 0 \in Pages /\ CONSOLE_ADDR \in Pages /\ Pages \subseteq Nat
  /\ Pages \subseteq VPages /\ 0 \in VPages /\ PROC_START_ADDR \in VPages
  /\ PROC_START_ADDR .. NVPAGES - 1 \subseteq VPages
BY LayoutAssumption, SMTT(30), Z3T(30) DEF Pages, VPages

\* kernel_pagetable and exception_entry lie in pages other than nullptr's.
LEMMA TableFacts ==
  /\ KERNEL_PAGETABLE \in Pages /\ KERNEL_PAGETABLE # 0
  /\ EXCEPTION_ENTRY \in Pages /\ EXCEPTION_ENTRY # 0
BY LayoutAssumption, SMTT(30), Z3T(30) DEF Pages

\* The regions of processes 1 and 2 are made of existing pages from
\* PROC_START_ADDR on.
LEMMA RegionFacts ==
  ASSUME NEW p \in {1, 2}
  PROVE  /\ Region(p) \subseteq Pages
         /\ \A g \in Region(p) : g >= PROC_START_ADDR
<1>1. CASE p = 1
  BY <1>1, LayoutAssumption, SMTT(30), Z3T(30) DEF Region, Pages
<1>2. CASE p = 2
  BY <1>2, LayoutAssumption, SMTT(30), Z3T(30) DEF Region, Pages
<1> QED
  BY <1>1, <1>2, SMTT(30), Z3T(30)

\* What kernel_start loads: one or two programs that exist, the first of them
\* as process 1.
LEMMA StartListFacts ==
  ASSUME NEW c
  PROVE  /\ StartList(c) \in Seq(Setups)
         /\ StartList(c) # <<>> /\ Head(StartList(c)).pid = 1
<1>1. \A n \in Names : [pid |-> 1, name |-> n] \in Setups
  BY SMTT(30), Z3T(30) DEF Setups
<1>2. \A n \in Names : [pid |-> 2, name |-> n] \in Setups
  BY SMTT(30), Z3T(30) DEF Setups
<1>3. {"alice", "eve", "pipewriter", "pipereader"} \subseteq Names
  BY ImageAssumption, SMTT(30), Z3T(30)
<1>4. \A x, y \in Setups :
        /\ <<x>> \in Seq(Setups) /\ Head(<<x>>) = x
        /\ <<x, y>> \in Seq(Setups) /\ Head(<<x, y>>) = x
        /\ <<x>> # <<>> /\ <<x, y>> # <<>>
  BY SMTT(30), Z3T(30)
<1>5. CASE c \in Names
  BY <1>1, <1>4, <1>5, SMTT(30), Z3T(30) DEF StartList
<1>6. CASE c \notin Names /\ c = "pipe"
  BY <1>1, <1>2, <1>3, <1>4, <1>6, SMTT(30), Z3T(30) DEF StartList
<1>7. CASE c \notin Names /\ c # "pipe"
  BY <1>1, <1>2, <1>3, <1>4, <1>7, SMTT(30), Z3T(30) DEF StartList
<1> QED
  BY <1>5, <1>6, <1>7, SMTT(30), Z3T(30)

-----------------------------------------------------------------------------
(* process_setup, as the proofs use it: it claims the unused pages `got` of  *)
(* the process's region, all it needs or, when an assertion fails, fewer.    *)

Claims(p, name, got) ==
  /\ \A g \in got : refcount[g] = 0
  /\ refcount' = [g \in Pages |-> IF g \in got THEN refcount[g] + 1 ELSE refcount[g]]
  /\ users' = [g \in Pages |-> IF g \in got THEN users[g] \cup {p} ELSE users[g]]
  /\ useracc' = useracc \cup got
  /\ pagetable' = [pagetable EXCEPT ![p] = KERNEL_PAGETABLE]
  /\ mapping' = [g \in Pages |-> IF g \in got THEN g ELSE mapping[g]]
  /\ regs' = [regs EXCEPT ![p] = 0]
  /\ \/ /\ state' = [state EXCEPT ![p] = P_RUNNABLE]
        /\ prog' = [prog EXCEPT ![p] = name]
        /\ mode' = mode /\ why' = why
        /\ \A i \in 1 .. Len(Footprint(p, name)) : Footprint(p, name)[i] \in got
     \/ mode' = "fail" /\ why' = "process_setup" /\ state' = state /\ prog' = prog

\* The loops of process_setup claim each page of the footprint once, and only
\* unused pages of the region.
LEMMA SetupClaims ==
  ASSUME NEW p, NEW name, ProcessSetup(p, name)
  PROVE  \E got \in SUBSET Region(p) : Claims(p, name, got)
<1> DEFINE fp == Footprint(p, name)
<1>1. PICK n \in 0 .. Len(fp) :
        LET got == {fp[i] : i \in 1 .. n} IN
        /\ Claimed(p, fp, n)
        /\ refcount' = [g \in Pages |-> IF g \in got THEN refcount[g] + 1 ELSE refcount[g]]
        /\ users' = [g \in Pages |-> IF g \in got THEN users[g] \cup {p} ELSE users[g]]
        /\ useracc' = useracc \cup got
        /\ pagetable' = [pagetable EXCEPT ![p] = KERNEL_PAGETABLE]
        /\ mapping' = [g \in Pages |-> IF g \in got THEN g ELSE mapping[g]]
        /\ regs' = [regs EXCEPT ![p] = 0]
        /\ IF n = Len(fp)
             THEN /\ state' = [state EXCEPT ![p] = P_RUNNABLE]
                  /\ prog' = [prog EXCEPT ![p] = name]
                  /\ UNCHANGED <<mode, why>>
             ELSE Fail("process_setup") /\ UNCHANGED <<state, prog>>
  BY SMTT(30), Z3T(30) DEF ProcessSetup
<1> DEFINE got == {fp[i] : i \in 1 .. n}
<1>2. /\ got \subseteq Region(p)
      /\ \A g \in got : refcount[g] = 0
  BY <1>1, SMTT(30), Z3T(30) DEF Claimed, CanClaim
<1>3. n = Len(fp) => \A i \in 1 .. Len(fp) : fp[i] \in got
  BY SMTT(30), Z3T(30)
<1>4. Claims(p, name, got)
  <2> HIDE DEF fp
  <2> SUFFICES Claims(p, name, got)
    OBVIOUS
  <2> USE DEF fp
  <2> QED
    BY <1>1, <1>2, <1>3, SMTT(30), Z3T(30) DEF Claims, Fail
<1> QED
  BY <1>2, <1>4, SMTT(30), Z3T(30)

-----------------------------------------------------------------------------
(* Type correctness *)

\* process_setup keeps the types.
LEMMA ProcessSetupType ==
  ASSUME TypeOK, NEW p \in {1, 2}, NEW name \in Names, ProcessSetup(p, name)
  PROVE  /\ mode' \in Modes /\ why' \in Reasons
         /\ state' \in [Pids -> {P_FREE, P_RUNNABLE, P_BLOCKED, P_FAULTED}]
         /\ prog' \in [Pids -> Names \cup {""}]
         /\ regs' \in [Pids -> Int]
         /\ refcount' \in [Pages -> Nat]
         /\ users' \in [Pages -> SUBSET Pids]
         /\ useracc' \subseteq Pages
         /\ pagetable' \in [Pids -> Pages]
         /\ mapping' \in [Pages -> Pages \cup {Unmapped}]
<1>1. PICK got \in SUBSET Region(p) : Claims(p, name, got)
  BY SetupClaims, SMTT(30), Z3T(30)
<1>2. got \subseteq Pages /\ p \in Pids
  BY RegionFacts, PidFacts, SMTT(30), Z3T(30)
<1>3. mode' \in {mode, "fail"} /\ why' \in {why, "process_setup"}
  BY <1>1, SMTT(30), Z3T(30) DEF Claims
<1>4. mode' \in Modes
  BY <1>3, SMTT(30), Z3T(30) DEF TypeOK, CpuTypes, Modes
<1>5. why' \in Reasons
  BY <1>3 DEF TypeOK, CpuTypes, Reasons
<1>6. state' \in [Pids -> {P_FREE, P_RUNNABLE, P_BLOCKED, P_FAULTED}]
  BY <1>1, <1>2, ZenonT(30) DEF TypeOK, ProcTypes, CpuTypes, MemTypes, Claims
<1>7. prog' \in [Pids -> Names \cup {""}]
  BY <1>1, <1>2, ZenonT(30) DEF TypeOK, ProcTypes, CpuTypes, MemTypes, Claims
<1>8. regs' \in [Pids -> Int]
  <2>1. regs' = [regs EXCEPT ![p] = 0] /\ regs \in [Pids -> Int]
    BY <1>1, ZenonT(30) DEF TypeOK, ProcTypes, CpuTypes, MemTypes, Claims
  <2> QED
    BY <2>1, 0 \in Int, Zenon
<1>9. refcount' \in [Pages -> Nat]
  <2>1. /\ refcount' = [g \in Pages |-> IF g \in got THEN refcount[g] + 1 ELSE refcount[g]]
        /\ refcount \in [Pages -> Nat]
    BY <1>1, ZenonT(30) DEF TypeOK, ProcTypes, CpuTypes, MemTypes, Claims
  <2> QED
    BY <2>1
<1>10. users' \in [Pages -> SUBSET Pids]
  BY <1>1, <1>2, ZenonT(30) DEF TypeOK, ProcTypes, CpuTypes, MemTypes, Claims
<1>11. useracc' \subseteq Pages
  BY <1>1, <1>2, ZenonT(30) DEF TypeOK, ProcTypes, CpuTypes, MemTypes, Claims
<1>12. pagetable' \in [Pids -> Pages]
  BY <1>1, TableFacts, ZenonT(30) DEF TypeOK, MemTypes, Claims
<1>13. mapping' \in [Pages -> Pages \cup {Unmapped}]
  BY <1>1, ZenonT(30) DEF TypeOK, MemTypes, Claims
<1> QED
  BY <1>4, <1>5, <1>6, <1>7, <1>8, <1>9, <1>10, <1>11, <1>12, <1>13, ZenonT(30)

\* A register slot may take any machine word.
LEMMA RegsType ==
  ASSUME CpuTypes, NEW p, NEW value \in Int
  PROVE  [regs EXCEPT ![p] = value] \in [Pids -> Int]
<1>1. regs \in [Pids -> Int]
  BY DEF CpuTypes
<1> QED
  BY <1>1, Zenon

\* memshow() and the kalloc() under it keep the types.
LEMMA MemshowType ==
  ASSUME TypeOK, Memshow, useracc' = useracc, pagetable' = pagetable, mapping' = mapping
  PROVE  MemTypes' /\ mode' \in {"trap", "fail"} /\ why' \in Reasons
<1>1. mode' \in {"trap", "fail"}
  BY SMTT(30), Z3T(30) DEF Memshow, Fail
<1>2. why' \in Reasons
  BY SMTT(30), Z3T(30) DEF Memshow, Fail, TypeOK, CpuTypes, Reasons
<1>3. MemTypes'
  <2>1. CASE \E g \in Pages : Kalloc(g) /\ v_' = g
    <3>1. PICK g \in Pages : Kalloc(g) /\ v_' = g
      BY <2>1, SMTT(30), Z3T(30)
    <3>2. g \in Nat /\ 0 \in Pids
      BY PageFacts, PidFacts, SMTT(30), Z3T(30)
    <3>3. refcount' \in [Pages -> Nat]
      BY <3>1, SMTT(30), Z3T(30) DEF Kalloc, TypeOK, MemTypes
    <3>4. users' \in [Pages -> SUBSET Pids]
      BY <3>1, <3>2, SMTT(30), Z3T(30) DEF Kalloc, TypeOK, MemTypes
    <3>5. next_alloc_pa' \in Nat
      BY <3>1, <3>2, SMTT(30), Z3T(30) DEF Kalloc
    <3> QED
      BY <3>1, <3>3, <3>4, <3>5, SMTT(30), Z3T(30) DEF TypeOK, MemTypes
  <2>2. CASE KallocFails /\ v_' = v_
    BY <2>2, PageFacts, SMTT(30), Z3T(30) DEF KallocFails, TypeOK, MemTypes
  <2>3. CASE UNCHANGED <<v_, refcount, users, next_alloc_pa>>
    BY <2>3, SMTT(30), Z3T(30) DEF TypeOK, MemTypes
  <2> QED
    BY <2>1, <2>2, <2>3, SMTT(30), Z3T(30) DEF Memshow
<1> QED
  BY <1>1, <1>2, <1>3, SMTT(30), Z3T(30)

\* Entering the kernel keeps the types.
LEMMA EnterType ==
  ASSUME TypeOK, NEW t, NEW reg \in Int, Enter(t, reg),
         t \in Traps
  PROVE  TypeOK'
<1>1. MemTypes' /\ mode' \in {"trap", "fail"} /\ why' \in Reasons
  BY MemshowType, ZenonT(30) DEF Enter, tabvars
<1>2. ProcTypes' /\ PipeTypes'
  BY ZenonT(30) DEF Enter, TypeOK, ProcTypes, PipeTypes, procvars, pipevars
<1>3. TrapTypes'
  BY SMTT(30), Z3T(30) DEF Enter, TrapTypes
<1>4. regs' \in [Pids -> Int]
  BY RegsType, SMTT(30), Z3T(30) DEF Enter, TypeOK
<1>5. CpuTypes'
  BY <1>1, <1>4, SMTT(30), Z3T(30) DEF Enter, TypeOK, CpuTypes, Modes
<1> QED
  BY <1>1, <1>2, <1>3, <1>5, SMTT(30), Z3T(30) DEF TypeOK

\* The record of a trap.
LEMMA TrapRecords ==
  /\ NoTrap \in Traps
  /\ [NoTrap EXCEPT !.kind = "timer"] \in Traps
  /\ [NoTrap EXCEPT !.kind = "other"] \in Traps
  /\ \A g \in VPages : [NoTrap EXCEPT !.kind = "fault", !.page = g] \in Traps
  /\ \A n \in 0 .. UnknownSyscall, g \in VPages, size \in Nat, c \in Bytes \cup {0} :
       [kind |-> "syscall", nr |-> n, page |-> g, sz |-> size, ch |-> c] \in Traps
<1>1. 0 \in 0 .. UnknownSyscall /\ 0 \in VPages
  BY PageFacts, SMTT(30), Z3T(30) DEF UnknownSyscall
<1>2. NoTrap \in Traps
  BY <1>1, SMTT(30), Z3T(30) DEF NoTrap, Traps
<1>3. [NoTrap EXCEPT !.kind = "timer"] \in Traps /\ [NoTrap EXCEPT !.kind = "other"] \in Traps
  BY <1>2 DEF Traps
<1>4. \A g \in VPages : [NoTrap EXCEPT !.kind = "fault", !.page = g] \in Traps
  BY <1>2, ZenonT(30) DEF Traps
<1>5. \A n \in 0 .. UnknownSyscall, g \in VPages, size \in Nat, c \in Bytes \cup {0} :
        [kind |-> "syscall", nr |-> n, page |-> g, sz |-> size, ch |-> c] \in Traps
  BY SMTT(30), Z3T(30) DEF Traps
<1> QED
  BY <1>2, <1>3, <1>4, <1>5, ZenonT(30)

\* A return to user mode keeps the types.
LEMMA ReturnType ==
  ASSUME TypeOK, NEW value \in Int, Return(value), UNCHANGED <<regs, current, pid>>
  PROVE  CpuTypes' /\ TrapTypes'
<1>1. CpuTypes'
  BY DEF Return, Fail, TypeOK, CpuTypes, Modes, Reasons
<1>2. TrapTypes'
  BY TrapRecords, ZenonT(30) DEF Return, Fail, TypeOK, TrapTypes
<1> QED
  BY <1>1, <1>2, SMTT(30), Z3T(30)

\* Traps of user code keep the types.
LEMMA UserType == TypeOK /\ (TimerInterrupt \/ UserStep) => TypeOK'
<1> SUFFICES ASSUME TypeOK, TimerInterrupt \/ UserStep PROVE TypeOK'
  BY SMTT(30), Z3T(30)
<1>0. rax \in Int /\ Buffers \subseteq VPages
  BY PageFacts, SMTT(30), Z3T(30) DEF TypeOK, CpuTypes, Buffers
<1>1. ASSUME NEW n \in 1 .. UnknownSyscall, NEW g \in VPages, NEW size \in Nat,
             NEW c \in Bytes \cup {0}, Syscall(n, g, size, c)
      PROVE  TypeOK'
  <2>1. n \in Int /\ n \in 0 .. UnknownSyscall
    BY SMTT(30), Z3T(30) DEF UnknownSyscall
  <2> QED
    BY <1>1, <2>1, EnterType, TrapRecords, ZenonT(30) DEF Syscall
<1>2. CASE TimerInterrupt
  BY <1>0, <1>2, EnterType, TrapRecords, ZenonT(30) DEF TimerInterrupt
<1>3. CASE OtherException
  BY <1>0, <1>3, EnterType, TrapRecords, ZenonT(30) DEF OtherException
<1>4. CASE \E g \in VPages : PageFault(g)
  BY <1>0, <1>4, EnterType, TrapRecords, ZenonT(30) DEF PageFault
<1>5. CASE \E n \in {SYSCALL_GETPID, SYSCALL_YIELD, SYSCALL_PANIC, SYSCALL_SPAWN,
                     UnknownSyscall} : Syscall(n, 0, 0, 0)
  <2>1. \A n \in {SYSCALL_GETPID, SYSCALL_YIELD, SYSCALL_PANIC, SYSCALL_SPAWN,
                  UnknownSyscall} : n \in 1 .. UnknownSyscall
    BY SMTT(30), Z3T(30) DEF SYSCALL_GETPID, SYSCALL_YIELD, SYSCALL_PANIC, SYSCALL_SPAWN, UnknownSyscall
  <2> QED
    BY <1>1, <1>5, <2>1, PageFacts, SMTT(30), Z3T(30)
<1>6. CASE \E g \in PROC_START_ADDR .. NVPAGES - 1 : Syscall(SYSCALL_PAGE_ALLOC, g, 0, 0)
  BY <1>1, <1>6, PageFacts, SMTT(30), Z3T(30) DEF SYSCALL_PAGE_ALLOC, UnknownSyscall
<1>7. CASE \E g \in Buffers : Syscall(SYSCALL_GETSYSNAME, g, 0, 0)
  BY <1>0, <1>1, <1>7, PageFacts, SMTT(30), Z3T(30) DEF SYSCALL_GETSYSNAME, UnknownSyscall
<1>8. CASE \E c \in Bytes, g \in Buffers, n \in 0 .. MaxSize : Syscall(SYSCALL_PIPEWRITE, g, n, c)
  <2>1. \A n \in 0 .. MaxSize : n \in Nat
    BY InputAssumption, SMTT(30), Z3T(30)
  <2> QED
    BY <1>0, <1>1, <1>8, <2>1, SMTT(30), Z3T(30) DEF SYSCALL_PIPEWRITE, UnknownSyscall
<1>9. CASE \E g \in Buffers, n \in 0 .. MaxSize : Syscall(SYSCALL_PIPEREAD, g, n, 0)
  <2>1. \A n \in 0 .. MaxSize : n \in Nat
    BY InputAssumption
  <2> QED
    BY <1>0, <1>1, <1>9, <2>1, 0 \in Bytes \cup {0}, SMTT(30), Z3T(30) DEF SYSCALL_PIPEREAD, UnknownSyscall
<1> QED
  BY <1>2, <1>3, <1>4, <1>5, <1>6, <1>7, <1>8, <1>9, SMTT(30), Z3T(30) DEF UserStep

-----------------------------------------------------------------------------
(* How a handler ends: it stops the machine, returns to its process with a   *)
(* value, or, for sys_page_alloc, takes a page and returns.                  *)

Stops ==
  /\ mode = "trap" /\ mode' = "fail"
  /\ why' \in Reasons \ {"run", "check_pagetable", "syscall_entry", "memviewer"}
  /\ UNCHANGED <<todo, state, prog, regs, current, rax, trap, pid, refcount,
                 next_alloc_pa, v_, useracc, users, pagetable, mapping, pipevars>>

Returns ==
  /\ mode = "trap"
  /\ \E value \in Int : Return(value)
  /\ UNCHANGED <<todo, state, prog, regs, current, pid, refcount,
                 next_alloc_pa, v_, useracc, users, pagetable, mapping>>

TakesPage ==
  /\ mode = "trap" /\ trap.page \in Pages /\ refcount[trap.page] = 0
  /\ refcount' = [refcount EXCEPT ![trap.page] = @ + 1]
  /\ users' = [users EXCEPT ![trap.page] = @ \cup {current}]
  /\ Return(0)
  /\ UNCHANGED <<todo, state, prog, regs, current, pid, next_alloc_pa, v_, useracc,
                 pagetable, mapping, pipevars>>

\* The reasons for which a handler stops the machine.
LEMMA StopsFacts ==
  ASSUME mode = "trap",
         NEW reason \in {"exception", "user_panic", "unexpected_syscall", "kernel_fault",
                         "page_alloc"},
         StopsWith(reason)
  PROVE  Stops
<1>1. /\ mode' = "fail" /\ why' = reason
      /\ UNCHANGED <<todo, state, prog, regs, current, rax, trap, pid, refcount,
                     next_alloc_pa, v_, useracc, users, pagetable, mapping, pipevars>>
  BY ZenonT(30) DEF StopsWith, Fail, procvars, memvars, tabvars
<1>2. reason \in Reasons \ {"run", "check_pagetable", "syscall_entry", "memviewer"}
  BY SMTT(30), Z3T(30) DEF Reasons
<1> QED
  BY <1>1, <1>2, ZenonT(30) DEF Stops

\* Panics stop the machine.
LEMMA PanicEnds == HandlePanic => Stops
BY StopsFacts, ZenonT(30) DEF HandlePanic, UnexpectedException, SysPanic, UnexpectedSyscall, Handling

\* A system call that does not yield or take a page returns, unless the kernel
\* faults on its argument.
LEMMA CallEnds ==
  TypeOK /\ (SysGetpid \/ SysGetsysname \/ syscall_spawn \/ syscall_pipewrite \/ syscall_piperead)
    => Stops \/ Returns
<1> USE DEF procvars, memvars, tabvars, Handling, KernelFaults
<1>1. TypeOK /\ SysGetpid => Returns
  <2>1. TypeOK => current \in Int
    BY PidFacts, SMTT(30), Z3T(30) DEF TypeOK, CpuTypes
  <2> QED
    BY <2>1, ZenonT(30) DEF SysGetpid, Returns
<1>2. SysGetsysname => Stops \/ Returns
  BY StopsFacts, 0 \in Int, ZenonT(30) DEF SysGetsysname, Returns
<1>3. syscall_spawn => Returns
  BY -1 \in Int, ZenonT(30) DEF syscall_spawn, Returns
<1>4. syscall_pipewrite => Stops \/ Returns
  BY StopsFacts, -1 \in Int, 0 \in Int, 1 \in Int, ZenonT(30) DEF syscall_pipewrite, Returns
<1>5. syscall_piperead => Stops \/ Returns
  BY StopsFacts, -1 \in Int, 0 \in Int, 1 \in Int, ZenonT(30) DEF syscall_piperead, Returns
<1> QED
  BY <1>1, <1>2, <1>3, <1>4, <1>5, ZenonT(30)

\* sys_page_alloc takes the page, if it exists and is free, or stops the
\* machine.
LEMMA PageAllocEnds == syscall_page_alloc => Stops \/ TakesPage
BY StopsFacts, ZenonT(30) DEF syscall_page_alloc, TakesPage, KernelFaults, Handling, procvars, tabvars

\* Stopping keeps the types.
LEMMA StopsType ==
  ASSUME TypeOK, Stops
  PROVE  TypeOK'
<1>1. ProcTypes' /\ TrapTypes' /\ MemTypes' /\ PipeTypes'
  BY ZenonT(30) DEF Stops, pipevars, TypeOK, ProcTypes, TrapTypes, MemTypes, PipeTypes
<1>2. CpuTypes'
  BY SMTT(30), Z3T(30) DEF Stops, TypeOK, CpuTypes, Modes
<1> QED
  BY <1>1, <1>2, ZenonT(30) DEF TypeOK

\* Returning keeps the types.
LEMMA ReturnsType ==
  ASSUME TypeOK, Returns
  PROVE  ProcTypes' /\ CpuTypes' /\ TrapTypes' /\ MemTypes'
<1>1. ProcTypes' /\ MemTypes'
  BY ZenonT(30) DEF Returns, TypeOK, ProcTypes, MemTypes
<1>2. CpuTypes' /\ TrapTypes'
  BY ReturnType, ZenonT(30) DEF Returns
<1> QED
  BY <1>1, <1>2, ZenonT(30)

\* run(), whichever of its checks fails, keeps the types.
LEMMA RunType ==
  ASSUME CpuTypes, NEW p \in Pids, Run(p), UNCHANGED regs, pid' \in Pids
  PROVE  CpuTypes'
<1>1. CASE state[p] # P_RUNNABLE
  BY <1>1, SMTT(30), Z3T(30) DEF Run, Fail, CpuTypes, Modes, Reasons
<1>2. CASE state[p] = P_RUNNABLE /\ ~check_pagetable(pagetable[p])
  <2>1. mode' = "fail" /\ why' = "check_pagetable" /\ current' = p /\ UNCHANGED rax
    BY <1>2, ZenonT(30) DEF Run, Fail
  <2> QED
    BY <2>1, SMTT(30), Z3T(30) DEF CpuTypes, Modes, Reasons
<1>3. CASE state[p] = P_RUNNABLE /\ check_pagetable(pagetable[p])
  <2>1. mode' = "user" /\ current' = p /\ rax' = regs[p] /\ UNCHANGED why
    BY <1>3, ZenonT(30) DEF Run
  <2> QED
    BY <2>1, SMTT(30), Z3T(30) DEF CpuTypes, Modes
<1> QED
  BY <1>1, <1>2, <1>3, ZenonT(30)

\* The kernel's own steps keep the types.
LEMMA KernelType == TypeOK /\ KernelStep => TypeOK'
<1> SUFFICES ASSUME TypeOK, KernelStep PROVE TypeOK'
  BY SMTT(30), Z3T(30)
<1> USE DEF procvars, memvars, tabvars, pipevars
<1>0. current \in Int /\ -1 \in Int /\ 0 \in Int /\ 1 \in Int
  BY PidFacts, SMTT(30), Z3T(30) DEF TypeOK, CpuTypes
<1>1. CASE KernelStartSetup
  <2>1. Head(todo).pid \in {1, 2} /\ Head(todo).name \in Names
        /\ todo' \in Seq(Setups)
    <3>1. todo \in Seq(Setups) /\ todo # <<>> /\ todo' = Tail(todo)
      BY <1>1, ZenonT(30) DEF KernelStartSetup, TypeOK, ProcTypes
    <3>2. Head(todo) \in Setups
      BY <3>1, SMTT(30), Z3T(30)
    <3> QED
      BY <3>1, <3>2, SMTT(30), Z3T(30) DEF Setups
  <2>2. ProcessSetup(Head(todo).pid, Head(todo).name)
        /\ UNCHANGED <<current, rax, trap, pid, next_alloc_pa, v_, pipevars>>
    BY <1>1 DEF KernelStartSetup
  <2>3. /\ mode' \in Modes /\ why' \in Reasons
        /\ state' \in [Pids -> {P_FREE, P_RUNNABLE, P_BLOCKED, P_FAULTED}]
        /\ prog' \in [Pids -> Names \cup {""}]
        /\ regs' \in [Pids -> Int]
        /\ refcount' \in [Pages -> Nat]
        /\ users' \in [Pages -> SUBSET Pids]
        /\ useracc' \subseteq Pages
        /\ pagetable' \in [Pids -> Pages]
        /\ mapping' \in [Pages -> Pages \cup {Unmapped}]
    BY <2>1, <2>2, ProcessSetupType, ZenonT(30)
  <2>4. ProcTypes'
    BY <2>1, <2>3, ZenonT(30) DEF ProcTypes
  <2>5. CpuTypes'
    BY <2>2, <2>3, ZenonT(30) DEF TypeOK, CpuTypes
  <2>6. TrapTypes' /\ PipeTypes'
    BY <2>2, SMTT(30), Z3T(30) DEF TypeOK, TrapTypes, PipeTypes
  <2>7. MemTypes'
    BY <2>2, <2>3, ZenonT(30) DEF TypeOK, MemTypes
  <2> QED
    BY <2>4, <2>5, <2>6, <2>7, SMTT(30), Z3T(30) DEF TypeOK
<1>2. CASE KernelStartRun
  <2>1. ProcTypes' /\ TrapTypes' /\ MemTypes' /\ PipeTypes'
    BY <1>2, ZenonT(30) DEF KernelStartRun, TypeOK, ProcTypes, TrapTypes, MemTypes, PipeTypes
  <2>2. CpuTypes'
    <3>1. Run(1) /\ UNCHANGED <<regs, pid>> /\ CpuTypes /\ pid \in Pids
      BY <1>2, ZenonT(30) DEF KernelStartRun, TypeOK, CpuTypes
    <3> QED
      BY <3>1, RunType, PidFacts, ZenonT(30)
  <2> QED
    BY <2>1, <2>2, SMTT(30), Z3T(30) DEF TypeOK
<1>3. CASE HandleTimer
  <2>1. ProcTypes' /\ MemTypes' /\ PipeTypes'
    BY <1>3, ZenonT(30) DEF HandleTimer, TypeOK, ProcTypes, MemTypes, PipeTypes
  <2>2. CpuTypes' /\ TrapTypes'
    BY <1>3, TrapRecords, ZenonT(30) DEF HandleTimer, Schedule, TypeOK, CpuTypes, TrapTypes, Modes
  <2> QED
    BY <2>1, <2>2 DEF TypeOK
<1>4. CASE HandlePageFault
  <2>1. MemTypes' /\ PipeTypes'
    BY <1>4, SMTT(30), Z3T(30) DEF HandlePageFault, TypeOK, MemTypes, PipeTypes
  <2>2. CpuTypes' /\ TrapTypes'
    BY <1>4, TrapRecords, ZenonT(30) DEF HandlePageFault, Schedule, TypeOK, CpuTypes, TrapTypes, Modes
  <2>3. ProcTypes'
    BY <1>4, ZenonT(30) DEF HandlePageFault, TypeOK, ProcTypes
  <2> QED
    BY <2>1, <2>2, <2>3, SMTT(30), Z3T(30) DEF TypeOK
<1>5. CASE HandlePanic
  BY <1>5, PanicEnds, StopsType, ZenonT(30)
<1>6. CASE SysGetpid \/ SysGetsysname \/ syscall_spawn
  <2>1. Returns => PipeTypes'
    BY <1>6, ZenonT(30) DEF SysGetpid, SysGetsysname, syscall_spawn, StopsWith, KernelFaults,
       TypeOK, PipeTypes
  <2> QED
    BY <1>6, <2>1, CallEnds, StopsType, ReturnsType, ZenonT(30) DEF TypeOK
<1>7. CASE SysYield
  <2>1. ProcTypes' /\ MemTypes' /\ PipeTypes'
    BY <1>7, ZenonT(30) DEF SysYield, TypeOK, ProcTypes, MemTypes, PipeTypes
  <2>2. regs' \in [Pids -> Int]
    BY <1>0, <1>7, RegsType, SMTT(30), Z3T(30) DEF SysYield, TypeOK
  <2>3. CpuTypes' /\ TrapTypes'
    BY <1>7, <2>2, TrapRecords, ZenonT(30) DEF SysYield, Schedule, TypeOK, CpuTypes, TrapTypes, Modes
  <2> QED
    BY <2>1, <2>3 DEF TypeOK
<1>8. CASE syscall_page_alloc
  <2>1. CASE TakesPage
    <3>1. ProcTypes' /\ PipeTypes'
      BY <2>1, ZenonT(30) DEF TakesPage, TypeOK, ProcTypes, PipeTypes
    <3>2. CpuTypes' /\ TrapTypes'
      BY <2>1, 0 \in Int, ReturnType, ZenonT(30) DEF TakesPage
    <3>3. current \in Pids
      BY ZenonT(30) DEF TypeOK, CpuTypes
    <3>4. refcount' \in [Pages -> Nat] /\ users' \in [Pages -> SUBSET Pids]
      BY <2>1, <3>3, SMTT(30), Z3T(30) DEF TakesPage, TypeOK, MemTypes
    <3>5. MemTypes'
      BY <2>1, <3>4, ZenonT(30) DEF TakesPage, TypeOK, MemTypes
    <3> QED
      BY <3>1, <3>2, <3>5, ZenonT(30) DEF TypeOK
  <2> QED
    BY <1>8, <2>1, PageAllocEnds, StopsType, ZenonT(30)
<1>9. CASE syscall_pipewrite
  <2>1. PipeTypes'
    BY <1>9, SMTT(30), Z3T(30) DEF syscall_pipewrite, KernelFaults, StopsWith, TypeOK, PipeTypes, TrapTypes, Traps
  <2> QED
    BY <1>9, <2>1, CallEnds, StopsType, ReturnsType, ZenonT(30) DEF TypeOK
<1>10. CASE syscall_piperead
  <2>1. PipeTypes'
    BY <1>10, SMTT(30), Z3T(30) DEF syscall_piperead, KernelFaults, StopsWith, TypeOK, PipeTypes
  <2> QED
    BY <1>10, <2>1, CallEnds, StopsType, ReturnsType, ZenonT(30) DEF TypeOK
<1>11. CASE ScheduleSpin
  <2>1. ProcTypes' /\ TrapTypes' /\ MemTypes' /\ PipeTypes'
    BY <1>11, ZenonT(30) DEF ScheduleSpin, TypeOK, ProcTypes, TrapTypes, MemTypes, PipeTypes
  <2>2. (pid + 1) % NPROC \in Pids
    BY PidFacts, SMTT(30), Z3T(30) DEF TypeOK, CpuTypes
  <2>3. CpuTypes'
    <3> DEFINE next == (pid + 1) % NPROC
    <3>1. /\ Run(next) \/ UNCHANGED <<mode, current, rax, why>>
          /\ UNCHANGED regs /\ CpuTypes /\ pid' = next
      BY <1>11, ZenonT(30) DEF ScheduleSpin, TypeOK
    <3>2. CASE Run(next)
      BY <2>2, <3>1, <3>2, RunType, ZenonT(30)
    <3>3. CASE UNCHANGED <<mode, current, rax, why>>
      BY <2>2, <3>1, <3>3, ZenonT(30) DEF CpuTypes
    <3> QED
      BY <3>1, <3>2, <3>3, ZenonT(30)
  <2> QED
    BY <2>1, <2>3 DEF TypeOK
<1> QED
  BY <1>1, <1>2, <1>3, <1>4, <1>5, <1>6, <1>7, <1>8, <1>9, <1>10, <1>11, SMTT(30), Z3T(30) DEF KernelStep

\* The state kernel_start begins with has the types.
LEMMA BootTypes ==
  /\ Free \in [Pids -> {P_FREE, P_RUNNABLE, P_BLOCKED, P_FAULTED}]
  /\ NoProg \in [Pids -> Names \cup {""}] /\ NoRegs \in [Pids -> Int]
  /\ NoUse \in [Pages -> Nat] /\ NoUsers \in [Pages -> SUBSET Pids]
  /\ NoTable \in [Pids -> Pages] /\ Identity \in [Pages -> Pages \cup {Unmapped}]
  /\ 0 \in Int /\ 0 \in Nat /\ 0 \in Pids /\ 0 \in Pages /\ {CONSOLE_ADDR} \subseteq Pages
  /\ "boot" \in Modes /\ "none" \in Reasons
BY PidFacts, PageFacts, SMTT(30), Z3T(30) DEF Free, NoProg, NoRegs, NoTable, Identity, NoUse,
   NoUsers, Modes, Reasons

\* The initial state has the types.
LEMMA InitType == Init => TypeOK
<1> SUFFICES ASSUME Init PROVE TypeOK
  OBVIOUS
<1>1. ProcTypes
  BY BootTypes, StartListFacts, ZenonT(30) DEF Init, ProcTypes
<1>2. CpuTypes
  BY BootTypes, Zenon DEF Init, CpuTypes
<1>3. TrapTypes /\ PipeTypes
  BY TrapRecords, ZenonT(30) DEF Init, TrapTypes, PipeTypes
<1>4. MemTypes
  BY BootTypes, Zenon DEF Init, MemTypes
<1> QED
  BY <1>1, <1>2, <1>3, <1>4, SMTT(30), Z3T(30) DEF TypeOK

\* Every step keeps the types.
LEMMA NextType == TypeOK /\ [Next]_vars => TypeOK'
<1>1. ASSUME TypeOK, NEW key \in Keys, Keypress(key) PROVE TypeOK'
  <2>1. CASE key = "q"
    BY <1>1, <2>1, ZenonT(30) DEF Keypress, TypeOK, ProcTypes, CpuTypes, TrapTypes, MemTypes, PipeTypes,
       procvars, memvars, tabvars, pipevars, Modes
  <2>2. CASE key # "q"
    <3>1. SoftReboot(key)
      BY <1>1, <2>2, SMTT(30), Z3T(30) DEF Keypress
    <3>2. ProcTypes'
      BY <3>1, BootTypes, StartListFacts, ZenonT(30) DEF SoftReboot, ProcTypes
    <3>3. CpuTypes'
      BY <3>1, BootTypes, Zenon DEF SoftReboot, CpuTypes
    <3>4. TrapTypes' /\ PipeTypes'
      BY <3>1, TrapRecords, ZenonT(30) DEF SoftReboot, TrapTypes, PipeTypes
    <3>5. MemTypes'
      BY <3>1, BootTypes, Zenon DEF SoftReboot, MemTypes
    <3> QED
      BY <3>2, <3>3, <3>4, <3>5, SMTT(30), Z3T(30) DEF TypeOK
  <2> QED
    BY <2>1, <2>2, SMTT(30), Z3T(30)
<1>2. TypeOK /\ UNCHANGED vars => TypeOK'
  BY ZenonT(30) DEF vars, tabvars, TypeOK, ProcTypes, CpuTypes, TrapTypes, MemTypes, PipeTypes
<1> QED
  BY <1>1, <1>2, UserType, KernelType, SMTT(30), Z3T(30) DEF Next

\* Every variable has its type, for all values of the constants.
THEOREM TypeCorrect == Spec => []TypeOK
BY InitType, NextType, PTL DEF Spec

-----------------------------------------------------------------------------
(* The inductive invariant *)

\* Slot 0 stays empty, only processes 1 and 2 are ever loaded, current is
\* runnable from its dispatch to its handler, schedule() has a process to
\* start from, and kernel_start has loaded process 1 before it runs it.
ProcInv ==
  /\ state[0] = P_FREE
  /\ \A p \in Pids : state[p] # P_FREE => p \in {1, 2} /\ prog[p] \in Names
  /\ mode \in {"user", "trap"} => state[current] = P_RUNNABLE
  /\ mode = "sched" => current # 0
  /\ mode = "boot" => /\ current = 0
                      /\ state[1] = P_RUNNABLE \/ (todo # <<>> /\ Head(todo).pid = 1)
  /\ InternalAssertsHold

\* A page is unused and counted 0, or has one user and is counted 1.
PageInv ==
  \A g \in Pages : \/ refcount[g] = 0 /\ users[g] = {}
                   \/ refcount[g] = 1 /\ \E p \in Pids : users[g] = {p}

\* kernel_pagetable maps all of physical memory but nullptr at its own addresses,
\* and is the table of every process.
TableInv ==
  /\ \A g \in Pages : g # 0 => mapping[g] = g
  /\ \A p \in Pids : state[p] # P_FREE => pagetable[p] = KERNEL_PAGETABLE

IInv == /\ TypeOK /\ ProcInv /\ TableInv
        /\ PageInv /\ NothingSkipped /\ UserPages /\ MemoryOfProcesses

PagePart == PageInv /\ NothingSkipped /\ UserPages /\ MemoryOfProcesses

-----------------------------------------------------------------------------
(* Page tables *)

\* check_pagetable's assertions hold of the table of a runnable process, so
\* run() gets to it.
LEMMA RunFacts ==
  ASSUME TableInv, NEW p \in Pids, state[p] = P_RUNNABLE, Run(p)
  PROVE  mode' = "user" /\ current' = p /\ rax' = regs[p] /\ why' = why
<1>1. pagetable[p] = KERNEL_PAGETABLE
  BY SMTT(30), Z3T(30) DEF TableInv, P_FREE, P_RUNNABLE
<1>2. mapping[EXCEPTION_ENTRY] = EXCEPTION_ENTRY /\ mapping[KERNEL_PAGETABLE] = KERNEL_PAGETABLE
  BY TableFacts, ZenonT(30) DEF TableInv
<1>3. check_pagetable(KERNEL_PAGETABLE)
  BY <1>2, TableFacts, ZenonT(30) DEF check_pagetable, Pa
<1> QED
  BY <1>1, <1>3, ZenonT(30) DEF Run

\* Steps that leave the tables alone and load no free slot.
LEMMA TableKept ==
  ASSUME TableInv, UNCHANGED <<pagetable, mapping>>,
         \A p \in Pids : state'[p] # P_FREE => state[p] # P_FREE
  PROVE  TableInv'
BY ZenonT(30) DEF TableInv

\* process_setup maps a process's pages where they were, in kernel_pagetable.
LEMMA SetupTable ==
  ASSUME TypeOK, TableInv, NEW p, NEW name, ProcessSetup(p, name)
  PROVE  TableInv'
<1>1. PICK got \in SUBSET Region(p) : Claims(p, name, got)
  BY SetupClaims, SMTT(30), Z3T(30)
<1>2. \A g \in Pages : g # 0 => mapping'[g] = g
  BY <1>1, ZenonT(30) DEF Claims, TableInv
<1>3. ASSUME NEW q \in Pids, state'[q] # P_FREE PROVE pagetable'[q] = KERNEL_PAGETABLE
  <2>1. CASE q = p
    BY <1>1, <2>1, ZenonT(30) DEF Claims, TypeOK, MemTypes
  <2>2. CASE q # p
    <3>1. state'[q] = state[q] /\ pagetable'[q] = pagetable[q]
      BY <1>1, <2>2, ZenonT(30) DEF Claims, TypeOK, MemTypes, ProcTypes
    <3> QED
      BY <1>3, <3>1, ZenonT(30) DEF TableInv
  <2> QED
    BY <2>1, <2>2, ZenonT(30)
<1> QED
  BY <1>2, <1>3, ZenonT(30) DEF TableInv

\* The part of the invariant about page tables is preserved by every step but a
\* reboot.
LEMMA StepTable ==
  ASSUME TypeOK, ProcInv, TableInv, KernelStep \/ TimerInterrupt \/ UserStep
  PROVE  TableInv'
<1> USE DEF procvars, memvars, tabvars
<1>1. CASE TimerInterrupt \/ UserStep
  <2>1. UNCHANGED <<pagetable, mapping, state>>
    BY <1>1, ZenonT(30) DEF TimerInterrupt, UserStep, PageFault, OtherException, Syscall, Enter
  <2> QED
    BY <2>1, TableKept, ZenonT(30)
<1>2. CASE KernelStartSetup
  BY <1>2, SetupTable, ZenonT(30) DEF KernelStartSetup
<1>3. CASE HandlePageFault
  <2>1. /\ UNCHANGED <<pagetable, mapping>> /\ state' = [state EXCEPT ![current] = P_FAULTED]
        /\ state[current] # P_FREE
    BY <1>3, SMTT(30), Z3T(30) DEF HandlePageFault, ProcInv, P_FREE, P_RUNNABLE
  <2>2. \A p \in Pids : state'[p] # P_FREE => state[p] # P_FREE
    BY <2>1, ZenonT(30) DEF TypeOK, ProcTypes
  <2> QED
    BY <2>1, <2>2, TableKept, ZenonT(30)
<1>4. CASE syscall_page_alloc \/ HandlePanic \/ SysGetpid \/ SysGetsysname \/ syscall_spawn
           \/ syscall_pipewrite \/ syscall_piperead
  <2>1. Stops \/ Returns \/ TakesPage
    BY <1>4, PanicEnds, CallEnds, PageAllocEnds, ZenonT(30)
  <2>2. UNCHANGED <<pagetable, mapping, state>>
    BY <2>1, ZenonT(30) DEF Stops, Returns, TakesPage
  <2> QED
    BY <2>2, TableKept, ZenonT(30)
<1>5. CASE KernelStartRun \/ HandleTimer \/ SysYield \/ ScheduleSpin
  <2>1. UNCHANGED <<pagetable, mapping, state>>
    BY <1>5, ZenonT(30) DEF KernelStartRun, HandleTimer, SysYield, ScheduleSpin
  <2> QED
    BY <2>1, TableKept, ZenonT(30)
<1> QED
  BY <1>1, <1>2, <1>3, <1>4, <1>5, ZenonT(30) DEF KernelStep

-----------------------------------------------------------------------------
(* Processes *)

\* A stopped machine has nothing to keep of what a running one must.
LEMMA StopsProc ==
  ASSUME ProcInv, Stops
  PROVE  ProcInv'
BY SMTT(30), Z3T(30) DEF Stops, ProcInv, InternalAssertsHold

\* Entering the kernel leaves the processes alone, and memviewer's assertion
\* holds because slot 0 is empty.
LEMMA EnterProc ==
  ASSUME TypeOK, ProcInv, NEW t, NEW reg, Enter(t, reg)
  PROVE  ProcInv' /\ UNCHANGED <<state, prog, todo, current>>
<1>1. mode = "user" /\ UNCHANGED <<state, prog, todo, current>> /\ Memshow
  BY SMTT(30), Z3T(30) DEF Enter, procvars
<1>2. mode' \in {"trap", "fail"} /\ why' \in {why, "nomem"}
  BY <1>1, SMTT(30), Z3T(30) DEF Memshow, Fail, ProcInv
<1> QED
  BY <1>1, <1>2, SMTT(30), Z3T(30) DEF ProcInv, InternalAssertsHold

\* A system call returns to a runnable process.
LEMMA ReturnProc ==
  ASSUME TypeOK, ProcInv, mode = "trap", NEW value, Return(value),
         UNCHANGED <<state, prog, todo, current>>
  PROVE  ProcInv'
<1>1. mode' = "user" /\ why' = why
  BY DEF Return, ProcInv
<1> QED
  BY <1>1, SMTT(30), Z3T(30) DEF ProcInv, InternalAssertsHold

\* The part of the invariant about processes is preserved by user traps.
LEMMA UserProc == TypeOK /\ ProcInv /\ (TimerInterrupt \/ UserStep) => ProcInv'
BY EnterProc, ZenonT(30) DEF TimerInterrupt, UserStep, PageFault, OtherException, Syscall

\* What process_setup does to the processes: process 1 comes first.
LEMMA SetupProc == TypeOK /\ ProcInv /\ KernelStartSetup => ProcInv'
<1> SUFFICES ASSUME TypeOK, ProcInv, KernelStartSetup PROVE ProcInv'
  OBVIOUS
<1> DEFINE p == Head(todo).pid
           name == Head(todo).name
<1>1. p \in {1, 2} /\ name \in Names
  <2>1. todo \in Seq(Setups) /\ todo # <<>>
    BY ZenonT(30) DEF KernelStartSetup, TypeOK, ProcTypes
  <2>2. Head(todo) \in Setups
    BY <2>1, SMTT(30), Z3T(30)
  <2> QED
    BY <2>2, SMTT(30), Z3T(30) DEF Setups
<1>2. PICK got \in SUBSET Region(p) : Claims(p, name, got)
  BY SetupClaims, SMTT(30), Z3T(30) DEF KernelStartSetup
<1>3. mode = "boot" /\ current' = current
  BY SMTT(30), Z3T(30) DEF KernelStartSetup
<1>4. p \in Pids /\ 0 \in Pids /\ 1 \in Pids
  BY <1>1, PidFacts, SMTT(30), Z3T(30)
<1> HIDE DEF p, name
<1>5. CASE /\ state' = [state EXCEPT ![p] = P_RUNNABLE]
           /\ prog' = [prog EXCEPT ![p] = name]
           /\ mode' = mode /\ why' = why
  <2>1. state[1] = P_RUNNABLE \/ p = 1
    BY <1>3, SMTT(30), Z3T(30) DEF ProcInv, p
  <2>2. state'[1] = P_RUNNABLE /\ state'[0] = P_FREE
    <3>1. state \in [Pids -> {P_FREE, P_RUNNABLE, P_BLOCKED, P_FAULTED}] /\ state[0] = P_FREE
      BY ZenonT(30) DEF ProcInv, TypeOK, ProcTypes
    <3>2. p # 0
      BY <1>1, SMTT(30), Z3T(30)
    <3> QED
      BY <1>4, <1>5, <2>1, <3>1, <3>2, SMTT(30), Z3T(30)
  <2>3. \A q \in Pids : state'[q] # P_FREE => q \in {1, 2} /\ prog'[q] \in Names
    BY <1>1, <1>4, <1>5, ZenonT(30) DEF ProcInv, TypeOK, ProcTypes
  <2> QED
    BY <1>3, <1>5, <2>2, <2>3, SMTT(30), Z3T(30) DEF ProcInv, InternalAssertsHold
<1>6. CASE mode' = "fail" /\ why' = "process_setup" /\ state' = state /\ prog' = prog
  BY <1>6, SMTT(30), Z3T(30) DEF ProcInv, InternalAssertsHold
<1> QED
  BY <1>2, <1>5, <1>6, SMTT(30), Z3T(30) DEF Claims

\* The part of the invariant about processes is preserved by the kernel's
\* own steps: run() and k-exception.S find a runnable process.
LEMMA KernelProc == TypeOK /\ ProcInv /\ TableInv /\ KernelStep => ProcInv'
<1> SUFFICES ASSUME TypeOK, ProcInv, TableInv, KernelStep PROVE ProcInv'
  OBVIOUS
<1> USE DEF procvars
<1>1. CASE KernelStartSetup
  BY <1>1, SetupProc, SMTT(30), Z3T(30)
<1>2. CASE KernelStartRun
  <2>1. mode = "boot" /\ state[1] = P_RUNNABLE
    BY <1>2, SMTT(30), Z3T(30) DEF KernelStartRun, ProcInv
  <2>2. mode' = "user" /\ current' = 1 /\ why' = why /\ UNCHANGED <<state, prog>>
    BY <1>2, <2>1, RunFacts, PidFacts, ZenonT(30) DEF KernelStartRun
  <2> QED
    BY <2>1, <2>2, SMTT(30), Z3T(30) DEF ProcInv, InternalAssertsHold
<1>3. CASE HandleTimer \/ SysYield
  <2>1. mode = "trap" /\ mode' = "sched" /\ why' = why /\ UNCHANGED <<state, prog, current>>
    BY <1>3, SMTT(30), Z3T(30) DEF HandleTimer, SysYield, Handling, Schedule
  <2>2. current # 0
    BY <2>1, SMTT(30), Z3T(30) DEF ProcInv, P_FREE, P_RUNNABLE
  <2> QED
    BY <2>1, <2>2, SMTT(30), Z3T(30) DEF ProcInv, InternalAssertsHold
<1>4. CASE HandlePageFault
  <2>1. /\ mode = "trap" /\ mode' = "sched" /\ why' = why /\ UNCHANGED <<prog, current>>
        /\ state' = [state EXCEPT ![current] = P_FAULTED]
    BY <1>4, SMTT(30), Z3T(30) DEF HandlePageFault, Schedule
  <2>2. current # 0 /\ current \in Pids /\ state[current] # P_FREE
    BY <2>1, SMTT(30), Z3T(30) DEF ProcInv, P_FREE, P_RUNNABLE, TypeOK, CpuTypes
  <2>3. state'[0] = P_FREE
    BY <2>1, <2>2, PidFacts, ZenonT(30) DEF ProcInv, TypeOK, ProcTypes
  <2>4. \A q \in Pids : state'[q] # P_FREE => q \in {1, 2} /\ prog'[q] \in Names
    BY <2>1, <2>2, ZenonT(30) DEF ProcInv, TypeOK, ProcTypes
  <2> QED
    BY <2>1, <2>2, <2>3, <2>4, SMTT(30), Z3T(30) DEF ProcInv, InternalAssertsHold
<1>5. CASE HandlePanic
  BY <1>5, PanicEnds, StopsProc, ZenonT(30)
<1>6. CASE SysGetpid \/ SysGetsysname \/ syscall_spawn \/ syscall_pipewrite \/ syscall_piperead
  <2>1. CASE Returns
    BY <2>1, ReturnProc, ZenonT(30) DEF Returns
  <2> QED
    BY <1>6, <2>1, CallEnds, StopsProc, ZenonT(30)
<1>7. CASE syscall_page_alloc
  <2>1. CASE TakesPage
    BY <2>1, ReturnProc, ZenonT(30) DEF TakesPage
  <2> QED
    BY <1>7, <2>1, PageAllocEnds, StopsProc, ZenonT(30)
<1>8. CASE ScheduleSpin
  <2> DEFINE next == (pid + 1) % NPROC
  <2>1. /\ mode = "sched" /\ UNCHANGED <<state, prog, todo>> /\ pid' = next
        /\ IF state[next] = P_RUNNABLE THEN Run(next) ELSE UNCHANGED <<mode, current, rax, why>>
    BY <1>8, ZenonT(30) DEF ScheduleSpin
  <2>2. next \in Pids
    BY PidFacts, SMTT(30), Z3T(30) DEF TypeOK, CpuTypes
  <2> HIDE DEF next
  <2>3. CASE state[next] = P_RUNNABLE
    <3>1. mode' = "user" /\ current' = next /\ why' = why
      BY <2>1, <2>2, <2>3, RunFacts, ZenonT(30)
    <3> QED
      BY <2>1, <2>3, <3>1, SMTT(30), Z3T(30) DEF ProcInv, InternalAssertsHold
  <2>4. CASE state[next] # P_RUNNABLE
    BY <2>1, <2>4, SMTT(30), Z3T(30) DEF ProcInv, InternalAssertsHold
  <2> QED
    BY <2>3, <2>4, ZenonT(30)
<1> QED
  BY <1>1, <1>2, <1>3, <1>4, <1>5, <1>6, <1>7, <1>8, SMTT(30), Z3T(30) DEF KernelStep

\* A boot, the first or a later one, begins with no process.
LEMMA BootProc ==
  /\ Free[0] = P_FREE
  /\ \A p \in Pids : Free[p] = P_FREE
BY PidFacts, SMTT(30), Z3T(30) DEF Free

-----------------------------------------------------------------------------
(* Pages *)

\* Steps that leave memory, process states and programs alone.
LEMMA PagesUnchanged == PagePart /\ UNCHANGED <<memvars, state, prog>> => PagePart'
<1> SUFFICES ASSUME PagePart, UNCHANGED <<memvars, state, prog>> PROVE PagePart'
  BY SMTT(30), Z3T(30)
<1>1. PageInv' /\ NothingSkipped' /\ UserPages'
  BY DEF PagePart, PageInv, NothingSkipped, UserPages, memvars, tabvars
<1>2. MemoryOfProcesses'
  BY ZenonT(30) DEF PagePart, MemoryOfProcesses, Footprint, StackPage, memvars
<1> QED
  BY <1>1, <1>2, SMTT(30), Z3T(30) DEF PagePart

\* Process 1's pages and its stack lie in its region, and so do process 2's.
LEMMA SetupPages ==
  ASSUME TypeOK, ProcInv, PagePart, NEW p \in {1, 2}, NEW name \in Names,
         ProcessSetup(p, name), next_alloc_pa' = next_alloc_pa
  PROVE  PagePart'
<1>1. PICK got \in SUBSET Region(p) : Claims(p, name, got)
  BY SetupClaims, SMTT(30), Z3T(30)
<1>2. got \subseteq Pages /\ p \in Pids /\ p # 0 /\ \A g \in got : g >= PROC_START_ADDR
  BY RegionFacts, PidFacts, SMTT(30), Z3T(30)
<1>3. \A g \in Pages : IF g \in got
        THEN refcount[g] = 0 /\ users[g] = {} /\ refcount'[g] = 1 /\ users'[g] = {p}
        ELSE refcount'[g] = refcount[g] /\ users'[g] = users[g]
  BY <1>1, <1>2, SMTT(30), Z3T(30) DEF Claims, PagePart, PageInv
<1>4. PageInv'
  BY <1>2, <1>3, SMTT(30), Z3T(30) DEF PagePart, PageInv
<1>5. NothingSkipped'
  BY <1>3, SMTT(30), Z3T(30) DEF PagePart, NothingSkipped
<1>6. UserPages'
  <2>1. useracc' = useracc \cup got /\ useracc \subseteq Pages
    BY <1>1, SMTT(30), Z3T(30) DEF Claims, TypeOK, MemTypes
  <2> QED
    BY <1>2, <1>3, <2>1, SMTT(30), Z3T(30) DEF PagePart, UserPages
<1>7. MemoryOfProcesses'
  <2> SUFFICES ASSUME NEW q \in Pids, state'[q] # P_FREE,
                      NEW i \in 1 .. Len(Footprint(q, prog'[q]))
               PROVE  LET g == Footprint(q, prog'[q])[i] IN users'[g] = {q} /\ g \in useracc'
    BY ZenonT(30) DEF MemoryOfProcesses, Footprint, StackPage
  <2> DEFINE g == Footprint(q, prog'[q])[i]
  <2>0. useracc' = useracc \cup got
    BY <1>1, SMTT(30), Z3T(30) DEF Claims
  <2>1. CASE /\ q = p /\ prog' = [prog EXCEPT ![p] = name]
             /\ \A j \in 1 .. Len(Footprint(p, name)) : Footprint(p, name)[j] \in got
    <3>1. prog'[q] = name
      <4>1. prog \in [Pids -> Names \cup {""}]
        BY ZenonT(30) DEF TypeOK, ProcTypes
      <4>2. prog' = [prog EXCEPT ![p] = name] /\ q = p
        BY <2>1, Zenon
      <4> QED
        BY <1>2, <4>1, <4>2, Zenon
    <3>2. g \in got
      BY <2>1, <3>1, SMTT(30), Z3T(30)
    <3> QED
      BY <1>2, <1>3, <2>0, <2>1, <3>2, SMTT(30), Z3T(30)
  <2>2. CASE state'[q] = state[q] /\ prog'[q] = prog[q]
    <3>1. users[g] = {q} /\ g \in useracc
      BY <2>2, ZenonT(30) DEF PagePart, MemoryOfProcesses
    <3>2. g \in Pages
      BY <3>1, SMTT(30), Z3T(30) DEF TypeOK, MemTypes
    <3> QED
      BY <1>3, <2>0, <3>1, <3>2, ZenonT(30)
  <2>3. \/ /\ q = p /\ prog' = [prog EXCEPT ![p] = name]
           /\ \A j \in 1 .. Len(Footprint(p, name)) : Footprint(p, name)[j] \in got
        \/ state'[q] = state[q] /\ prog'[q] = prog[q]
    BY <1>1, <1>2, ZenonT(30) DEF Claims, TypeOK, ProcTypes
  <2> QED
    BY <2>1, <2>2, <2>3, ZenonT(30)
<1> QED
  BY <1>4, <1>5, <1>6, <1>7, SMTT(30), Z3T(30) DEF PagePart

\* A page that gets its first user stays out of everybody's memory.
LEMMA ClaimOne ==
  ASSUME TypeOK, PagePart, NEW g \in Pages, NEW p \in Pids, refcount[g] = 0,
         refcount' = [refcount EXCEPT ![g] = @ + 1],
         users' = [users EXCEPT ![g] = @ \cup {p}],
         UNCHANGED <<useracc, state, prog>>
  PROVE  PageInv' /\ UserPages' /\ MemoryOfProcesses'
<1>1. users[g] = {}
  BY SMTT(30), Z3T(30) DEF PagePart, PageInv
<1>2. refcount'[g] = 1 /\ users'[g] = {p}
  BY <1>1, SMTT(30), Z3T(30) DEF TypeOK, MemTypes
<1>3. \A h \in Pages : h # g => refcount'[h] = refcount[h] /\ users'[h] = users[h]
  BY SMTT(30), Z3T(30) DEF TypeOK, MemTypes
<1>4. PageInv'
  BY <1>2, <1>3, SMTT(30), Z3T(30) DEF PagePart, PageInv
<1>5. UserPages'
  BY <1>1, <1>3, SMTT(30), Z3T(30) DEF PagePart, UserPages, TypeOK, MemTypes
<1>6. MemoryOfProcesses'
  <2> SUFFICES ASSUME NEW q \in Pids, state[q] # P_FREE,
                      NEW i \in 1 .. Len(Footprint(q, prog[q]))
               PROVE  LET h == Footprint(q, prog[q])[i] IN users'[h] = {q} /\ h \in useracc
    BY ZenonT(30) DEF MemoryOfProcesses, Footprint, StackPage
  <2> DEFINE h == Footprint(q, prog[q])[i]
  <2>1. users[h] = {q} /\ h \in useracc
    BY ZenonT(30) DEF PagePart, MemoryOfProcesses
  <2>2. h \in Pages /\ h # g
    BY <1>1, <2>1, ZenonT(30) DEF TypeOK, MemTypes
  <2> QED
    BY <1>3, <2>1, <2>2, ZenonT(30)
<1> QED
  BY <1>4, <1>5, <1>6, SMTT(30), Z3T(30)

\* memshow() takes an unused page for the kernel, and kalloc's pass over the
\* pages before it skips no page it could have returned.
LEMMA EnterPages ==
  ASSUME TypeOK, ProcInv, PagePart, NEW t, NEW reg, Enter(t, reg)
  PROVE  PagePart'
<1>1. Memshow /\ UNCHANGED <<useracc, state, prog>>
  BY DEF Enter, procvars
<1>2. CASE \E g \in Pages : Kalloc(g)
  <2>1. PICK g \in Pages : Kalloc(g)
    BY <1>2, SMTT(30), Z3T(30)
  <2>2. PageInv' /\ UserPages' /\ MemoryOfProcesses'
    BY <1>1, <2>1, ClaimOne, PidFacts, ZenonT(30) DEF Kalloc, Allocable
  <2>3. /\ g \in Nat /\ next_alloc_pa \in Nat /\ refcount \in [Pages -> Nat]
        /\ next_alloc_pa' = g + 1
        /\ refcount' = [refcount EXCEPT ![g] = @ + 1]
    BY <2>1, PageFacts, SMTT(30), Z3T(30) DEF Kalloc, TypeOK, MemTypes
  <2>4. ASSUME NEW h \in Pages, h < next_alloc_pa', allocatable_physical_address(h)
        PROVE  refcount'[h] # 0
    <3>0. h \in Nat
      BY PageFacts, SMTT(30), Z3T(30)
    <3>1. CASE h = g
      BY <2>3, <3>1, SMTT(30), Z3T(30)
    <3>2. CASE h # g /\ h < next_alloc_pa
      <4>1. refcount[h] # 0
        BY <2>4, <3>2, SMTT(30), Z3T(30) DEF PagePart, NothingSkipped
      <4> QED
        BY <2>3, <3>2, <4>1, SMTT(30), Z3T(30)
    <3>3. CASE h < g /\ h >= next_alloc_pa
      <4>1. ~Allocable(h)
        BY <2>1, <3>3, SMTT(30), Z3T(30) DEF Kalloc
      <4>2. refcount[h] # 0
        BY <2>4, <4>1, SMTT(30), Z3T(30) DEF Allocable
      <4> QED
        BY <2>3, <3>0, <3>3, <4>2, SMTT(30), Z3T(30)
    <3> QED
      BY <2>3, <2>4, <3>0, <3>1, <3>2, <3>3, SMTT(30), Z3T(30)
  <2>5. NothingSkipped'
    BY <2>4, SMTT(30), Z3T(30) DEF NothingSkipped, allocatable_physical_address, reserved_physical_address
  <2> QED
    BY <2>2, <2>5 DEF PagePart
<1>3. CASE KallocFails
  <2>1. PageInv' /\ UserPages' /\ MemoryOfProcesses'
    BY <1>1, <1>3, ZenonT(30) DEF KallocFails, PagePart, PageInv, UserPages, MemoryOfProcesses,
       Footprint, StackPage
  <2>2. ASSUME NEW h \in Pages, allocatable_physical_address(h)
        PROVE  refcount'[h] # 0
    BY <1>3, <2>2, PageFacts, SMTT(30), Z3T(30) DEF KallocFails, Allocable, PagePart, NothingSkipped, TypeOK, MemTypes
  <2>3. NothingSkipped'
    BY <2>2, SMTT(30), Z3T(30) DEF NothingSkipped, allocatable_physical_address, reserved_physical_address
  <2> QED
    BY <2>1, <2>3, SMTT(30), Z3T(30) DEF PagePart
<1>4. CASE UNCHANGED <<refcount, users, next_alloc_pa>>
  <2>1. PageInv' /\ NothingSkipped' /\ UserPages'
    BY <1>1, <1>4, SMTT(30), Z3T(30) DEF PagePart, PageInv, NothingSkipped, UserPages
  <2>2. MemoryOfProcesses'
    BY <1>1, <1>4, ZenonT(30) DEF PagePart, MemoryOfProcesses, Footprint, StackPage
  <2> QED
    BY <2>1, <2>2, SMTT(30), Z3T(30) DEF PagePart
<1> QED
  BY <1>1, <1>2, <1>3, <1>4 DEF Memshow

\* sys_page_alloc takes an unused page for current.
LEMMA PageAllocPages ==
  ASSUME TypeOK, PagePart, TakesPage
  PROVE  PagePart'
<1>1. /\ refcount[trap.page] = 0
      /\ refcount' = [refcount EXCEPT ![trap.page] = @ + 1]
      /\ users' = [users EXCEPT ![trap.page] = @ \cup {current}]
      /\ UNCHANGED <<useracc, state, prog, next_alloc_pa>>
      /\ trap.page \in Pages /\ current \in Pids
  BY ZenonT(30) DEF TakesPage, TypeOK, CpuTypes
<1>2. PageInv' /\ UserPages' /\ MemoryOfProcesses'
  BY <1>1, ClaimOne, ZenonT(30)
<1>3. NothingSkipped'
  BY <1>1, SMTT(60), Z3T(60) DEF PagePart, NothingSkipped, TypeOK, MemTypes,
     allocatable_physical_address, reserved_physical_address
<1> QED
  BY <1>2, <1>3, SMTT(30), Z3T(30) DEF PagePart

\* A fault changes the state of a process, not its memory.
LEMMA FaultPages ==
  ASSUME TypeOK, ProcInv, PagePart, HandlePageFault
  PROVE  PagePart'
<1>1. /\ UNCHANGED <<memvars, prog>> /\ state' = [state EXCEPT ![current] = P_FAULTED]
      /\ state[current] # P_FREE
  BY SMTT(30), Z3T(30) DEF HandlePageFault, ProcInv, P_FREE, P_RUNNABLE
<1>2. PageInv' /\ NothingSkipped' /\ UserPages'
  BY <1>1, ZenonT(30) DEF PagePart, PageInv, NothingSkipped, UserPages, memvars
<1>3. \A p \in Pids : state'[p] # P_FREE => state[p] # P_FREE
  BY <1>1, ZenonT(30) DEF TypeOK, ProcTypes
<1>4. MemoryOfProcesses'
  BY <1>1, <1>3, ZenonT(30) DEF PagePart, MemoryOfProcesses, Footprint, StackPage, memvars
<1> QED
  BY <1>2, <1>4, SMTT(30), Z3T(30) DEF PagePart

\* The part of the invariant about pages is preserved by every step but a
\* reboot.
LEMMA StepPages ==
  ASSUME TypeOK, ProcInv, PagePart, KernelStep \/ TimerInterrupt \/ UserStep
  PROVE  PagePart'
<1>1. CASE TimerInterrupt \/ UserStep
  BY <1>1, EnterPages, ZenonT(30) DEF TimerInterrupt, UserStep, PageFault, OtherException, Syscall
<1>2. CASE KernelStartSetup
  <2>1. todo \in Seq(Setups) /\ todo # <<>>
    BY <1>2, ZenonT(30) DEF KernelStartSetup, TypeOK, ProcTypes
  <2>2. Head(todo) \in Setups
    BY <2>1, SMTT(30), Z3T(30)
  <2>3. Head(todo).pid \in {1, 2} /\ Head(todo).name \in Names
    BY <2>2, SMTT(30), Z3T(30) DEF Setups
  <2> QED
    BY <1>2, <2>3, SetupPages, SMTT(30), Z3T(30) DEF KernelStartSetup
<1>3. CASE HandlePageFault
  BY <1>3, FaultPages, SMTT(30), Z3T(30)
<1>4. CASE syscall_page_alloc \/ HandlePanic \/ SysGetpid \/ SysGetsysname \/ syscall_spawn
           \/ syscall_pipewrite \/ syscall_piperead
  <2>1. Stops \/ Returns \/ TakesPage
    BY <1>4, PanicEnds, CallEnds, PageAllocEnds, ZenonT(30)
  <2>2. Stops \/ Returns => UNCHANGED <<memvars, state, prog>>
    BY ZenonT(30) DEF Stops, Returns, memvars, tabvars
  <2> QED
    BY <2>1, <2>2, PageAllocPages, PagesUnchanged, ZenonT(30)
<1>5. CASE KernelStartRun \/ HandleTimer \/ SysYield \/ ScheduleSpin
  <2>1. UNCHANGED <<memvars, state, prog>>
    BY <1>5, ZenonT(30) DEF KernelStartRun, HandleTimer, SysYield, ScheduleSpin, procvars
  <2> QED
    BY <2>1, PagesUnchanged, ZenonT(30)
<1> QED
  BY <1>1, <1>2, <1>3, <1>4, <1>5, SMTT(30), Z3T(30) DEF KernelStep

-----------------------------------------------------------------------------
(* The theorems *)

\* What a boot, the first or a later one, starts from satisfies the invariant.
LEMMA BootInv ==
  /\ Init => ProcInv /\ TableInv /\ PagePart
  /\ \A key \in Keys : SoftReboot(key) => ProcInv' /\ TableInv' /\ PagePart'
<1>1. /\ \A g \in Pages : NoUse[g] = 0 /\ NoUsers[g] = {}
      /\ \A p \in Pids : Free[p] = P_FREE
      /\ 0 \in Pids /\ 1 \in Pids
      /\ \A g \in Pages : g # 0 => Identity[g] = g
  BY PidFacts, SMTT(30), Z3T(30) DEF NoUse, NoUsers, Free, Identity
<1>2. ASSUME Init PROVE ProcInv /\ TableInv /\ PagePart
  <2>1. ProcInv
    BY <1>1, <1>2, StartListFacts, ZenonT(30) DEF Init, ProcInv, InternalAssertsHold
  <2>2. PageInv /\ UserPages /\ MemoryOfProcesses
    BY <1>1, <1>2, ZenonT(30) DEF Init, PageInv, UserPages, MemoryOfProcesses
  <2>3. NothingSkipped
    BY <1>2, PageFacts, SMTT(30), Z3T(30) DEF Init, NothingSkipped
  <2>4. TableInv
    BY <1>1, <1>2, ZenonT(30) DEF Init, TableInv
  <2> QED
    BY <2>1, <2>2, <2>3, <2>4, SMTT(30), Z3T(30) DEF PagePart
<1>3. ASSUME NEW key \in Keys, SoftReboot(key) PROVE ProcInv' /\ TableInv' /\ PagePart'
  <2>1. ProcInv'
    BY <1>1, <1>3, StartListFacts, ZenonT(30) DEF SoftReboot, ProcInv, InternalAssertsHold
  <2>2. PageInv' /\ UserPages' /\ MemoryOfProcesses'
    BY <1>1, <1>3, ZenonT(30) DEF SoftReboot, PageInv, UserPages, MemoryOfProcesses
  <2>3. NothingSkipped'
    BY <1>3, PageFacts, SMTT(30), Z3T(30) DEF SoftReboot, NothingSkipped
  <2>4. TableInv'
    BY <1>1, <1>3, ZenonT(30) DEF SoftReboot, TableInv
  <2> QED
    BY <2>1, <2>2, <2>3, <2>4, SMTT(30), Z3T(30) DEF PagePart
<1> QED
  BY <1>2, <1>3, SMTT(30), Z3T(30)

\* IInv is inductive.
LEMMA Inductive == IInv /\ [Next]_vars => IInv'
<1> SUFFICES ASSUME IInv, [Next]_vars PROVE IInv'
  BY SMTT(30), Z3T(30)
<1>0. TypeOK /\ ProcInv /\ TableInv /\ PagePart
  BY SMTT(30), Z3T(30) DEF IInv, PagePart
<1>1. TypeOK'
  BY <1>0, NextType, SMTT(30), Z3T(30)
<1>2. CASE KernelStep \/ TimerInterrupt \/ UserStep
  BY <1>0, <1>1, <1>2, StepPages, StepTable, KernelProc, UserProc, SMTT(30), Z3T(30) DEF IInv, PagePart
<1>3. ASSUME NEW key \in Keys, Keypress(key) PROVE IInv'
  <2>1. CASE key = "q"
    <3>1. mode' = "off" /\ UNCHANGED <<memvars, state, prog, why>>
      BY <1>3, <2>1, SMTT(30), Z3T(30) DEF Keypress, procvars
    <3>2. ProcInv'
      BY <1>0, <3>1, SMTT(30), Z3T(30) DEF ProcInv, InternalAssertsHold
    <3>3. TableInv'
      BY <1>0, <3>1, TableKept, ZenonT(30) DEF memvars, tabvars
    <3> QED
      BY <1>0, <1>1, <3>1, <3>2, <3>3, PagesUnchanged, SMTT(30), Z3T(30) DEF IInv, PagePart
  <2>2. CASE key # "q"
    BY <1>1, <1>3, <2>2, BootInv, SMTT(30), Z3T(30) DEF Keypress, IInv, PagePart
  <2> QED
    BY <2>1, <2>2, SMTT(30), Z3T(30)
<1>4. CASE UNCHANGED vars
  <2>1. ProcInv'
    BY <1>0, <1>4, ZenonT(30) DEF ProcInv, InternalAssertsHold, vars
  <2>2. PagePart'
    BY <1>0, <1>4, PagesUnchanged, SMTT(30), Z3T(30) DEF vars, memvars
  <2>3. TableInv'
    BY <1>0, <1>4, TableKept, ZenonT(30) DEF vars, tabvars
  <2> QED
    BY <1>1, <2>1, <2>2, <2>3, SMTT(30), Z3T(30) DEF IInv, PagePart
<1> QED
  BY <1>2, <1>3, <1>4, SMTT(30), Z3T(30) DEF Next

\* The invariant holds in every reachable state.
THEOREM Invariance == Spec => []IInv
<1>1. Init => IInv
  BY InitType, BootInv, SMTT(30), Z3T(30) DEF IInv, PagePart
<1> QED
  BY <1>1, Inductive, PTL DEF Spec

\* The assertions with which the kernel checks itself never fail: run()'s, those
\* of check_pagetable in it, the ones of the return from a system call and the
\* memory viewer's.
THEOREM AssertsHold == Spec => []InternalAssertsHold
<1>1. IInv => InternalAssertsHold
  BY SMTT(30), Z3T(30) DEF IInv, ProcInv
<1> QED
  BY <1>1, Invariance, PTL

\* The empty set and one of a single user, counted.
LEMMA CountEmpty == Cardinality({}) = 0
<1> DEFINE F(f) == [T \in SUBSET {} |-> IF T = {} THEN 0 ELSE 1 + f[T \ {CHOOSE x : x \in T}]]
           g == [T \in SUBSET {} |-> 0]
           CS == CHOOSE f : f = F(f)
<1>1. g = F(g)
  <2>1. \A T \in SUBSET {} : T = {}
    OBVIOUS
  <2> QED
    BY <2>1, SMTT(30), Z3T(30)
<1>2. Cardinality({}) = CS[{}]
  BY Zenon DEF Cardinality
<1>3. CS = CHOOSE f : f = F(f)
  BY SMTT(30), Z3T(30)
<1> HIDE DEF CS, g
<1>4. CS = F(CS)
  BY <1>1, <1>3, ZenonT(30)
<1> DEFINE G == F(CS)
<1>5. G[{}] = 0
  OBVIOUS
<1> QED
  BY <1>2, <1>4, <1>5, SMTT(30), Z3T(30)

LEMMA CountOne == ASSUME NEW p PROVE Cardinality({p}) = 1
<1> DEFINE F(f) == [T \in SUBSET {p} |-> IF T = {} THEN 0 ELSE 1 + f[T \ {CHOOSE x : x \in T}]]
           g == [T \in SUBSET {p} |-> IF T = {} THEN 0 ELSE 1]
           CS == CHOOSE f : f = F(f)
<1>0. \A T \in SUBSET {p} : T # {} => T = {p} /\ T \ {CHOOSE x : x \in T} = {}
  <2> SUFFICES ASSUME NEW T \in SUBSET {p}, T # {} PROVE T = {p} /\ T \ {CHOOSE x : x \in T} = {}
    BY SMTT(30), Z3T(30)
  <2>1. T = {p}
    OBVIOUS
  <2>2. (CHOOSE x : x \in T) \in T
    BY Zenon
  <2> QED
    BY <2>1, <2>2, SMTT(30), Z3T(30)
<1>1. g = F(g)
  BY <1>0, SMTT(30), Z3T(30)
<1>2. Cardinality({p}) = CS[{p}]
  BY Zenon DEF Cardinality
<1>3. CS = CHOOSE f : f = F(f)
  BY SMTT(30), Z3T(30)
<1> HIDE DEF CS, g
<1>4. CS = F(CS)
  BY <1>1, <1>3, ZenonT(30)
<1> DEFINE G == F(CS)
<1>5. G[{}] = 0 /\ {} \in SUBSET {p} /\ {p} \in SUBSET {p}
  BY SMTT(30), Z3T(30)
<1>6. G[{p}] = 1 + CS[{}]
  BY <1>0, ZenonT(30)
<1> QED
  BY <1>2, <1>4, <1>5, <1>6, SMTT(60), Z3T(60)

\* Every reference count is the number of the page's users, and no page has
\* two of them.
THEOREM PagesCounted == Spec => []RefcountCountsUses
<1>1. IInv => RefcountCountsUses
  <2>1. \A p : Cardinality({p}) = 1
    BY CountOne, SMTT(30), Z3T(30)
  <2> QED
    BY <2>1, CountEmpty, ZenonT(30) DEF IInv, PageInv, RefcountCountsUses
<1> QED
  BY <1>1, Invariance, PTL

\* kalloc's single pass never leaves a free page behind.
THEOREM KallocComplete == Spec => []NothingSkipped
<1>1. IInv => NothingSkipped
  BY SMTT(30), Z3T(30) DEF IInv
<1> QED
  BY <1>1, Invariance, PTL

\* Processes have their memory to themselves.
THEOREM Isolation == Spec => []MemoryOfProcesses
<1>1. IInv => MemoryOfProcesses
  BY SMTT(30), Z3T(30) DEF IInv
<1> QED
  BY <1>1, Invariance, PTL

\* User code reaches nothing but the console and pages of processes.
THEOREM UserReach == Spec => []UserPages
<1>1. IInv => UserPages
  BY DEF IInv
<1> QED
  BY <1>1, Invariance, PTL

\* A faulted process never runs again before the next boot.
THEOREM FaultIsFinal == Spec => FaultedStaysFaulted
<1>1. ASSUME IInv, [Next]_vars
      PROVE  [\A p \in Pids : state[p] = P_FAULTED =>
                \/ mode' = "boot"
                \/ state'[p] = P_FAULTED /\ ~(mode' = "user" /\ current' = p)]_vars
  <2> SUFFICES ASSUME NEW p \in Pids, state[p] = P_FAULTED, mode' # "boot", Next
               PROVE  state'[p] = P_FAULTED /\ ~(mode' = "user" /\ current' = p)
    BY <1>1, ZenonT(30)
  <2>1. TypeOK /\ ProcInv /\ ProcInv'
    BY <1>1, Inductive, SMTT(30), Z3T(30) DEF IInv
  <2>2. state'[p] = P_FAULTED
    <3>1. CASE KernelStartSetup
      <4>1. PICK got : Claims(Head(todo).pid, Head(todo).name, got)
        BY <3>1, SetupClaims, ZenonT(30) DEF KernelStartSetup
      <4>2. mode = "boot"
        BY <3>1, SMTT(30), Z3T(30) DEF KernelStartSetup
      <4> QED
        BY <4>1, <4>2, ZenonT(30) DEF Claims
    <3>2. CASE HandlePageFault
      BY <2>1, <3>2, ZenonT(30) DEF HandlePageFault, TypeOK, ProcTypes
    <3>3. CASE \E key \in Keys : Keypress(key)
      BY <3>3, ZenonT(30) DEF Keypress, SoftReboot, procvars
    <3>4. CASE TimerInterrupt \/ UserStep
      BY <3>4, <2>1, EnterProc, ZenonT(30) DEF TimerInterrupt, UserStep, PageFault, OtherException, Syscall
    <3>5. CASE KernelStep /\ ~KernelStartSetup /\ ~HandlePageFault
      <4>1. state' = state
        <5>1. Stops \/ Returns \/ TakesPage \/ KernelStartRun \/ HandleTimer \/ SysYield \/ ScheduleSpin
          BY <2>1, <3>5, PanicEnds, CallEnds, PageAllocEnds, ZenonT(30) DEF KernelStep
        <5> QED
          BY <5>1, ZenonT(30) DEF Stops, Returns, TakesPage, KernelStartRun, HandleTimer, SysYield,
             ScheduleSpin, procvars
      <4> QED
        BY <4>1, SMTT(30), Z3T(30)
    <3> QED
      BY <3>1, <3>2, <3>3, <3>4, <3>5, ZenonT(30) DEF Next
  <2>3. mode' = "user" => state'[current'] = P_RUNNABLE
    BY <2>1, ZenonT(30) DEF ProcInv
  <2> QED
    BY <2>2, <2>3, SMTT(60), Z3T(60) DEF P_RUNNABLE, P_FAULTED
<1> QED
  BY <1>1, Invariance, PTL DEF Spec, FaultedStaysFaulted

-----------------------------------------------------------------------------
(* schedule() implements round-robin *)

\* While schedule() scans, no slot it has passed since current is runnable.
SpinInv ==
  mode = "sched" /\ pid # current =>
    \A q \in Pids : q = pid \/ q \in RR!Between(current, pid) => state[q] # P_RUNNABLE

ready == {p \in Pids \ {0} : state[p] = P_RUNNABLE}

-----------------------------------------------------------------------------
\* The slot after p, with the wrap at the end of the table.
LEMMA NextSlot ==
  ASSUME NEW p \in Pids
  PROVE  (p + 1) % NPROC = IF p = NPROC - 1 THEN 0 ELSE p + 1
BY TableAssumption, SMTT(30), Z3T(30) DEF Pids

\* One more slot of the scan: what it has passed before (p + 1) % NPROC is p
\* and what it had passed before p, and nothing when it starts at p.
LEMMA BetweenStep ==
  ASSUME NEW c \in Pids, NEW p \in Pids, NEW q \in RR!Between(c, (p + 1) % NPROC)
  PROVE  p # c /\ (q = p \/ q \in RR!Between(c, p))
<1> DEFINE n == IF p = NPROC - 1 THEN 0 ELSE p + 1
<1>1. q \in RR!Between(c, n)
  BY NextSlot, SMTT(30), Z3T(30)
<1>2. CASE p = NPROC - 1
  <2>1. q \in c + 1 .. NPROC - 1 \/ q \in 0 .. -1
    BY <1>1, <1>2, TableAssumption, SMTT(60), Z3T(60) DEF RR!Between, Pids
  <2> QED
    BY <1>2, <2>1, TableAssumption, SMTT(60), Z3T(60) DEF RR!Between, Pids
<1>3. CASE p # NPROC - 1
  BY <1>1, <1>3, TableAssumption, SMTT(60), Z3T(60) DEF RR!Between, Pids
<1> QED
  BY <1>2, <1>3, SMTT(30), Z3T(30)

\* The scan's invariant is preserved.
LEMMA SpinInductive == IInv /\ SpinInv /\ [Next]_vars => SpinInv'
<1> SUFFICES ASSUME IInv, SpinInv, [Next]_vars, mode' = "sched", pid' # current',
                    NEW q \in Pids, q = pid' \/ q \in RR!Between(current', pid')
             PROVE  state'[q] # P_RUNNABLE
  BY ZenonT(30) DEF SpinInv, RR!Between
<1>1. CASE ScheduleSpin
  <2> DEFINE next == (pid + 1) % NPROC
  <2>1. /\ mode = "sched" /\ pid' = next /\ state' = state /\ current' = current
        /\ state[next] # P_RUNNABLE
    BY <1>1, ZenonT(30) DEF ScheduleSpin, Run, Fail, procvars
  <2>2. current \in Pids /\ pid \in Pids
    BY SMTT(30), Z3T(30) DEF IInv, TypeOK, CpuTypes
  <2>3. q = next \/ (pid # current /\ (q = pid \/ q \in RR!Between(current, pid)))
    <3>1. q = next \/ q \in RR!Between(current, next)
      BY <2>1, ZenonT(30)
    <3> QED
      BY <2>2, <3>1, BetweenStep, ZenonT(30)
  <2> QED
    BY <2>1, <2>3, ZenonT(30) DEF SpinInv
<1>2. CASE HandleTimer \/ HandlePageFault \/ SysYield
  BY <1>2, ZenonT(30) DEF HandleTimer, HandlePageFault, SysYield, Schedule
<1>3. CASE UNCHANGED vars
  BY <1>3, ZenonT(30) DEF vars, SpinInv
<1>4. CASE KernelStartSetup
  <2>1. PICK got : Claims(Head(todo).pid, Head(todo).name, got)
    BY <1>4, SetupClaims, ZenonT(30) DEF KernelStartSetup
  <2> QED
    BY <1>4, <2>1, ZenonT(30) DEF KernelStartSetup, Claims
<1>5. CASE TimerInterrupt \/ UserStep
  BY <1>5, ZenonT(30) DEF TimerInterrupt, UserStep, PageFault, OtherException, Syscall, Enter, Memshow, Fail
<1>6. CASE \E key \in Keys : Keypress(key)
  BY <1>6, ZenonT(30) DEF Keypress, SoftReboot
<1>7. CASE KernelStartRun \/ HandlePanic \/ SysGetpid \/ syscall_page_alloc \/ SysGetsysname
           \/ syscall_spawn \/ syscall_pipewrite \/ syscall_piperead
  <2>1. KernelStartRun \/ Stops \/ Returns \/ TakesPage
    BY <1>7, PanicEnds, CallEnds, PageAllocEnds, ZenonT(30) DEF IInv
  <2> QED
    BY <2>1, ZenonT(30) DEF KernelStartRun, Stops, Returns, TakesPage, Run, Return, Fail
<1> QED
  BY <1>1, <1>2, <1>3, <1>4, <1>5, <1>6, <1>7, ZenonT(30) DEF Next, KernelStep

-----------------------------------------------------------------------------
(* Steps of the kernel as steps of RoundRobin *)

running == mode \in {"user", "trap"}

\* A step that changes none of what RoundRobin sees.
LEMMA Stutter ==
  ASSUME ready' = ready, current' = current, running' = running
  PROVE  UNCHANGED RR!rrvars
BY ZenonT(30) DEF RR!rrvars, ready, running

\* The running process loses the CPU.
LEMMA LosesCpu ==
  ASSUME running, ~running', current' = current, ready' \in {ready, ready \ {current}}
  PROVE  RR!RRNext
<1>1. RR!Relinquish
  BY SMTT(60), Z3T(60) DEF RR!Relinquish, ready, running
<1> QED
  BY <1>1, SMTT(30), Z3T(30) DEF RR!RRNext

\* The CPU goes to p, and nothing ready lies between current and p.
LEMMA GetsCpu ==
  ASSUME ~running, running', NEW p \in Pids \ {0}, state[p] = P_RUNNABLE, current' = p,
         ready' = ready, \A q \in RR!Between(current, p) : q \notin ready
  PROVE  RR!RRNext
<1>1. p \in RR!Procs
  BY TableAssumption, SMTT(30), Z3T(30) DEF Pids, RR!Procs
<1>2. RR!Dispatch(p)
  BY Zenon DEF RR!Dispatch, ready, running
<1> QED
  BY <1>1, <1>2, SMTT(30), Z3T(30) DEF RR!RRNext

\* A process is made ready.
LEMMA IsMadeReady ==
  ASSUME NEW p \in RR!Procs, RR!Admit(p)
  PROVE  RR!RRNext
BY SMTT(30), Z3T(30) DEF RR!RRNext

\* A trap's entry is invisible, unless it stops the machine.
LEMMA EnterRefines ==
  ASSUME IInv, NEW t, NEW reg, Enter(t, reg)
  PROVE  [RR!RRNext]_(RR!rrvars)
<1>1. mode = "user" /\ mode' \in {"trap", "fail"} /\ UNCHANGED <<state, current>>
  BY ZenonT(30) DEF Enter, Memshow, Fail, procvars
<1>2. CASE mode' = "trap"
  BY <1>1, <1>2, Stutter, SMTT(30), Z3T(30) DEF ready, running
<1>3. CASE mode' = "fail"
  BY <1>1, <1>3, LosesCpu, SMTT(30), Z3T(30) DEF ready, running
<1> QED
  BY <1>1, <1>2, <1>3, SMTT(30), Z3T(30)

\* A return from a system call is invisible.
LEMMA ReturnRefines ==
  ASSUME IInv, mode = "trap", NEW value, Return(value), UNCHANGED <<state, current>>
  PROVE  [RR!RRNext]_(RR!rrvars)
<1>1. mode' = "user"
  BY ZenonT(30) DEF Return, IInv, ProcInv
<1> QED
  BY <1>1, Stutter, SMTT(30), Z3T(30) DEF ready, running

\* A handler that stops the machine takes the CPU from its process.
LEMMA StopsRefines ==
  ASSUME Stops
  PROVE  [RR!RRNext]_(RR!rrvars)
<1>1. mode = "trap" /\ mode' = "fail" /\ UNCHANGED <<state, current>>
  BY ZenonT(30) DEF Stops
<1> QED
  BY <1>1, LosesCpu, SMTT(30), Z3T(30) DEF ready, running

\* process_setup makes its process ready, or stops the boot.
LEMMA SetupRefines ==
  ASSUME IInv, KernelStartSetup
  PROVE  [RR!RRNext]_(RR!rrvars)
<1>1. PICK p \in {1, 2} : p = Head(todo).pid
  <2>1. todo \in Seq(Setups) /\ todo # <<>>
    BY ZenonT(30) DEF KernelStartSetup, IInv, TypeOK, ProcTypes
  <2>2. Head(todo) \in Setups
    BY <2>1, SMTT(30), Z3T(30)
  <2> QED
    BY <2>2, SMTT(30), Z3T(30) DEF Setups
<1>2. PICK got : Claims(p, Head(todo).name, got)
  BY <1>1, SetupClaims, ZenonT(30) DEF KernelStartSetup
<1>3. mode = "boot" /\ current = 0 /\ current' = 0
  BY ZenonT(30) DEF KernelStartSetup, IInv, ProcInv
<1>4. CASE state' = [state EXCEPT ![p] = P_RUNNABLE] /\ mode' = mode
  <2>1. ready' = ready \cup {p}
    <3>1. p \in Pids \ {0}
      BY PidFacts, SMTT(30), Z3T(30)
    <3> QED
      BY <1>4, <3>1, ZenonT(30) DEF ready, IInv, TypeOK, ProcTypes
  <2>2. RR!Admit(p)
    BY <1>3, <1>4, <2>1, SMTT(30), Z3T(30) DEF RR!Admit, ready, running
  <2>3. p \in RR!Procs
    BY TableAssumption, SMTT(30), Z3T(30) DEF RR!Procs
  <2> QED
    BY <2>2, <2>3, IsMadeReady, SMTT(30), Z3T(30)
<1>5. CASE state' = state /\ mode' = "fail"
  BY <1>3, <1>5, Stutter, SMTT(30), Z3T(30) DEF ready, running
<1> QED
  BY <1>2, <1>4, <1>5, ZenonT(30) DEF Claims

\* Every step of the kernel is a step of RoundRobin or invisible there.
LEMMA StepRefines == IInv /\ SpinInv /\ [Next]_vars => [RR!RRNext]_(RR!rrvars)
<1> SUFFICES ASSUME IInv, SpinInv, [Next]_vars PROVE [RR!RRNext]_(RR!rrvars)
  BY SMTT(30), Z3T(30)
<1> USE DEF procvars
<1>1. CASE KernelStartSetup
  BY <1>1, SetupRefines, SMTT(30), Z3T(30)
<1>2. CASE KernelStartRun
  <2>1. state[1] = P_RUNNABLE /\ mode = "boot" /\ current = 0 /\ state' = state
    BY <1>2, ZenonT(30) DEF KernelStartRun, IInv, ProcInv
  <2>2. mode' = "user" /\ current' = 1
    BY <1>2, <2>1, RunFacts, PidFacts, ZenonT(30) DEF KernelStartRun, IInv
  <2>3. 1 \in Pids \ {0} /\ RR!Between(0, 1) = {}
    BY PidFacts, SMTT(30), Z3T(30) DEF RR!Between
  <2> QED
    BY <2>1, <2>2, <2>3, GetsCpu, SMTT(30), Z3T(30) DEF ready, running
<1>3. CASE HandleTimer \/ SysYield
  <2>1. mode = "trap" /\ mode' = "sched" /\ UNCHANGED <<state, current>>
    BY <1>3, SMTT(30), Z3T(30) DEF HandleTimer, SysYield, Handling, Schedule
  <2> QED
    BY <2>1, LosesCpu, SMTT(30), Z3T(30) DEF ready, running
<1>4. CASE HandlePageFault
  <2>1. /\ mode = "trap" /\ mode' = "sched" /\ current' = current
        /\ state' = [state EXCEPT ![current] = P_FAULTED]
    BY <1>4, SMTT(30), Z3T(30) DEF HandlePageFault, Schedule
  <2>2. ready' = ready \ {current}
    <3>1. state \in [Pids -> {P_FREE, P_RUNNABLE, P_BLOCKED, P_FAULTED}]
      BY ZenonT(30) DEF IInv, TypeOK, ProcTypes
    <3>2. \A q \in Pids : state'[q] = P_RUNNABLE <=> state[q] = P_RUNNABLE /\ q # current
      BY <2>1, <3>1, SMTT(30), Z3T(30) DEF P_FREE, P_BLOCKED, P_FAULTED, P_RUNNABLE
    <3> QED
      BY <3>2, SMTT(30), Z3T(30) DEF ready
  <2> QED
    BY <2>1, <2>2, LosesCpu, SMTT(30), Z3T(30) DEF running
<1>5. CASE HandlePanic
  BY <1>5, PanicEnds, StopsRefines, ZenonT(30)
<1>6. CASE SysGetpid \/ SysGetsysname \/ syscall_spawn \/ syscall_pipewrite \/ syscall_piperead
  <2>1. CASE Returns
    BY <2>1, ReturnRefines, ZenonT(30) DEF Returns
  <2> QED
    BY <1>6, <2>1, CallEnds, StopsRefines, ZenonT(30) DEF IInv
<1>7. CASE syscall_page_alloc
  <2>1. CASE TakesPage
    BY <2>1, ReturnRefines, ZenonT(30) DEF TakesPage
  <2> QED
    BY <1>7, <2>1, PageAllocEnds, StopsRefines, ZenonT(30)
<1>8. CASE ScheduleSpin
  <2> DEFINE next == (pid + 1) % NPROC
  <2>1. mode = "sched" /\ state' = state /\ current \in Pids /\ pid \in Pids
    BY <1>8, ZenonT(30) DEF ScheduleSpin, IInv, TypeOK, CpuTypes
  <2>2. CASE state[next] # P_RUNNABLE
    BY <1>8, <2>1, <2>2, Stutter, ZenonT(30) DEF ScheduleSpin, ready, running
  <2>3. CASE state[next] = P_RUNNABLE
    <3>1. mode' = "user" /\ current' = next
      <4>1. Run(next) /\ TableInv /\ next \in Pids
        BY <1>8, <2>1, <2>3, PidFacts, ZenonT(30) DEF ScheduleSpin, IInv
      <4> QED
        BY <2>3, <4>1, RunFacts, ZenonT(30)
    <3>2. next \in Pids \ {0}
      BY <2>1, <2>3, PidFacts, SMTT(60), Z3T(60) DEF IInv, ProcInv, P_FREE, P_RUNNABLE
    <3>3. \A q \in RR!Between(current, next) : q \notin ready
      BY <2>1, BetweenStep, SMTT(30), Z3T(30) DEF SpinInv, ready
    <3> HIDE DEF next
    <3> QED
      BY <2>1, <2>3, <3>1, <3>2, <3>3, GetsCpu, SMTT(30), Z3T(30) DEF ready, running
  <2> QED
    BY <2>2, <2>3, SMTT(30), Z3T(30)
<1>9. CASE TimerInterrupt \/ UserStep
  BY <1>9, EnterRefines, ZenonT(30) DEF TimerInterrupt, UserStep, PageFault, OtherException, Syscall
<1>10. ASSUME NEW key \in Keys, Keypress(key) PROVE [RR!RRNext]_(RR!rrvars)
  <2>1. CASE key = "q"
    <3>1. mode' = "off" /\ UNCHANGED <<state, current>>
      BY <1>10, <2>1, SMTT(30), Z3T(30) DEF Keypress
    <3>2. CASE running
      BY <3>1, <3>2, LosesCpu, SMTT(30), Z3T(30) DEF ready, running
    <3>3. CASE ~running
      BY <3>1, <3>3, Stutter, SMTT(30), Z3T(30) DEF ready, running
    <3> QED
      BY <3>2, <3>3, SMTT(30), Z3T(30)
  <2>2. CASE key # "q"
    <3>1. mode' = "boot" /\ current' = 0 /\ state' = Free
      BY <1>10, <2>2, ZenonT(30) DEF Keypress, SoftReboot
    <3>2. ready' = {}
      BY <3>1, BootProc, SMTT(30), Z3T(30) DEF ready, P_FREE, P_RUNNABLE
    <3>3. RR!Restart
      BY <3>1, <3>2, SMTT(30), Z3T(30) DEF RR!Restart, ready
    <3> QED
      BY <3>3, SMTT(30), Z3T(30) DEF RR!RRNext
  <2> QED
    BY <2>1, <2>2, SMTT(30), Z3T(30)
<1>11. CASE UNCHANGED vars
  BY <1>11, Stutter, ZenonT(30) DEF vars, ready, running
<1> QED
  BY <1>1, <1>2, <1>3, <1>4, <1>5, <1>6, <1>7, <1>8, <1>9, <1>10, <1>11, SMTT(30), Z3T(30) DEF Next, KernelStep

\* The kernel schedules round-robin, whatever traps, faults and reboots happen.
THEOREM SchedulesRoundRobin == Spec => ImplementsRoundRobin
<1>1. Init => IInv /\ SpinInv /\ RR!RRInit
  <2>1. Init => IInv
    BY InitType, BootInv DEF IInv, PagePart
  <2>2. Init => SpinInv
    BY SMTT(30), Z3T(30) DEF Init, SpinInv
  <2>3. Init => RR!RRInit
    BY BootProc, SMTT(30), Z3T(30) DEF Init, RR!RRInit, P_FREE, P_RUNNABLE
  <2> QED
    BY <2>1, <2>2, <2>3, SMTT(30), Z3T(30)
<1>2. IInv /\ SpinInv /\ [Next]_vars => (IInv /\ SpinInv)' /\ [RR!RRNext]_(RR!rrvars)
  BY Inductive, SpinInductive, StepRefines, SMTT(30), Z3T(30)
<1> QED
  BY <1>1, <1>2, PTL DEF Spec, ImplementsRoundRobin, RR!RRSpec

-----------------------------------------------------------------------------
(* What RoundRobin promises, and so of the kernel.  Its ready is the set of *)
(* runnable processes, its cpu is current, and its running says that the    *)
(* mode is user or trap.                                                    *)

RRInv == RR!RRTypeOK /\ RR!OnlyReadyRuns

\* Slot 0, which no process occupies, is a slot.
LEMMA SlotZero == 0 \in RR!Slots
BY TableAssumption, SMTT(30), Z3T(30) DEF RR!Slots

\* The types and OnlyReadyRuns form an inductive invariant of the dispatcher.
LEMMA RRInvInductive == RRInv /\ [RR!RRNext]_(RR!rrvars) => RRInv'
<1> SUFFICES ASSUME RRInv, [RR!RRNext]_(RR!rrvars) PROVE RRInv'
  OBVIOUS
<1> USE DEF RRInv, RR!RRTypeOK, RR!OnlyReadyRuns
<1>1. ASSUME NEW p \in RR!Procs, RR!Admit(p) PROVE RRInv'
  BY <1>1, SMTT(30), Z3T(30) DEF RR!Admit
<1>2. ASSUME NEW p \in RR!Procs, RR!Dispatch(p) PROVE RRInv'
  BY <1>2, TableAssumption, SMTT(30), Z3T(30) DEF RR!Dispatch, RR!Slots, RR!Procs
<1>3. CASE RR!Relinquish
  BY <1>3, SMTT(30), Z3T(30) DEF RR!Relinquish
<1>4. CASE RR!Restart
  BY <1>4, SlotZero, Zenon DEF RR!Restart
<1>5. CASE UNCHANGED RR!rrvars
  BY <1>5, SMTT(30), Z3T(30) DEF RR!rrvars
<1> QED
  BY <1>1, <1>2, <1>3, <1>4, <1>5, SMTT(30), Z3T(30) DEF RR!RRNext

\* The invariant holds in every reachable state.
LEMMA RRInvariance == RR!RRSpec => []RRInv
<1>1. RR!RRInit => RRInv
  BY SlotZero, Zenon DEF RR!RRInit, RRInv, RR!RRTypeOK, RR!OnlyReadyRuns
<1> QED
  BY <1>1, RRInvInductive, PTL DEF RR!RRSpec

\* The scheduler's state is a set of slots and a slot, for every NPROC.
THEOREM RRTypes == RR!RRSpec => []RR!RRTypeOK
<1>1. RRInv => RR!RRTypeOK
  BY SMTT(30), Z3T(30) DEF RRInv
<1> QED
  BY <1>1, RRInvariance, PTL

\* Whoever holds the CPU is ready, for every NPROC.
THEOREM RRSafety == RR!RRSpec => []RR!OnlyReadyRuns
<1>1. RRInv => RR!OnlyReadyRuns
  BY SMTT(30), Z3T(30) DEF RRInv
<1> QED
  BY <1>1, RRInvariance, PTL

\* A scan that starts after c and meets q first comes closer to every other
\* slot p that it has still to visit.
LEMMA ScanCloser ==
  ASSUME NEW c \in RR!Slots, NEW p \in RR!Slots, NEW q \in RR!Slots,
         p # q, p \notin RR!Between(c, q)
  PROVE  RR!Dist(q, p) < RR!Dist(c, p)
BY TableAssumption, SMTT(30), Z3T(30) DEF RR!Slots, RR!Between, RR!Dist

\* Bounded waiting for every NPROC: each dispatch of another process brings a
\* waiting ready process closer to the CPU.
THEOREM BoundedWaiting == RR!RRSpec => RR!Overtaking
<1>1. ASSUME RR!RRTypeOK, [RR!RRNext]_(RR!rrvars)
      PROVE  [\A p \in ready : (~running /\ running' /\ current' # p)
                 => RR!Dist(current', p) < RR!Dist(current, p)]_(RR!rrvars)
  <2> SUFFICES ASSUME NEW p \in ready, ~running, running', current' # p
               PROVE  RR!Dist(current', p) < RR!Dist(current, p)
    BY SMTT(30), Z3T(30)
  <2>1. PICK q \in RR!Procs : RR!Dispatch(q)
    BY <1>1, SMTT(30), Z3T(30) DEF RR!RRNext, RR!rrvars, RR!Admit, RR!Relinquish, RR!Restart, running, ready
  <2>2. current' = q /\ p \notin RR!Between(current, q)
    BY <2>1, SMTT(30), Z3T(30) DEF RR!Dispatch, ready
  <2>3. current \in RR!Slots /\ p \in RR!Slots /\ q \in RR!Slots
    BY <1>1, TableAssumption, SMTT(30), Z3T(30) DEF RR!RRTypeOK, RR!Slots, RR!Procs, ready, Pids
  <2> QED
    BY <2>2, <2>3, ScanCloser, SMTT(30), Z3T(30)
<1> QED
  BY <1>1, RRTypes, PTL DEF RR!RRSpec, RR!Overtaking, ready, running

\* So it is in the kernel: each dispatch by schedule() of another process
\* brings a waiting runnable process closer, whatever traps come.
THEOREM KernelBoundsWaiting == Spec => RR!Overtaking
BY SchedulesRoundRobin, BoundedWaiting, PTL DEF ImplementsRoundRobin
=============================================================================
