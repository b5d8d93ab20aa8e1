------------------------------- MODULE Kernel -------------------------------
(***************************************************************************)
(* The WeensyOS kernel (kernels1/): process table, boot and soft reboot,   *)
(* physical pages, exceptions, system calls, the one-byte pipe, the        *)
(* round-robin scheduler, and the failure loop.  One CPU; interrupts are   *)
(* off in the kernel, so only user code (mode "user") is preempted.  User  *)
(* programs are arbitrary: any trap, any system call, at any moment.       *)
(* Addresses are page numbers.                                             *)
(***************************************************************************)
EXTENDS Integers, Sequences, FiniteSets

CONSTANTS
  NPROC,              \* slots of ptable
  NPAGES,             \* MEMSIZE_PHYSICAL / PAGESIZE
  NVPAGES,            \* MEMSIZE_VIRTUAL / PAGESIZE
  KERNEL_START_ADDR, KERNEL_END, KERNEL_STACK_TOP,
  KERNEL_PAGETABLE,   \* the page of kernel_pagetable[0]
  EXCEPTION_ENTRY,    \* the page of the code at exception_entry
  IOPHYSMEM, EXTPHYSMEM, CONSOLE_ADDR,
  PROC_START_ADDR, PROC_SIZE,
  Image,              \* program name -> pages of its segments, in load order
  FIRST_PROCESS,      \* WEENSYOS_FIRST_PROCESS, or the boot loader's command
  Keys,               \* the keys that may be typed
  show_memory,        \* the switch of kernel.cc:30
  Bytes,              \* what a program may write to the pipe
  MaxSize             \* bound on the size argument of a pipe call

P_FREE     == 0
P_RUNNABLE == 1
P_BLOCKED  == 2
P_FAULTED  == 3

SYSCALL_GETPID     == 1
SYSCALL_YIELD      == 2
SYSCALL_PANIC      == 3
SYSCALL_PAGE_ALLOC == 4
SYSCALL_GETSYSNAME == 5
SYSCALL_SPAWN      == 6
SYSCALL_PIPEWRITE  == 7
SYSCALL_PIPEREAD   == 8
UnknownSyscall     == 9

Pids  == 0 .. NPROC - 1
Pages == 0 .. NPAGES - 1
VPages == 0 .. NVPAGES - 1
Names == DOMAIN Image

ASSUME TableAssumption == NPROC \in Nat /\ NPROC >= 3

ASSUME LayoutAssumption ==
  /\ {NPAGES, NVPAGES, KERNEL_START_ADDR, KERNEL_END, KERNEL_STACK_TOP, IOPHYSMEM,
      EXTPHYSMEM, CONSOLE_ADDR, PROC_START_ADDR, PROC_SIZE} \subseteq Nat
  /\ 0 < KERNEL_START_ADDR
  /\ IOPHYSMEM <= CONSOLE_ADDR /\ CONSOLE_ADDR < EXTPHYSMEM
  /\ EXTPHYSMEM <= PROC_START_ADDR
  /\ PROC_SIZE > 0
  /\ PROC_START_ADDR + 2 * PROC_SIZE <= NPAGES /\ NPAGES <= NVPAGES
  /\ KERNEL_END <= NPAGES
  /\ {KERNEL_PAGETABLE, EXCEPTION_ENTRY} \subseteq KERNEL_START_ADDR .. KERNEL_END - 1

ASSUME ImageAssumption ==
  /\ Image \in [Names -> Seq(Nat)]
  /\ {"alice", "eve", "pipewriter", "pipereader"} \subseteq Names

ASSUME InputAssumption ==
  /\ Keys \subseteq {"a", "f", "1", "2", "p", "s", "q"}
  /\ show_memory \in BOOLEAN
  /\ MaxSize \in Nat

VARIABLES
  mode,        \* "boot", "user", "trap", "sched", "fail" or "off"
  todo,        \* the process_setup calls kernel_start has still to make
  state,       \* ptable[].state
  prog,        \* the program loaded in each slot ("" for none)
  pagetable,   \* ptable[].pagetable, 0 for nullptr
  regs,        \* ptable[].regs.reg_rax
  current,     \* pid of current, 0 for nullptr
  rax,         \* the CPU's %rax while a process runs
  trap,        \* the trap being handled
  pid,         \* the local variable of schedule()
  refcount,    \* physpages[].refcount
  next_alloc_pa,
  v_,          \* memusage::v_, the memory viewer's page, 0 for nullptr
  mapping,     \* the page kernel_pagetable maps each page to, or Unmapped
  useracc,     \* the pages kernel_pagetable maps with PTE_U
  pipebuf, pipebuf_len,
  users,       \* ghost: who uses each page: a pid, or 0 for the kernel
  why          \* ghost: which assertion or panic led to fail()

procvars == <<state, prog, todo>>
tabvars  == <<pagetable, mapping>>
memvars  == <<refcount, next_alloc_pa, v_, useracc, users, tabvars>>
pipevars == <<pipebuf, pipebuf_len>>
vars == <<mode, todo, state, prog, regs, current, rax, trap, pid, refcount,
          next_alloc_pa, v_, useracc, users, tabvars, pipebuf, pipebuf_len, why>>

-----------------------------------------------------------------------------
(* Boot *)

\* kernel_start's choice of first processes.
StartList(command) ==
  IF command \in Names
    THEN <<[pid |-> 1, name |-> command]>>
  ELSE IF command = "pipe"
    THEN <<[pid |-> 1, name |-> "pipewriter"], [pid |-> 2, name |-> "pipereader"]>>
    ELSE <<[pid |-> 1, name |-> "alice"], [pid |-> 2, name |-> "eve"]>>

NoTrap == [kind |-> "none", nr |-> 0, page |-> 0, sz |-> 0, ch |-> 0]

Free    == [p \in Pids |-> P_FREE]
NoProg  == [p \in Pids |-> ""]
NoRegs  == [p \in Pids |-> 0]
NoTable == [p \in Pids |-> 0]
NoUse   == [g \in Pages |-> 0]
NoUsers == [g \in Pages |-> {}]

Unmapped == -1

\* What the loop of kernel_start leaves in kernel_pagetable: physical memory at
\* its own addresses, but for nullptr.
Identity == [g \in Pages |-> IF g = 0 THEN Unmapped ELSE g]

Init ==
  /\ mode = "boot" /\ todo = StartList(FIRST_PROCESS)
  /\ state = Free /\ prog = NoProg /\ regs = NoRegs
  /\ current = 0 /\ rax = 0 /\ pid = 0 /\ trap = NoTrap
  /\ refcount = NoUse /\ next_alloc_pa = 0 /\ v_ = 0
  /\ pagetable = NoTable /\ mapping = Identity /\ useracc = {CONSOLE_ADDR}
  /\ pipebuf = 0 /\ pipebuf_len = 0
  /\ users = NoUsers /\ why = "none"

\* assert_fail, panic, user_panic and fail: interrupts stay off and only the
\* keyboard is looked at.
Fail(reason) == mode' = "fail" /\ why' = reason

\* vmiter(pt, ..).pa() at page g.  kernel_pagetable is the only table there is.
Pa(pt, g) == IF pt = KERNEL_PAGETABLE /\ g \in Pages THEN mapping[g] ELSE Unmapped

\* The assertions of check_pagetable.  The first, alignment, is the type's
\* (x86_64_pagetable is page-aligned); here a table is a page.
check_pagetable(pt) ==
  /\ Pa(pt, EXCEPTION_ENTRY) = EXCEPTION_ENTRY
  /\ Pa(KERNEL_PAGETABLE, pt) = pt
  /\ Pa(pt, KERNEL_PAGETABLE) = KERNEL_PAGETABLE

\* run(p) and exception_return(p).
Run(p) ==
  IF state[p] # P_RUNNABLE
    THEN Fail("run") /\ UNCHANGED <<current, rax>>
  ELSE IF ~check_pagetable(pagetable[p])
    THEN Fail("check_pagetable") /\ current' = p /\ UNCHANGED rax
    ELSE mode' = "user" /\ current' = p /\ rax' = regs[p] /\ UNCHANGED why

Region(p) == PROC_START_ADDR + (p - 1) * PROC_SIZE
               .. PROC_START_ADDR + p * PROC_SIZE - 1

StackPage(p) == PROC_START_ADDR + p * PROC_SIZE - 1

\* The pages process_setup claims, in its order: the segments', then the stack.
Footprint(p, name) == Append(Image[name], StackPage(p))

\* The assertions at the i-th page, after pages 1..i-1 were claimed.
CanClaim(p, fp, i) ==
  /\ fp[i] \in Region(p)
  /\ refcount[fp[i]] = 0
  /\ \A j \in 1 .. i - 1 : fp[j] # fp[i]

\* The loops of process_setup got as far as page n of the footprint.
Claimed(p, fp, n) ==
  /\ \A i \in 1 .. n : CanClaim(p, fp, i)
  /\ n < Len(fp) => ~CanClaim(p, fp, n + 1)

\* Mutant of ProcessSetup: the stack page is not mapped PTE_U.
ProcessSetupNoStack(p, name) ==
  LET fp == Footprint(p, name)
      got == {fp[i] : i \in 1 .. Len(fp)} IN
  /\ Claimed(p, fp, Len(fp))
  /\ refcount' = [g \in Pages |-> IF g \in got THEN refcount[g] + 1 ELSE refcount[g]]
  /\ users' = [g \in Pages |-> IF g \in got THEN users[g] \cup {p} ELSE users[g]]
  /\ useracc' = useracc \cup (got \ {StackPage(p)})
  /\ pagetable' = [pagetable EXCEPT ![p] = KERNEL_PAGETABLE]
  /\ mapping' = [g \in Pages |-> IF g \in got THEN g ELSE mapping[g]]
  /\ regs' = [regs EXCEPT ![p] = 0]
  /\ state' = [state EXCEPT ![p] = P_RUNNABLE]
  /\ prog' = [prog EXCEPT ![p] = name]
  /\ UNCHANGED <<mode, why>>

ProcessSetup(p, name) ==
  LET fp == Footprint(p, name) IN
  \E n \in 0 .. Len(fp) :
    LET got == {fp[i] : i \in 1 .. n} IN
    /\ Claimed(p, fp, n)
    /\ refcount' = [g \in Pages |-> IF g \in got THEN refcount[g] + 1 ELSE refcount[g]]
    /\ users' = [g \in Pages |-> IF g \in got THEN users[g] \cup {p} ELSE users[g]]
    /\ pagetable' = [pagetable EXCEPT ![p] = KERNEL_PAGETABLE]
    /\ mapping' = [g \in Pages |-> IF g \in got THEN g ELSE mapping[g]]
    /\ useracc' = useracc \cup got
    /\ regs' = [regs EXCEPT ![p] = 0]
    /\ IF n = Len(fp)
         THEN /\ state' = [state EXCEPT ![p] = P_RUNNABLE]
              /\ prog' = [prog EXCEPT ![p] = name]
              /\ UNCHANGED <<mode, why>>
         ELSE Fail("process_setup") /\ UNCHANGED <<state, prog>>

KernelStartSetup ==
  /\ mode = "boot" /\ todo # <<>>
  /\ ProcessSetup(Head(todo).pid, Head(todo).name)
  /\ todo' = Tail(todo)
  /\ UNCHANGED <<current, rax, trap, pid, next_alloc_pa, v_, pipevars>>

KernelStartRun ==
  /\ mode = "boot" /\ todo = <<>>
  /\ Run(1)
  /\ UNCHANGED <<procvars, regs, trap, pid, memvars, pipevars>>

-----------------------------------------------------------------------------
(* Physical pages *)

reserved_physical_address(pa) == pa < 1 \/ (pa >= IOPHYSMEM /\ pa < EXTPHYSMEM)

allocatable_physical_address(pa) ==
  /\ ~reserved_physical_address(pa)
  /\ pa < KERNEL_START_ADDR \/ pa >= KERNEL_END
  /\ pa < KERNEL_STACK_TOP - 1 \/ pa >= KERNEL_STACK_TOP
  /\ pa < NPAGES

\* Mutant of Allocable: kalloc does not look at the reference count.
AllocableAnyway(pa) == allocatable_physical_address(pa)

Allocable(pa) == allocatable_physical_address(pa) /\ refcount[pa] = 0

\* Mutant of Kalloc: next_alloc_pa is advanced once more on success.
KallocTwoSteps(g) ==
  /\ g >= next_alloc_pa /\ Allocable(g)
  /\ \A h \in Pages : h >= next_alloc_pa /\ h < g => ~Allocable(h)
  /\ next_alloc_pa' = g + 2
  /\ refcount' = [refcount EXCEPT ![g] = @ + 1]
  /\ users' = [users EXCEPT ![g] = @ \cup {0}]

\* kalloc(PAGESIZE) returns page g.
Kalloc(g) ==
  /\ g >= next_alloc_pa /\ Allocable(g)
  /\ \A h \in Pages : h >= next_alloc_pa /\ h < g => ~Allocable(h)
  /\ next_alloc_pa' = g + 1
  /\ refcount' = [refcount EXCEPT ![g] = @ + 1]
  /\ users' = [users EXCEPT ![g] = @ \cup {0}]

\* kalloc(PAGESIZE) returns nullptr.
KallocFails ==
  /\ \A h \in Pages : h >= next_alloc_pa => ~Allocable(h)
  /\ next_alloc_pa' = IF next_alloc_pa < NPAGES THEN NPAGES ELSE next_alloc_pa
  /\ UNCHANGED <<refcount, users>>

\* memshow(): what the memory viewer changes in the kernel is its own page,
\* allocated when it is first shown.
Memshow ==
  IF ~show_memory \/ v_ # 0
    THEN mode' = "trap" /\ UNCHANGED <<why, v_, refcount, users, next_alloc_pa>>
  ELSE IF state[0] # P_FREE
    THEN Fail("memviewer") /\ UNCHANGED <<v_, refcount, users, next_alloc_pa>>
  ELSE \/ \E g \in Pages : Kalloc(g) /\ v_' = g /\ mode' = "trap" /\ UNCHANGED why
       \/ KallocFails /\ Fail("nomem") /\ UNCHANGED v_

-----------------------------------------------------------------------------
(* Traps *)

\* exception() and syscall() up to their switch: registers saved, memory
\* shown.  The keyboard check that follows is Keypress.
Enter(t, reg) ==
  /\ mode = "user"
  /\ trap' = t
  /\ regs' = [regs EXCEPT ![current] = reg]
  /\ Memshow
  /\ UNCHANGED <<procvars, current, rax, pid, useracc, tabvars, pipevars>>

TimerInterrupt == Enter([NoTrap EXCEPT !.kind = "timer"], rax)

\* A process touches a page it may not.
PageFault(g) == g \notin useracc /\ Enter([NoTrap EXCEPT !.kind = "fault", !.page = g], rax)

\* Any other exception or interrupt.
OtherException == Enter([NoTrap EXCEPT !.kind = "other"], rax)

Syscall(n, g, size, c) ==
  Enter([kind |-> "syscall", nr |-> n, page |-> g, sz |-> size, ch |-> c], n)

Handling(n) == mode = "trap" /\ trap.kind = "syscall" /\ trap.nr = n

\* A system call returns to its process with `value` in %rax (k-exception.S
\* checks the state again).
Return(value) ==
  IF state[current] = P_RUNNABLE
    THEN mode' = "user" /\ rax' = value /\ trap' = NoTrap /\ UNCHANGED why
    ELSE Fail("syscall_entry") /\ UNCHANGED <<rax, trap>>

\* Mutant of Schedule: the scan starts at slot 0 instead of current.
ScheduleFromZero == mode' = "sched" /\ pid' = 0 /\ trap' = NoTrap

\* The call to schedule().
Schedule == mode' = "sched" /\ pid' = current /\ trap' = NoTrap

\* Mutant of HandleTimer: the interrupted process goes on.
HandleTimerResumes ==
  /\ mode = "trap" /\ trap.kind = "timer"
  /\ Run(current) /\ trap' = NoTrap
  /\ UNCHANGED <<procvars, regs, pid, memvars, pipevars>>

HandleTimer ==
  /\ mode = "trap" /\ trap.kind = "timer"
  /\ Schedule
  /\ UNCHANGED <<procvars, regs, current, rax, memvars, pipevars, why>>

\* Mutant of HandlePageFault: runs current without looking at its state.
HandlePageFaultRuns ==
  /\ mode = "trap" /\ trap.kind = "fault"
  /\ state' = [state EXCEPT ![current] = P_FAULTED]
  /\ Fail("run")
  /\ UNCHANGED <<prog, todo, regs, current, rax, trap, pid, memvars, pipevars>>

HandlePageFault ==
  /\ mode = "trap" /\ trap.kind = "fault"
  /\ state' = [state EXCEPT ![current] = P_FAULTED]
  /\ Schedule
  /\ UNCHANGED <<prog, todo, regs, current, rax, memvars, pipevars, why>>

\* The handlers that end in fail(): any other exception, sys_panic, an unknown
\* system call.
StopsWith(reason) ==
  /\ Fail(reason)
  /\ UNCHANGED <<procvars, regs, current, rax, trap, pid, memvars, pipevars>>

UnexpectedException == mode = "trap" /\ trap.kind = "other" /\ StopsWith("exception")

SysPanic == Handling(SYSCALL_PANIC) /\ StopsWith("user_panic")

UnexpectedSyscall == Handling(UnknownSyscall) /\ StopsWith("unexpected_syscall")

\* The kernel's own access faults: exception() panics.
KernelFaults == StopsWith("kernel_fault")

HandlePanic == UnexpectedException \/ SysPanic \/ UnexpectedSyscall

SysGetpid ==
  /\ Handling(SYSCALL_GETPID)
  /\ Return(current)
  /\ UNCHANGED <<procvars, regs, current, pid, memvars, pipevars>>

SysYield ==
  /\ Handling(SYSCALL_YIELD)
  /\ regs' = [regs EXCEPT ![current] = 0]
  /\ Schedule
  /\ UNCHANGED <<procvars, current, rax, memvars, pipevars, why>>

\* Mutant of syscall_page_alloc: the assertion is dropped.
PageAllocUnchecked ==
  /\ Handling(SYSCALL_PAGE_ALLOC)
  /\ refcount' = [refcount EXCEPT ![trap.page] = @ + 1]
  /\ users' = [users EXCEPT ![trap.page] = @ \cup {current}]
  /\ Return(0)
  /\ UNCHANGED <<procvars, regs, current, pid, next_alloc_pa, v_, useracc, tabvars, pipevars>>

\* A page behind physical memory has its count behind the end of physpages:
\* whatever byte is there fails the assertion, or memset faults, for no such
\* page is mapped.
syscall_page_alloc ==
  /\ Handling(SYSCALL_PAGE_ALLOC)
  /\ \/ /\ trap.page \in Pages /\ refcount[trap.page] = 0
        /\ refcount' = [refcount EXCEPT ![trap.page] = @ + 1]
        /\ users' = [users EXCEPT ![trap.page] = @ \cup {current}]
        /\ Return(0)
        /\ UNCHANGED <<procvars, regs, current, pid, next_alloc_pa, v_, useracc, tabvars, pipevars>>
     \/ (trap.page \in Pages => refcount[trap.page] # 0) /\ StopsWith("page_alloc")
     \/ trap.page \notin Pages /\ KernelFaults

SysGetsysname ==
  /\ Handling(SYSCALL_GETSYSNAME)
  /\ \/ trap.page = 0 /\ KernelFaults
     \/ /\ trap.page # 0 /\ Return(0)
        /\ UNCHANGED <<procvars, regs, current, pid, memvars, pipevars>>

syscall_spawn ==
  /\ Handling(SYSCALL_SPAWN)
  /\ Return(-1)
  /\ UNCHANGED <<procvars, regs, current, pid, memvars, pipevars>>

\* Mutant of syscall_pipewrite: the buffer is never full.
PipewriteNeverFull ==
  /\ Handling(SYSCALL_PIPEWRITE)
  /\ \/ trap.sz = 0 /\ Return(0) /\ UNCHANGED pipevars
     \/ trap.sz # 0 /\ pipebuf' = trap.ch /\ pipebuf_len' = pipebuf_len + 1 /\ Return(1)
  /\ UNCHANGED <<procvars, regs, current, pid, memvars>>

syscall_pipewrite ==
  /\ Handling(SYSCALL_PIPEWRITE)
  /\ \/ trap.sz = 0 /\ Return(0) /\ UNCHANGED pipevars
     \/ trap.sz # 0 /\ pipebuf_len = 1 /\ Return(-1) /\ UNCHANGED pipevars
     \/ trap.sz # 0 /\ pipebuf_len # 1 /\ trap.page = 0 /\ KernelFaults
     \/ /\ trap.sz # 0 /\ pipebuf_len # 1 /\ trap.page # 0
        /\ pipebuf' = trap.ch /\ pipebuf_len' = 1
        /\ Return(1)
  /\ UNCHANGED <<procvars, regs, current, pid, memvars>>

\* The byte goes to the caller's buffer, in the caller's memory.
syscall_piperead ==
  /\ Handling(SYSCALL_PIPEREAD)
  /\ \/ trap.sz = 0 /\ Return(0) /\ UNCHANGED pipevars
     \/ trap.sz # 0 /\ pipebuf_len = 0 /\ Return(-1) /\ UNCHANGED pipevars
     \/ trap.sz # 0 /\ pipebuf_len # 0 /\ trap.page = 0 /\ KernelFaults
     \/ /\ trap.sz # 0 /\ pipebuf_len # 0 /\ trap.page # 0
        /\ pipebuf_len' = 0 /\ UNCHANGED pipebuf
        /\ Return(1)
  /\ UNCHANGED <<procvars, regs, current, pid, memvars>>

\* Mutant of ScheduleSpin: takes whatever slot is not free.
ScheduleSpinNotFree ==
  /\ mode = "sched"
  /\ LET next == (pid + 1) % NPROC IN
     /\ pid' = next
     /\ IF state[next] # P_FREE
          THEN mode' = "user" /\ current' = next /\ rax' = regs[next]
          ELSE UNCHANGED <<mode, current, rax>>
  /\ UNCHANGED <<procvars, regs, trap, memvars, pipevars, why>>

\* One iteration of the loop of schedule().  The memshow() it calls every 4096
\* spins finds v_ set: a trap came before.
ScheduleSpin ==
  /\ mode = "sched"
  /\ LET next == (pid + 1) % NPROC IN
     /\ pid' = next
     /\ IF state[next] = P_RUNNABLE
          THEN Run(next)
          ELSE UNCHANGED <<mode, current, rax, why>>
  /\ UNCHANGED <<procvars, regs, trap, memvars, pipevars>>

-----------------------------------------------------------------------------
(* check_keyboard *)

\* The command the soft reboot hands to kernel_start.
Argument(key) ==
  CASE key = "a" -> "allocators"
    [] key = "f" -> "friends"
    [] key = "1" -> "allocator"
    [] key = "2" -> "allocator2"
    [] key = "p" -> "pipe"
    [] key = "s" -> "spawn"

\* .data is restored, .bss cleared, and kernel_start runs again.  That this
\* leaves nothing of the old state behind is the subject of Reboot.tla.
SoftReboot(key) ==
  /\ mode' = "boot" /\ todo' = StartList(Argument(key))
  /\ state' = Free /\ prog' = NoProg /\ regs' = NoRegs
  /\ current' = 0 /\ rax' = 0 /\ pid' = 0 /\ trap' = NoTrap
  /\ refcount' = NoUse /\ next_alloc_pa' = 0 /\ v_' = 0
  /\ pagetable' = NoTable /\ mapping' = Identity /\ useracc' = {CONSOLE_ADDR}
  /\ pipebuf' = 0 /\ pipebuf_len' = 0
  /\ users' = NoUsers /\ why' = "none"

Keypress(key) ==
  /\ mode \in {"trap", "sched", "fail"}
  /\ IF key = "q"
       THEN mode' = "off" /\ UNCHANGED <<procvars, regs, current, rax, trap,
                                         pid, memvars, pipevars, why>>
       ELSE SoftReboot(key)

-----------------------------------------------------------------------------
\* A program's buffer: memory that the kernel may access, for which the first
\* page of the processes stands, or nullptr.
Buffers == {0, PROC_START_ADDR}

\* What a process may ask for.  Programs keep to the documented arguments
\* (u-lib.cc:22-23): page_alloc gets a page from PROC_START_ADDR on, below
\* MEMSIZE_VIRTUAL.
UserStep ==
  \/ \E g \in VPages : PageFault(g)
  \/ OtherException
  \/ \E n \in {SYSCALL_GETPID, SYSCALL_YIELD, SYSCALL_PANIC, SYSCALL_SPAWN,
               UnknownSyscall} : Syscall(n, 0, 0, 0)
  \/ \E g \in PROC_START_ADDR .. NVPAGES - 1 : Syscall(SYSCALL_PAGE_ALLOC, g, 0, 0)
  \/ \E g \in Buffers : Syscall(SYSCALL_GETSYSNAME, g, 0, 0)
  \/ \E c \in Bytes, g \in Buffers, n \in 0 .. MaxSize : Syscall(SYSCALL_PIPEWRITE, g, n, c)
  \/ \E g \in Buffers, n \in 0 .. MaxSize : Syscall(SYSCALL_PIPEREAD, g, n, 0)

KernelStep ==
  \/ KernelStartSetup \/ KernelStartRun
  \/ HandleTimer \/ HandlePageFault \/ HandlePanic
  \/ SysGetpid \/ SysYield \/ syscall_page_alloc \/ SysGetsysname \/ syscall_spawn
  \/ syscall_pipewrite \/ syscall_piperead
  \/ ScheduleSpin

Next ==
  \/ KernelStep \/ TimerInterrupt \/ UserStep
  \/ \E key \in Keys : Keypress(key)

Spec == Init /\ [][Next]_vars

\* The kernel runs on while it has something to do.  The timer's interrupt is
\* latched while interrupts are off and taken on the return to user mode, so a
\* process that keeps entering the kernel does not hold it off for ever.
FairSpec == Spec /\ WF_vars(KernelStep) /\ SF_vars(TimerInterrupt)

-----------------------------------------------------------------------------
(* Properties *)

Modes   == {"boot", "user", "trap", "sched", "fail", "off"}
Reasons == {"none", "process_setup", "run", "check_pagetable", "syscall_entry",
            "memviewer", "nomem", "exception", "user_panic", "unexpected_syscall",
            "kernel_fault", "page_alloc"}

Setups == [pid : {1, 2}, name : Names]

ProcTypes ==
  /\ todo \in Seq(Setups)
  /\ state \in [Pids -> {P_FREE, P_RUNNABLE, P_BLOCKED, P_FAULTED}]
  /\ prog \in [Pids -> Names \cup {""}]

CpuTypes ==
  /\ mode \in Modes /\ why \in Reasons
  /\ regs \in [Pids -> Int]
  /\ current \in Pids /\ rax \in Int /\ pid \in Pids

Traps == [kind : {"none", "timer", "fault", "other", "syscall"},
          nr : 0 .. UnknownSyscall, page : VPages, sz : Nat, ch : Bytes \cup {0}]

TrapTypes == trap \in Traps

MemTypes ==
  /\ refcount \in [Pages -> Nat]
  /\ next_alloc_pa \in Nat /\ v_ \in Pages
  /\ useracc \subseteq Pages
  /\ mapping \in [Pages -> Pages \cup {Unmapped}] /\ pagetable \in [Pids -> Pages]
  /\ users \in [Pages -> SUBSET Pids]

PipeTypes == pipebuf \in Bytes \cup {0} /\ pipebuf_len \in {0, 1}

\* Every variable has its type: pids in the table, page numbers in memory, a
\* pipe of one byte.
TypeOK == ProcTypes /\ CpuTypes /\ TrapTypes /\ MemTypes /\ PipeTypes

\* The kernel's checks of its own state never fail (kernel.cc:436 in run, its
\* check_pagetable at k-hardware.cc:300-308, k-exception.S:106 and 185,
\* k-memviewer.cc:238): what stops the machine is a boot image that does not
\* fit, no page for the viewer, or what a process did.
InternalAssertsHold == why \notin {"run", "check_pagetable", "syscall_entry", "memviewer"}

\* physpages[I].refcount is the number of times page I is used
\* (kernel.hh:59-60), whoever claimed it: process_setup, sys_page_alloc, kalloc.
\* And no page is ever used twice (the checks of kernel.cc:123, 168, 185, 349).
RefcountCountsUses ==
  \A g \in Pages : /\ refcount[g] = Cardinality(users[g])
                   /\ \A p, q \in users[g] : p = q

\* kalloc's single pass leaves no page behind (kernel.cc:118-128): what lies
\* below next_alloc_pa is in use or was never allocatable, so nullptr means
\* that every allocatable page is in use.
NothingSkipped ==
  \A g \in Pages : g < next_alloc_pa /\ allocatable_physical_address(g) => refcount[g] # 0

\* From the moment it is runnable until the next boot, even after a fault, a
\* process has its segments and its stack to itself and may access them
\* (kernel.cc:163-187).
MemoryOfProcesses ==
  \A p \in Pids : state[p] # P_FREE =>
    \A i \in 1 .. Len(Footprint(p, prog[p])) :
      LET g == Footprint(p, prog[p])[i] IN users[g] = {p} /\ g \in useracc

\* The only pages user code may access are the console and pages of which a
\* process is the one user (kernel.cc:61-73, 170, 187): never the kernel's,
\* never what kalloc returned, never an unused one.
UserPages ==
  \A g \in useracc : g = CONSOLE_ADDR \/
    (g >= PROC_START_ADDR /\ \E p \in Pids \ {0} : users[g] = {p})

\* A faulted process is never run or revived before the next boot
\* (kernel.cc:252, 263-267, 416).
FaultedStaysFaulted ==
  [][ \A p \in Pids : state[p] = P_FAULTED =>
        \/ mode' = "boot"
        \/ state'[p] = P_FAULTED /\ ~(mode' = "user" /\ current' = p) ]_vars

\* schedule()'s loop implements round-robin: with runnable processes as ready,
\* current as the CPU's owner, every step of the kernel is a step of RoundRobin
\* (or changes nothing there), whatever traps, faults and reboots happen.
RR == INSTANCE RoundRobin WITH
        ready <- {p \in Pids \ {0} : state[p] = P_RUNNABLE},
        cpu <- current,
        running <- mode \in {"user", "trap"}

ImplementsRoundRobin == RR!RRSpec

\* A runnable process runs, however its rivals behave: the timer takes the CPU
\* from one that never yields (kernel.cc:231-234) and the scan reaches every
\* slot.  Only a stopped machine or its own fault keeps it from running.
RunnableRuns ==
  \A p \in Pids : (state[p] = P_RUNNABLE /\ mode # "boot") ~>
    (mode = "user" /\ current = p) \/ state[p] # P_RUNNABLE \/ mode \in {"fail", "off"}

\* Every soft reboot ends with its programs loaded: the assertions of
\* process_setup hold.  check_keyboard's comment gives each key's programs
\* (k-hardware.cc:745-750).
SoftRebootLoads == why # "process_setup"
=============================================================================
