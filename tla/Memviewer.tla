------------------------------ MODULE Memviewer ------------------------------
(***************************************************************************)
(* The memory viewer (k-memviewer.cc) and memshow (kernel.cc), which draw  *)
(* the state of Kernel on the console.  A page's marks are a set: KERNEL,  *)
(* USER, and the pids it is associated with; marks that the code compares  *)
(* as numbers are compared by what they contain.  A symbol is its letter   *)
(* and the pid it names.                                                   *)
(***************************************************************************)
EXTENDS Kernel

KERNEL == -1
USER   == -2

\* The kernel's image and its stack lie below the processes (kernel.hh:38-44).
ASSUME KernelBelowAssumption ==
  KERNEL_END <= PROC_START_ADDR /\ KERNEL_STACK_TOP <= PROC_START_ADDR

\* Mutant of OwnerOf: numbers the regions from zero.
OwnerFromZero(g) == (g - PROC_START_ADDR) \div PROC_SIZE

\* The process whose region a page lies in.
OwnerOf(g) == (g - PROC_START_ADDR) \div PROC_SIZE + 1

\* refresh: kernel_pagetable[] lies in the kernel's own pages; every process
\* uses it, so owners are told by physical addresses.
Marks(g) ==
  (IF g >= KERNEL_START_ADDR /\ g < KERNEL_END THEN {KERNEL} ELSE {})
    \cup (IF g \in useracc /\ refcount[g] > 0 THEN {USER, OwnerOf(g)} ELSE {})

\* Whether v holds a mark of a process; marked_pid is the lowest one.
OfProcess(v) == v \ {KERNEL, USER} # {}
marked_pid(v) == CHOOSE p \in v \ {KERNEL, USER} : \A q \in v \ {KERNEL, USER} : p <= q

Symbol(letter, p) == <<letter, p>>

\* symbol_at, with page_error as a symbol of its own.
symbol_at(g) ==
  LET v == Marks(g)
      is_reserved == reserved_physical_address(g)
      is_kernel == ~ is_reserved /\ ~ allocatable_physical_address(g)
  IN CASE g = CONSOLE_ADDR -> Symbol("C", 0)
       [] g # CONSOLE_ADDR /\ (is_reserved \/ is_kernel) /\ OfProcess(v) ->
            Symbol("error", marked_pid(v))
       [] g # CONSOLE_ADDR /\ is_reserved /\ ~ OfProcess(v) -> Symbol("R", 0)
       [] g # CONSOLE_ADDR /\ is_kernel /\ ~ OfProcess(v) -> Symbol("K", 0)
       [] OTHER ->
            IF v = {} \/ v = {USER} THEN Symbol(".", 0)
            ELSE IF v = {KERNEL} THEN Symbol("K", 0)
            ELSE IF {KERNEL, USER} \subseteq v THEN Symbol("error", marked_pid(v))
            ELSE IF v \subseteq {marked_pid(v), KERNEL, USER}
            THEN Symbol("P", marked_pid(v)) ELSE Symbol("S", 0)

\* A slot that memshow's search stops at.
Shown(p) == state[p] # P_FREE /\ pagetable[p] # 0

\* Mutant of NextShown: gives up after the last slot.
NextShownNoWrap(s) ==
  LET Loaded == {k \in s .. NPROC - 1 : Shown(k)}
  IN IF Loaded = {} THEN s ELSE CHOOSE k \in Loaded : \A j \in Loaded : k <= j

\* memshow's search: the first loaded slot from s on, in cyclic order; s if
\* there is none.
NextShown(s) ==
  LET Loaded == {k \in 0 .. NPROC - 1 : Shown((s + k) % NPROC)}
  IN IF Loaded = {} THEN s ELSE (s + CHOOSE k \in Loaded : \A j \in Loaded : k <= j) % NPROC

\* `showing` after n switches, from slot s.
Showing(s, n) ==
  LET after[k \in 0 .. n] ==
        IF k = 0 THEN NextShown(s) ELSE LET was == after[k - 1] IN NextShown((was + 1) % NPROC)
  IN after[n]

\* The viewer's picture of the processes is right, although it goes by addresses
\* and not by who claimed a page (k-memviewer.cc:105-117, 137-198): the pages
\* user code may access are drawn with the number of the one process that uses
\* them and no other page as a process's, as shared or as an error; free pages
\* are drawn as free, the kernel's and the reserved ones never.  A page in use
\* that user code may not access (the viewer's own, one of sys_page_alloc)
\* may be drawn as free.
ViewerDrawsProcesses ==
  \A g \in Pages :
    LET s == symbol_at(g)
    IN IF g \in useracc \ {CONSOLE_ADDR}
       THEN s[1] = "P" /\ users[g] = {s[2]}
       ELSE /\ s[1] \in {"C", "R", "K", "."}
            /\ allocatable_physical_address(g) /\ users[g] = {} => s[1] = "."
            /\ s[1] = "." => allocatable_physical_address(g)

\* memshow's rotation passes over nobody (kernel.cc:462-476): wherever it
\* stands, as many switches as there are loaded processes show each of them.
EveryProcessShown ==
  LET Loaded == {p \in Pids : state[p] # P_FREE}
  IN \A s \in Pids : Loaded # {} => {Showing(s, n) : n \in 0 .. Cardinality(Loaded) - 1} = Loaded
=============================================================================
