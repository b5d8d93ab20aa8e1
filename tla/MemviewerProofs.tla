--------------------------- MODULE MemviewerProofs ---------------------------
(***************************************************************************)
(* The memory viewer draws the processes' pages right and its rotation     *)
(* leaves out no process, for all values of the constants.                 *)
(***************************************************************************)
EXTENDS Memviewer, KernelProofs, FiniteSetTheorems

\* The viewer tells a page's process by its address.  It may, because a page
\* user code can access is used by the process in whose region it lies.
UserInRegion ==
  \A g \in useracc \ {CONSOLE_ADDR} :
    \E p \in {1, 2} : users[g] = {p} /\ g \in Region(p)

-----------------------------------------------------------------------------
(* UserInRegion is preserved *)

\* A step that gives users only to unused pages, and user code no page.
LEMMA OthersKeepRegion ==
  ASSUME PageInv, UserInRegion, useracc' = useracc,
         \A g \in useracc : users[g] # {} => users'[g] = users[g]
  PROVE  UserInRegion'
BY SMTT(30), Z3T(30) DEF UserInRegion, Region

\* process_setup claims pages of its own region, unused until then.
LEMMA SetupKeepsRegion ==
  ASSUME TypeOK, PageInv, UserInRegion, NEW p \in {1, 2}, NEW name \in Names,
         ProcessSetup(p, name)
  PROVE  UserInRegion'
<1>1. PICK got \in SUBSET Region(p) : Claims(p, name, got)
  BY SetupClaims, SMTT(30), Z3T(30)
<1>2. got \subseteq Pages /\ useracc \subseteq Pages /\ useracc' = useracc \cup got
  BY <1>1, RegionFacts, SMTT(30), Z3T(30) DEF Claims, TypeOK, MemTypes
<1>3. \A g \in Pages : IF g \in got THEN users[g] = {} /\ users'[g] = {p}
                                    ELSE users'[g] = users[g]
  BY <1>1, <1>2, SMTT(30), Z3T(30) DEF Claims, PageInv
<1> SUFFICES ASSUME NEW g \in useracc', g # CONSOLE_ADDR
             PROVE  \E q \in {1, 2} : users'[g] = {q} /\ g \in Region(q)
  BY ZenonT(30) DEF UserInRegion, Region
<1>4. CASE g \in got
  BY <1>1, <1>2, <1>3, <1>4, SMTT(30), Z3T(30)
<1>5. CASE g \notin got
  <2>1. g \in useracc /\ users'[g] = users[g]
    BY <1>2, <1>3, <1>5, SMTT(30), Z3T(30)
  <2> QED
    BY <2>1, SMTT(30), Z3T(30) DEF UserInRegion
<1> QED
  BY <1>4, <1>5, SMTT(30), Z3T(30)

\* Entering the kernel, memshow() may take an unused page for the kernel.
LEMMA EnterKeepsRegion ==
  ASSUME TypeOK, PageInv, UserInRegion, NEW t, NEW reg, Enter(t, reg)
  PROVE  UserInRegion'
<1>1. Memshow /\ useracc' = useracc /\ useracc \subseteq Pages /\ users \in [Pages -> SUBSET Pids]
  BY SMTT(30), Z3T(30) DEF Enter, TypeOK, MemTypes
<1>2. CASE \E g \in Pages : Kalloc(g)
  <2>1. PICK g \in Pages : Kalloc(g)
    BY <1>2, SMTT(30), Z3T(30)
  <2>2. users[g] = {} /\ users' = [users EXCEPT ![g] = @ \cup {0}]
    BY <2>1, SMTT(30), Z3T(30) DEF Kalloc, Allocable, PageInv
  <2> QED
    BY <1>1, <2>2, OthersKeepRegion, SMTT(30), Z3T(30)
<1>3. CASE users' = users
  BY <1>1, <1>3, OthersKeepRegion, SMTT(30), Z3T(30)
<1> QED
  BY <1>1, <1>2, <1>3, SMTT(30), Z3T(30) DEF Memshow, KallocFails

\* Every step preserves UserInRegion.
LEMMA NextKeepsRegion == IInv /\ UserInRegion /\ [Next]_vars => UserInRegion'
<1> SUFFICES ASSUME TypeOK, PageInv, UserInRegion, [Next]_vars PROVE UserInRegion'
  BY SMTT(30), Z3T(30) DEF IInv
<1>1. CASE TimerInterrupt \/ UserStep
  BY <1>1, EnterKeepsRegion, ZenonT(30) DEF TimerInterrupt, UserStep, PageFault, OtherException, Syscall
<1>2. CASE KernelStartSetup
  <2>0. todo \in Seq(Setups) /\ todo # <<>>
    BY <1>2, ZenonT(30) DEF KernelStartSetup, TypeOK, ProcTypes
  <2>1. Head(todo) \in Setups
    BY <2>0, SMTT(30), Z3T(30)
  <2>2. Head(todo).pid \in {1, 2} /\ Head(todo).name \in Names
    BY <2>1, SMTT(30), Z3T(30) DEF Setups
  <2> QED
    BY <1>2, <2>2, SetupKeepsRegion, SMTT(30), Z3T(30) DEF KernelStartSetup
<1>3. CASE Stops \/ Returns
  BY <1>3, OthersKeepRegion, ZenonT(30) DEF Stops, Returns
<1>4. CASE syscall_page_alloc
  <2>1. CASE TakesPage
    <3>1. /\ trap.page \in Pages /\ users \in [Pages -> SUBSET Pids] /\ useracc' = useracc
          /\ useracc \subseteq Pages /\ users[trap.page] = {}
          /\ users' = [users EXCEPT ![trap.page] = @ \cup {current}]
      BY <2>1, SMTT(30), Z3T(30) DEF TakesPage, TypeOK, MemTypes, PageInv
    <3> QED
      BY <3>1, OthersKeepRegion, SMTT(30), Z3T(30)
  <2> QED
    BY <1>3, <1>4, <2>1, PageAllocEnds, ZenonT(30)
<1>5. CASE KernelStartRun \/ HandleTimer \/ HandlePageFault \/ SysYield \/ ScheduleSpin
           \/ UNCHANGED vars
  <2>1. useracc' = useracc /\ users' = users
    BY <1>5, ZenonT(30) DEF KernelStartRun, HandleTimer, HandlePageFault, SysYield, ScheduleSpin,
       memvars, vars
  <2> QED
    BY <2>1, OthersKeepRegion, ZenonT(30)
<1>6. CASE HandlePanic \/ SysGetpid \/ SysGetsysname \/ syscall_spawn \/ syscall_pipewrite
           \/ syscall_piperead
  BY <1>3, <1>6, PanicEnds, CallEnds, ZenonT(30)
<1>7. ASSUME NEW key \in Keys, Keypress(key) PROVE UserInRegion'
  <2>1. CASE key = "q"
    BY <1>7, <2>1, OthersKeepRegion, SMTT(30), Z3T(30) DEF Keypress, memvars
  <2>2. CASE key # "q"
    <3>1. useracc' = {CONSOLE_ADDR}
      BY <1>7, <2>2, SMTT(30), Z3T(30) DEF Keypress, SoftReboot
    <3> QED
      BY <3>1, SMTT(30), Z3T(30) DEF UserInRegion
  <2> QED
    BY <2>1, <2>2, SMTT(30), Z3T(30)
<1> QED
  BY <1>1, <1>2, <1>4, <1>5, <1>6, <1>7, ZenonT(30) DEF Next, KernelStep

-----------------------------------------------------------------------------
(* What is drawn *)

\* The viewer numbers the regions as process_setup does.
LEMMA OwnerIsRegion ==
  ASSUME NEW p \in {1, 2}, NEW g \in Region(p)
  PROVE  OwnerOf(g) = p
<1> DEFINE x == g - PROC_START_ADDR
<1>1. PROC_START_ADDR \in Nat /\ PROC_SIZE \in Nat /\ PROC_SIZE > 0 /\ g \in Int
  BY LayoutAssumption, SMTT(30), Z3T(30) DEF Region
<1>2. x \in Int /\ (p - 1) * PROC_SIZE <= x /\ x < p * PROC_SIZE
  BY <1>1, SMTT(30), Z3T(30) DEF Region
<1> HIDE DEF x
<1>3. CASE p = 1
  <2>1. x \div PROC_SIZE = 0
    BY <1>1, <1>2, <1>3, SMTT(30), Z3T(30)
  <2> QED
    BY <1>3, <2>1, SMTT(30), Z3T(30) DEF OwnerOf, x
<1>4. CASE p = 2
  <2>1. x \div PROC_SIZE = 1
    BY <1>1, <1>2, <1>4, SMTT(30), Z3T(30)
  <2> QED
    BY <1>4, <2>1, SMTT(30), Z3T(30) DEF OwnerOf, x
<1> QED
  BY <1>3, <1>4, SMTT(30), Z3T(30)

\* A process's page is drawn with the number of its process.
LEMMA DrawsProcess ==
  ASSUME NEW p \in {1, 2}, NEW g \in Region(p), g # CONSOLE_ADDR, g \in useracc,
         refcount[g] = 1
  PROVE  symbol_at(g) = Symbol("P", p)
<1>1. g \in Pages /\ g >= PROC_START_ADDR
  BY RegionFacts, SMTT(30), Z3T(30)
<1>2. allocatable_physical_address(g) /\ ~reserved_physical_address(g) /\ ~(g < KERNEL_END)
  BY <1>1, LayoutAssumption, KernelBelowAssumption, SMTT(30), Z3T(30)
     DEF allocatable_physical_address, reserved_physical_address, Pages
<1>3. Marks(g) = {USER, p}
  BY <1>2, OwnerIsRegion, SMTT(30), Z3T(30) DEF Marks
<1>4. Marks(g) \ {KERNEL, USER} = {p}
  BY <1>3, SMTT(30), Z3T(30) DEF KERNEL, USER
<1>5. marked_pid(Marks(g)) = p
  BY <1>4, SMTT(30), Z3T(30) DEF marked_pid
<1>6. /\ Marks(g) # {} /\ Marks(g) # {USER} /\ Marks(g) # {KERNEL}
      /\ ~({KERNEL, USER} \subseteq Marks(g)) /\ Marks(g) \subseteq {p, KERNEL, USER}
  BY <1>3, SMTT(30), Z3T(30) DEF KERNEL, USER
<1> QED
  BY <1>2, <1>5, <1>6, SMTT(30), Z3T(30) DEF symbol_at

\* A page that user code cannot access is drawn as nobody's, and as free just
\* when it can be allocated.
LEMMA DrawsOther ==
  ASSUME NEW g \in Pages, g = CONSOLE_ADDR \/ g \notin useracc
  PROVE  /\ symbol_at(g)[1] \in {"C", "R", "K", "."}
         /\ symbol_at(g)[1] = "." <=> allocatable_physical_address(g)
<1>1. CASE g = CONSOLE_ADDR
  <2>1. ~allocatable_physical_address(g)
    BY <1>1, LayoutAssumption, SMTT(30), Z3T(30)
       DEF allocatable_physical_address, reserved_physical_address
  <2> QED
    BY <1>1, <2>1, SMTT(30), Z3T(30) DEF symbol_at, Symbol
<1>2. CASE g # CONSOLE_ADDR /\ g \notin useracc
  <2>1. Marks(g) = {} \/ Marks(g) = {KERNEL}
    BY <1>2, SMTT(30), Z3T(30) DEF Marks
  <2>2. ~OfProcess(Marks(g))
    BY <2>1, SMTT(30), Z3T(30) DEF OfProcess
  <2>3. allocatable_physical_address(g) => Marks(g) = {} /\ ~reserved_physical_address(g)
    <3>1. g \in Int /\ KERNEL_START_ADDR \in Int /\ KERNEL_END \in Int
      BY LayoutAssumption, SMTT(30), Z3T(30) DEF Pages
    <3>2. allocatable_physical_address(g) => ~(g >= KERNEL_START_ADDR /\ g < KERNEL_END)
      BY <3>1, SMTT(30), Z3T(30) DEF allocatable_physical_address
    <3> QED
      BY <1>2, <3>2, SMTT(30), Z3T(30) DEF allocatable_physical_address, Marks
  <2> HIDE DEF Marks
  <2> QED
    BY <1>2, <2>1, <2>2, <2>3, SMTT(30), Z3T(30) DEF symbol_at, Symbol
<1> QED
  BY <1>1, <1>2, SMTT(30), Z3T(30)

\* The viewer draws the pages of the processes, and only those, as theirs; a
\* page nobody uses is drawn as free, one that cannot be allocated never is.
\* A page used without user access may be drawn as free.
THEOREM ViewerShowsProcesses == Spec => []ViewerDrawsProcesses
<1>1. Init => UserInRegion
  BY SMTT(30), Z3T(30) DEF Init, UserInRegion
<1>2. IInv /\ UserInRegion => ViewerDrawsProcesses
  <2> SUFFICES ASSUME IInv, UserInRegion, NEW g \in Pages
               PROVE  IF g \in useracc \ {CONSOLE_ADDR}
                      THEN symbol_at(g)[1] = "P" /\ users[g] = {symbol_at(g)[2]}
                      ELSE /\ symbol_at(g)[1] \in {"C", "R", "K", "."}
                           /\ symbol_at(g)[1] = "." <=> allocatable_physical_address(g)
    BY ZenonT(30) DEF ViewerDrawsProcesses
  <2>1. CASE g \in useracc \ {CONSOLE_ADDR}
    <3>1. PICK p \in {1, 2} : users[g] = {p} /\ g \in Region(p)
      BY <2>1, SMTT(30), Z3T(30) DEF UserInRegion
    <3>2. refcount[g] = 1
      BY <3>1, SMTT(30), Z3T(30) DEF IInv, PageInv
    <3>3. symbol_at(g) = Symbol("P", p)
      BY <2>1, <3>1, <3>2, DrawsProcess, SMTT(30), Z3T(30)
    <3> QED
      BY <2>1, <3>1, <3>3, SMTT(30), Z3T(30) DEF Symbol
  <2>2. CASE g \notin useracc \ {CONSOLE_ADDR}
    BY <2>2, DrawsOther, ZenonT(30)
  <2> QED
    BY <2>1, <2>2, SMTT(30), Z3T(30)
<1> QED
  BY <1>1, <1>2, NextKeepsRegion, Invariance, PTL DEF Spec

-----------------------------------------------------------------------------
(* The rotation of memshow *)

\* A nonempty set of naturals has a least element.
LEMMA LeastNatural ==
  ASSUME NEW T, T \subseteq Nat, T # {}
  PROVE  \E x \in T : \A y \in T : x <= y
<1>1. PICK x \in T : \A y \in T : ~ (<<y, x>> \in OpToRel(<, Nat))
  BY NatLessThanWellFounded, WFMin, ZenonT(30)
<1>2. ASSUME NEW y \in T, y < x PROVE FALSE
  <2>1. <<y, x>> \in OpToRel(<, Nat)
    BY <1>2, Zenon DEF OpToRel
  <2> QED
    BY <1>1, <2>1, ZenonT(30)
<1>3. \A y \in T : x <= y
  BY <1>2, SMTT(30), Z3T(30)
<1> QED
  BY <1>3, SMTT(30), Z3T(30)
\* A finite set of naturals can be counted off in order.
LEMMA CountOff ==
  ASSUME NEW m \in Nat, NEW D \in SUBSET (0 .. m)
  PROVE  /\ Cardinality(D) \in Nat
         /\ \E e \in [0 .. Cardinality(D) - 1 -> D] :
              /\ \A i, j \in 0 .. Cardinality(D) - 1 : i < j => e[i] < e[j]
              /\ \A d \in D : \E i \in 0 .. Cardinality(D) - 1 : e[i] = d
<1> DEFINE Lower(d) == {x \in D : x < d}
           c == Cardinality(D)
           I == 0 .. c - 1
           f == [d \in D |-> Cardinality(Lower(d))]
<1>1. IsFiniteSet(D) /\ c \in Nat
  <2>1. IsFiniteSet(0 .. m)
    BY FS_Interval, SMTT(30), Z3T(30)
  <2> QED
    BY <2>1, FS_Subset, FS_CardinalityType, ZenonT(30)
<1>2. ASSUME NEW d \in D
      PROVE  /\ IsFiniteSet(Lower(d)) /\ Cardinality(Lower(d)) \in I
  <2>1. Lower(d) \in SUBSET D /\ Lower(d) # D
    <3>1. d \in 0 .. m
      BY SMTT(30), Z3T(30)
    <3>2. d \notin Lower(d)
      BY <3>1, SMTT(30), Z3T(30)
    <3> QED
      BY <3>2, SMTT(30), Z3T(30)
  <2> HIDE DEF Lower
  <2>2. IsFiniteSet(Lower(d)) /\ Cardinality(Lower(d)) <= c /\ c # Cardinality(Lower(d))
    BY <1>1, <2>1, FS_Subset, SMTT(30), Z3T(30)
  <2>3. Cardinality(Lower(d)) \in Nat
    BY <2>2, FS_CardinalityType, SMTT(30), Z3T(30)
  <2> QED
    BY <1>1, <2>2, <2>3, SMTT(30), Z3T(30)
<1>3. ASSUME NEW x \in D, NEW y \in D, x < y PROVE Cardinality(Lower(x)) < Cardinality(Lower(y))
  <2>1. Lower(x) \in SUBSET Lower(y) /\ x \in Lower(y) /\ x \notin Lower(x)
    <3>1. D \subseteq Nat
      BY SMTT(30), Z3T(30)
    <3>2. x \in Lower(y) /\ x \notin Lower(x)
      BY <1>3, <3>1, SMTT(30), Z3T(30)
    <3>3. ASSUME NEW z \in Lower(x) PROVE z \in Lower(y)
      <4>1. z \in D /\ z < x
        BY SMTT(30), Z3T(30)
      <4> QED
        BY <1>3, <3>1, <4>1, SMTT(30), Z3T(30)
    <3> QED
      BY <3>2, <3>3, ZenonT(30)
  <2> HIDE DEF Lower
  <2>2. Cardinality(Lower(x)) <= Cardinality(Lower(y)) /\ Cardinality(Lower(x)) # Cardinality(Lower(y))
    BY <1>2, <2>1, FS_Subset, SMTT(30), Z3T(30)
  <2>3. Cardinality(Lower(x)) \in Nat /\ Cardinality(Lower(y)) \in Nat
    BY <1>1, <1>2, SMTT(30), Z3T(30)
  <2> QED
    BY <2>2, <2>3, SMTT(30), Z3T(30)
<1> HIDE DEF Lower
<1>4. f \in [D -> I]
  BY <1>2, SMTT(30), Z3T(30)
<1>5. ASSUME NEW x \in D, NEW y \in D, x # y PROVE f[x] # f[y]
  <2>1. x \in Nat /\ y \in Nat /\ f[x] \in Nat /\ f[y] \in Nat
    BY <1>1, <1>4, SMTT(30), Z3T(30)
  <2> QED
    BY <1>3, <1>5, <2>1, SMTT(30), Z3T(30)
<1>6. f \in Surjection(D, I)
  <2>1. f \in Injection(D, I)
    BY <1>4, <1>5, SMTT(30), Z3T(30) DEF Injection, IsInjective
  <2>2. IsFiniteSet(I) /\ Cardinality(I) = c
    <3>1. 0 \in Int /\ c - 1 \in Int
      BY <1>1, SMTT(30), Z3T(30)
    <3>2. IsFiniteSet(I) /\ Cardinality(I) = IF 0 > c - 1 THEN 0 ELSE c - 1 - 0 + 1
      BY <3>1, FS_Interval, Zenon
    <3> QED
      BY <1>1, <3>2, SMTT(30), Z3T(30)
  <2> HIDE DEF f, I
  <2> QED
    BY <2>1, <2>2, FS_Injection, SMTT(30), Z3T(30)
<1> DEFINE e == [i \in I |-> CHOOSE d \in D : f[d] = i]
<1>7. ASSUME NEW i \in I PROVE e[i] \in D /\ f[e[i]] = i
  BY <1>6, SMTT(30), Z3T(30) DEF Surjection
<1>8. e \in [I -> D]
  BY <1>7, SMTT(30), Z3T(30)
<1>9. ASSUME NEW i \in I, NEW j \in I, i < j PROVE e[i] < e[j]
  <2>1. e[i] \in D /\ e[j] \in D /\ f[e[i]] = i /\ f[e[j]] = j
    BY <1>7, ZenonT(30)
  <2> HIDE DEF e
  <2>2. e[i] \in Nat /\ e[j] \in Nat /\ e[i] # e[j]
    <3>1. D \subseteq Nat
      BY SMTT(30), Z3T(30)
    <3>2. i # j
      BY <1>1, <1>9, SMTT(30), Z3T(30)
    <3> HIDE DEF f, I
    <3> QED
      BY <2>1, <3>1, <3>2, ZenonT(30)
  <2>3. ~ (e[j] < e[i])
    <3> SUFFICES ASSUME e[j] < e[i] PROVE FALSE
      BY SMTT(30), Z3T(30)
    <3>1. Cardinality(Lower(e[j])) < Cardinality(Lower(e[i]))
      BY <1>3, <2>1, ZenonT(30)
    <3>2. f[e[j]] < f[e[i]]
      BY <2>1, <3>1, SMTT(30), Z3T(30)
    <3> QED
      BY <1>1, <1>9, <2>1, <3>2, SMTT(30), Z3T(30)
  <2> QED
    BY <2>2, <2>3, SMTT(30), Z3T(30)
<1>10. ASSUME NEW d \in D PROVE \E i \in I : e[i] = d
  <2>1. f[d] \in I
    BY <1>4, SMTT(30), Z3T(30)
  <2>2. e[f[d]] \in D /\ f[e[f[d]]] = f[d]
    BY <1>7, <2>1, SMTT(30), Z3T(30)
  <2>3. e[f[d]] = d
    BY <1>5, <2>2, ZenonT(30)
  <2> QED
    BY <2>1, <2>3, SMTT(30), Z3T(30)
<1> HIDE DEF e, f
<1> QED
  BY <1>1, <1>8, <1>9, <1>10, SMTT(30), Z3T(30)

\* Remainders of what wraps round at most once.
Wrapped(a) == IF a < NPROC THEN a ELSE a - NPROC

LEMMA WrapOnce ==
  ASSUME NEW a \in 0 .. 2 * NPROC - 1
  PROVE  a % NPROC = Wrapped(a)
<1>1. NPROC \in Nat /\ NPROC > 0
  BY TableAssumption, SMTT(30), Z3T(30)
<1>2. CASE a < NPROC
  BY <1>1, <1>2, SMTT(30), Z3T(30) DEF Wrapped
<1>3. CASE ~ (a < NPROC)
  BY <1>1, <1>3, SMTT(30), Z3T(30) DEF Wrapped
<1> QED
 BY <1>2, <1>3, SMTT(30), Z3T(30)

Slot(s, k) == (s + k) % NPROC

\* The slots at different distances from s are different, and all slots are
\* at some distance; distances add up.
LEMMA SlotFacts ==
  ASSUME NEW s \in Pids
  PROVE  /\ \A k \in Pids : Slot(s, k) \in Pids
         /\ \A j, k \in Pids : Slot(s, j) = Slot(s, k) => j = k
         /\ \A p \in Pids : \E k \in Pids : Slot(s, k) = p
         /\ \A j, k \in Pids : j + 1 + k < NPROC => Slot((Slot(s, j) + 1) % NPROC, k) = Slot(s, j + 1 + k)
         /\ \A j \in Pids : (Slot(s, j) + 1) % NPROC \in Pids
<1>1. NPROC \in Nat /\ NPROC >= 3 /\ s \in 0 .. NPROC - 1 /\ Pids = 0 .. NPROC - 1
  BY TableAssumption, SMTT(30), Z3T(30) DEF Pids
<1>2. ASSUME NEW k \in Pids PROVE Slot(s, k) = IF s + k < NPROC THEN s + k ELSE s + k - NPROC
  <2> DEFINE a == s + k
  <2>1. a \in 0 .. 2 * NPROC - 1
    BY <1>1, SMTT(30), Z3T(30)
  <2>2. Slot(s, k) = a % NPROC
    BY SMTT(30), Z3T(30) DEF Slot
  <2> HIDE DEF a
  <2>3. Slot(s, k) = Wrapped(a)
    BY <2>1, <2>2, WrapOnce, SMTT(30), Z3T(30)
  <2> QED
    BY <1>1, <2>3, SMTT(30), Z3T(30) DEF Wrapped, a
<1>3. \A k \in Pids : Slot(s, k) \in Pids
  BY <1>1, <1>2, SMTT(30), Z3T(30)
<1>4. \A j, k \in Pids : Slot(s, j) = Slot(s, k) => j = k
  BY <1>1, <1>2, SMTT(30), Z3T(30)
<1>5. ASSUME NEW p \in Pids PROVE \E k \in Pids : Slot(s, k) = p
  <2>1. CASE s <= p
    <3>1. p - s \in Pids /\ Slot(s, p - s) = p
      BY <1>1, <1>2, <2>1, SMTT(30), Z3T(30)
    <3> QED
      BY <3>1, SMTT(30), Z3T(30)
  <2>2. CASE p < s
    <3>1. p + NPROC - s \in Pids /\ Slot(s, p + NPROC - s) = p
      BY <1>1, <1>2, <2>2, SMTT(30), Z3T(30)
    <3> QED
      BY <3>1, SMTT(30), Z3T(30)
  <2> QED
    BY <1>1, <2>1, <2>2, SMTT(30), Z3T(30)
<1>6. ASSUME NEW j \in Pids
      PROVE  (Slot(s, j) + 1) % NPROC = IF Slot(s, j) = NPROC - 1 THEN 0 ELSE Slot(s, j) + 1
  <2> DEFINE a == Slot(s, j) + 1
  <2>1. a \in 0 .. 2 * NPROC - 1 /\ Slot(s, j) \in 0 .. NPROC - 1
    BY <1>1, <1>3, SMTT(30), Z3T(30)
  <2> HIDE DEF a
  <2>2. a % NPROC = Wrapped(a)
    BY <2>1, WrapOnce, SMTT(30), Z3T(30)
  <2> QED
    BY <1>1, <2>1, <2>2, SMTT(30), Z3T(30) DEF Wrapped, a
<1>7. ASSUME NEW j \in Pids, NEW k \in Pids, j + 1 + k < NPROC
      PROVE Slot((Slot(s, j) + 1) % NPROC, k) = Slot(s, j + 1 + k)
  <2> DEFINE t == (Slot(s, j) + 1) % NPROC
  <2>1. t = IF Slot(s, j) = NPROC - 1 THEN 0 ELSE Slot(s, j) + 1
    BY <1>6, SMTT(30), Z3T(30)
  <2> HIDE DEF t
  <2>2. t \in 0 .. NPROC - 1
    BY <1>1, <1>3, <2>1, SMTT(30), Z3T(30)
  <2> DEFINE a == t + k
  <2>3. a \in 0 .. 2 * NPROC - 1 /\ Slot(t, k) = a % NPROC
    BY <1>1, <2>2, SMTT(30), Z3T(30) DEF Slot
  <2> HIDE DEF a
  <2>4. Slot(t, k) = Wrapped(a)
    BY <2>3, WrapOnce, SMTT(30), Z3T(30)
  <2>5. Slot(t, k) = IF t + k < NPROC THEN t + k ELSE t + k - NPROC
    BY <1>1, <2>2, <2>4, SMTT(30), Z3T(30) DEF Wrapped, a
  <2>6. j + 1 + k \in Pids
    BY <1>1, <1>7, SMTT(30), Z3T(30)
  <2>7. Slot(s, j + 1 + k) = IF s + (j + 1 + k) < NPROC THEN s + (j + 1 + k) ELSE s + (j + 1 + k) - NPROC
    BY <1>2, <2>6, SMTT(30), Z3T(30)
  <2>8. t = IF s + j + 1 < NPROC THEN s + j + 1 ELSE s + j + 1 - NPROC
    BY <1>1, <1>2, <2>1, SMTT(30), Z3T(30)
  <2>9. Slot(t, k) = Slot(s, j + 1 + k)
    BY <1>1, <1>7, <2>2, <2>5, <2>7, <2>8, SMTT(30), Z3T(30)
  <2> QED
    BY <2>9, SMTT(30), Z3T(30) DEF t
<1>8. ASSUME NEW j \in Pids PROVE (Slot(s, j) + 1) % NPROC \in Pids
  <2> DEFINE t == (Slot(s, j) + 1) % NPROC
  <2>1. t = IF Slot(s, j) = NPROC - 1 THEN 0 ELSE Slot(s, j) + 1
    BY <1>6, SMTT(30), Z3T(30)
  <2> HIDE DEF t
  <2>2. t \in Pids
    BY <1>1, <1>3, <2>1, SMTT(30), Z3T(30)
  <2> QED
    BY <2>2, SMTT(30), Z3T(30) DEF t
<1> QED
  BY <1>3, <1>4, <1>5, <1>7, <1>8, SMTT(30), Z3T(30)

\* What memshow's search finds is the least distance with a loaded slot.
Distances(s) == {k \in Pids : state[Slot(s, k)] # P_FREE}

\* A loaded process has a page table, so memshow's search stops at it.
AllShown == \A p \in Pids : Shown(p) <=> state[p] # P_FREE

LEMMA LoadedShown == TableInv => AllShown
BY TableFacts, SMTT(30), Z3T(30) DEF TableInv, AllShown, Shown

LEMMA NextShownIs ==
  ASSUME AllShown, NEW s \in Pids, NEW d \in Distances(s), \A x \in Distances(s) : d <= x
  PROVE  NextShown(s) = Slot(s, d)
<1> DEFINE D == {k \in 0 .. NPROC - 1 : Shown((s + k) % NPROC)}
<1>1. D = Distances(s) /\ D # {} /\ D \subseteq Int
  <2>1. D = Distances(s)
    <3>1. \A k \in Pids : Slot(s, k) \in Pids
      BY SlotFacts, ZenonT(30)
    <3>2. D = {k \in Pids : Shown(Slot(s, k))}
      BY SMTT(30), Z3T(30) DEF Slot, Pids
    <3> HIDE DEF D
    <3> QED
      BY <3>1, <3>2, SMTT(30), Z3T(30) DEF Distances, AllShown
  <2>2. D \subseteq Int
    BY TableAssumption, SMTT(30), Z3T(30)
  <2> QED
    BY <2>1, <2>2, SMTT(30), Z3T(30)
<1>2. NextShown(s) = Slot(s, CHOOSE k \in D : \A j \in D : k <= j)
  BY <1>1, SMTT(30), Z3T(30) DEF NextShown, Slot
<1> HIDE DEF D
<1>3. (CHOOSE k \in D : \A j \in D : k <= j) = d
  <2> DEFINE c == CHOOSE k \in D : \A j \in D : k <= j
  <2>1. c \in D /\ \A j \in D : c <= j
    BY <1>1, SMTT(30), Z3T(30)
  <2> HIDE DEF c
  <2>2. c = d
    BY <1>1, <2>1, SMTT(30), Z3T(30)
  <2> QED
    BY <2>2, SMTT(30), Z3T(30) DEF c
<1> QED
  BY <1>2, <1>3, ZenonT(30)

\* A function that Showing's equation holds of is the one it means.
LEMMA ShowingIs ==
  ASSUME NEW s \in Pids, NEW n \in Nat, NEW h,
         h = [k \in 0 .. n |-> IF k = 0 THEN NextShown(s) ELSE NextShown((h[k - 1] + 1) % NPROC)]
  PROVE  Showing(s, n) = h[n]
<1> DEFINE f == CHOOSE after : after =
                  [k \in 0 .. n |-> IF k = 0 THEN NextShown(s) ELSE NextShown((after[k - 1] + 1) % NPROC)]
<1>1. Showing(s, n) = f[n]
  BY SMTT(30), Z3T(30) DEF Showing
<1>2. f = [k \in 0 .. n |-> IF k = 0 THEN NextShown(s) ELSE NextShown((f[k - 1] + 1) % NPROC)]
  BY SMTT(30), Z3T(30)
<1> HIDE DEF f
<1> DEFINE Bad == {k \in 0 .. n : f[k] # h[k]}
<1>3. Bad = {}
  <2> SUFFICES ASSUME Bad # {} PROVE FALSE
    BY SMTT(30), Z3T(30)
  <2>1. PICK k \in Bad : \A x \in Bad : k <= x
    <3>1. Bad \subseteq Nat
      BY SMTT(30), Z3T(30)
    <3> HIDE DEF Bad
    <3> QED
      BY <3>1, LeastNatural, ZenonT(30)
  <2>2. k \in 0 .. n /\ f[k] # h[k]
    BY <2>1, SMTT(30), Z3T(30)
  <2>3. k # 0
    BY <1>2, <2>2, SMTT(30), Z3T(30)
  <2>4. k - 1 \in 0 .. n /\ k - 1 \notin Bad
    BY <2>1, <2>2, <2>3, SMTT(30), Z3T(30)
  <2>5. f[k - 1] = h[k - 1]
    BY <2>4, SMTT(30), Z3T(30)
  <2>6. f[k] = NextShown((f[k - 1] + 1) % NPROC) /\ h[k] = NextShown((h[k - 1] + 1) % NPROC)
    BY <1>2, <2>2, <2>3, SMTT(30), Z3T(30)
  <2> QED
    BY <2>2, <2>5, <2>6, SMTT(30), Z3T(30)
<1>4. n \in 0 .. n
  BY SMTT(30), Z3T(30)
<1> QED
  BY <1>1, <1>3, <1>4, ZenonT(30)

\* However the slots are taken, the rotation shows every loaded one.
LEMMA RotationComplete ==
  ASSUME AllShown
  PROVE  EveryProcessShown
<1> DEFINE Loaded == {p \in Pids : state[p] # P_FREE}
<1> SUFFICES ASSUME NEW s \in Pids, Loaded # {}
             PROVE  {Showing(s, n) : n \in 0 .. Cardinality(Loaded) - 1} = Loaded
  BY SMTT(30), Z3T(30) DEF EveryProcessShown
<1> DEFINE D == Distances(s)
           c == Cardinality(D)
<1>1. /\ \A k \in Pids : Slot(s, k) \in Pids
      /\ \A j, k \in Pids : Slot(s, j) = Slot(s, k) => j = k
      /\ \A p \in Pids : \E k \in Pids : Slot(s, k) = p
      /\ \A j, k \in Pids : j + 1 + k < NPROC => Slot((Slot(s, j) + 1) % NPROC, k) = Slot(s, j + 1 + k)
      /\ \A j \in Pids : (Slot(s, j) + 1) % NPROC \in Pids
  BY SlotFacts, ZenonT(30)
<1>2. NPROC \in Nat /\ NPROC - 1 \in Nat /\ Pids = 0 .. NPROC - 1
  BY TableAssumption, SMTT(30), Z3T(30) DEF Pids
<1>3. D \in SUBSET Pids
  BY SMTT(30), Z3T(30) DEF Distances
<1>4. Cardinality(Loaded) = c
  <2> DEFINE f == [k \in D |-> Slot(s, k)]
  <2>1. f \in [D -> Loaded]
    BY <1>1, <1>3, ZenonT(30) DEF Distances
  <2>2. f \in Injection(D, Loaded)
    BY <1>1, <1>3, <2>1, SMTT(30), Z3T(30) DEF Injection, IsInjective
  <2>3. f \in Surjection(D, Loaded)
    <3>1. ASSUME NEW p \in Loaded PROVE \E k \in D : f[k] = p
      <4>1. PICK k \in Pids : Slot(s, k) = p
        BY <1>1, SMTT(30), Z3T(30)
      <4>2. k \in D
        BY <4>1, SMTT(30), Z3T(30) DEF Distances
      <4> QED
        BY <4>1, <4>2
    <3> QED
      BY <2>1, <3>1, SMTT(30), Z3T(30) DEF Surjection
  <2>4. IsFiniteSet(Loaded)
    <3>1. IsFiniteSet(Pids)
      BY <1>2, FS_Interval, SMTT(30), Z3T(30)
    <3> QED
      BY <3>1, FS_Subset, SMTT(30), Z3T(30)
  <2> HIDE DEF f, D, Loaded
  <2> QED
    BY <2>2, <2>3, <2>4, FS_Injection, SMTT(30), Z3T(30)
<1>5. c \in Nat
  BY <1>2, <1>3, CountOff, ZenonT(30)
<1>6. PICK e \in [0 .. c - 1 -> D] :
              /\ \A i, j \in 0 .. c - 1 : i < j => e[i] < e[j]
              /\ \A d \in D : \E i \in 0 .. c - 1 : e[i] = d
  BY <1>2, <1>3, CountOff, ZenonT(30)
<1> HIDE DEF c, D
<1>7. \A i \in 0 .. c - 1 : e[i] \in D /\ e[i] \in Pids /\ e[i] \in Nat
  <2> TAKE i \in 0 .. c - 1
  <2>1. e[i] \in D
    BY <1>6, SMTT(30), Z3T(30)
  <2>2. e[i] \in Pids
    BY <1>3, <2>1, SMTT(30), Z3T(30)
  <2> QED
    BY <1>2, <2>1, <2>2, SMTT(30), Z3T(30)
<1>8. ASSUME NEW i \in 0 .. c - 1, NEW j \in 0 .. c - 1
       PROVE  (e[i] < e[j] => i < j) /\ (i < j => e[i] < e[j]) /\ (i <= j => e[i] <= e[j])
  <2>1. e[i] \in Nat /\ e[j] \in Nat /\ i \in Nat /\ j \in Nat
    BY <1>7, SMTT(30), Z3T(30)
  <2>2. i < j => e[i] < e[j]
    BY <1>6, SMTT(30), Z3T(30)
  <2>3. j < i => e[j] < e[i]
    BY <1>6, SMTT(30), Z3T(30)
  <2> QED
    BY <2>1, <2>2, <2>3, SMTT(30), Z3T(30)
<1>9. ASSUME 0 \in 0 .. c - 1 PROVE NextShown(s) = Slot(s, e[0])
  <2>1. ASSUME NEW d \in D PROVE e[0] <= d
    <3>1. PICK i \in 0 .. c - 1 : e[i] = d
      BY <1>6, SMTT(30), Z3T(30)
    <3> QED
      BY <1>8, <1>9, <3>1, SMTT(30), Z3T(30)
  <2>2. e[0] \in Distances(s) /\ \A d \in Distances(s) : e[0] <= d
    BY <1>7, <1>9, <2>1, SMTT(30), Z3T(30) DEF D
  <2> QED
    BY <2>2, NextShownIs, SMTT(30), Z3T(30)
<1>10. ASSUME NEW k \in 0 .. c - 1, k # 0
      PROVE  NextShown((Slot(s, e[k - 1]) + 1) % NPROC) = Slot(s, e[k])
  <2> DEFINE a == e[k - 1]
             t == (Slot(s, a) + 1) % NPROC
             d == e[k] - a - 1
  <2>1. /\ a \in Pids /\ a \in Nat /\ e[k] \in Pids /\ e[k] \in Nat /\ a < e[k]
        /\ a \in D /\ e[k] \in D /\ k - 1 \in 0 .. c - 1
    <3>1. k - 1 \in 0 .. c - 1 /\ k - 1 < k
      BY <1>5, <1>10, SMTT(30), Z3T(30)
    <3>2. e[k - 1] < e[k]
      BY <1>8, <3>1, SMTT(30), Z3T(30)
    <3> QED
      BY <1>7, <3>1, <3>2, SMTT(30), Z3T(30)
  <2>2. t \in Pids /\ \A x \in Pids : a + 1 + x < NPROC => Slot(t, x) = Slot(s, a + 1 + x)
    BY <1>1, <2>1, ZenonT(30)
  <2>3. d \in Pids /\ a + 1 + d = e[k] /\ e[k] < NPROC
    BY <1>2, <2>1, SMTT(30), Z3T(30)
  <2> HIDE DEF t, a, d
  <2>4. Slot(t, d) = Slot(s, e[k])
    BY <2>2, <2>3, SMTT(30), Z3T(30)
  <2>5. d \in Distances(t)
    BY <2>1, <2>3, <2>4, SMTT(30), Z3T(30) DEF Distances, D
  <2>6. ASSUME NEW x \in Distances(t), x < d PROVE FALSE
    <3>1. x \in Pids /\ x \in Nat /\ d \in Nat /\ state[Slot(t, x)] # P_FREE
      BY <1>2, <2>3, SMTT(30), Z3T(30) DEF Distances
    <3>2. a + 1 + x < e[k] /\ a + 1 + x \in Pids /\ a + 1 + x < NPROC /\ a < a + 1 + x
      BY <1>2, <2>1, <2>3, <2>6, <3>1, SMTT(30), Z3T(30)
    <3>3. a + 1 + x \in D
      BY <2>2, <3>1, <3>2, SMTT(30), Z3T(30) DEF Distances, D
    <3>4. PICK i \in 0 .. c - 1 : e[i] = a + 1 + x
      BY <1>6, <3>3, SMTT(30), Z3T(30)
    <3>5. e[i] < e[k] /\ e[k - 1] < e[i]
      BY <3>2, <3>4, SMTT(30), Z3T(30) DEF a
    <3>6. i < k /\ k - 1 < i
      BY <1>8, <2>1, <3>5, SMTT(30), Z3T(30)
    <3> QED
      BY <1>5, <3>6, SMTT(30), Z3T(30)
  <2>7. \A x \in Distances(t) : d <= x
    <3>1. \A x \in Distances(t) : x \in Nat
      BY <1>2, SMTT(30), Z3T(30) DEF Distances
    <3> QED
      BY <1>2, <2>3, <2>6, <3>1, SMTT(30), Z3T(30)
  <2>8. NextShown(t) = Slot(t, d)
    BY <2>2, <2>5, <2>7, NextShownIs, SMTT(30), Z3T(30)
  <2> QED
    BY <2>4, <2>8, SMTT(30), Z3T(30) DEF t, a
<1>11. ASSUME NEW n \in 0 .. c - 1 PROVE Showing(s, n) = Slot(s, e[n])
  <2> DEFINE h == [k \in 0 .. n |-> Slot(s, e[k])]
  <2>1. \A k \in 0 .. n : k \in 0 .. c - 1
    BY <1>5, SMTT(30), Z3T(30)
  <2>2. ASSUME NEW k \in 0 .. n
        PROVE  Slot(s, e[k]) = IF k = 0 THEN NextShown(s) ELSE NextShown((h[k - 1] + 1) % NPROC)
    <3>1. CASE k = 0
      BY <1>9, <2>1, <3>1, SMTT(30), Z3T(30)
    <3>2. CASE k # 0
      <4>1. h[k - 1] = Slot(s, e[k - 1])
        BY <1>5, <3>2, SMTT(30), Z3T(30)
      <4> QED
        BY <1>10, <2>1, <3>2, <4>1, SMTT(30), Z3T(30)
    <3> QED
      BY <3>1, <3>2, SMTT(30), Z3T(30)
  <2>3. h = [k \in 0 .. n |-> IF k = 0 THEN NextShown(s) ELSE NextShown((h[k - 1] + 1) % NPROC)]
    BY <2>2, SMTT(30), Z3T(30)
  <2>4. h[n] = Slot(s, e[n]) /\ n \in Nat
    BY <1>5, SMTT(30), Z3T(30)
  <2> HIDE DEF h
  <2> QED
    BY <2>3, <2>4, ShowingIs, SMTT(30), Z3T(30)
<1>12. ASSUME NEW p \in Loaded PROVE \E n \in 0 .. c - 1 : Slot(s, e[n]) = p
  <2>1. PICK k \in Pids : Slot(s, k) = p
    BY <1>1, SMTT(30), Z3T(30)
  <2>2. k \in D
    BY <2>1, SMTT(30), Z3T(30) DEF Distances, D
  <2> QED
    BY <1>6, <2>1, <2>2, SMTT(30), Z3T(30)
<1>13. ASSUME NEW n \in 0 .. c - 1 PROVE Slot(s, e[n]) \in Loaded
  BY <1>1, <1>7, SMTT(30), Z3T(30) DEF Distances, D
<1> HIDE DEF Loaded
<1>14. \A n \in 0 .. c - 1 : Showing(s, n) \in Loaded
  BY <1>11, <1>13, SMTT(30), Z3T(30)
<1>15. \A p \in Loaded : \E n \in 0 .. c - 1 : Showing(s, n) = p
  BY <1>11, <1>12, SMTT(30), Z3T(30)
<1> QED
  BY <1>4, <1>14, <1>15, SMTT(30), Z3T(30)

\* In every state of the kernel, the rotation of memshow through the process
\* table as it stands shows each loaded process.
THEOREM RotationShowsAll == Spec => []EveryProcessShown
<1>1. IInv => EveryProcessShown
  BY LoadedShown, RotationComplete, ZenonT(30) DEF IInv
<1> QED
  BY <1>1, Invariance, PTL
=============================================================================
