----------------------------- MODULE RebootProofs ----------------------------
(***************************************************************************)
(* Proofs about Reboot, for every symbol table and any number of reboots:  *)
(* the active page table is one, nothing unmapped is touched, and every    *)
(* kernel starts with the data it was linked with.  And about the symbol   *)
(* table: the sort puts it in order, each round of lookup_symbol shrinks   *)
(* the interval that is left, and what it finds is the address's owner.    *)
(***************************************************************************)
EXTENDS Reboot, TLAPS, FiniteSetTheorems

(* Where the kernel stands tells which table is active, which is whole and  *)
(* what the stash holds; a search runs only in a running kernel, and only  *)
(* once the symbol table is mapped.                                        *)
RInv ==
  /\ fault = FALSE
  /\ pc \in {"off", "stash", "clear", "build", "switch", "run", "fill", "leave",
             "restore", "again"}
  /\ pc \in {"stash", "clear", "build", "switch", "restore", "again"}
       => cr3 = "low" /\ low = "valid"
  /\ pc \in {"run", "fill", "leave"} => cr3 = "kernel" /\ ktable = "built"
  /\ pc = "leave" => low = "valid"
  /\ pc = "switch" => ktable = "built"
  /\ pc \in {"stash", "clear"} => data = "initial" /\ bss = "initial"
  /\ stash \in {"none", "initial"}
  /\ pc \notin {"off", "stash"} => stash = "initial"
  /\ phase = "search" => pc = "run" /\ mapped

LEMMA RInitInv == RInit => RInv
BY SMTT(30), Z3T(30) DEF RInit, RInv, SInit

\* What is mapped where: everything under the low table, the kernel always.
LEMMA RMapped ==
  ASSUME RInv, pc # "off"
  PROVE  /\ {"kernel"} \subseteq Mapped
         /\ cr3 = "low" => {"kernel", "stash"} \subseteq Mapped
BY DEF RInv, Mapped

\* An access to mapped memory is no fault.
LEMMA RAccess ==
  ASSUME NEW regions, regions \subseteq Mapped, fault = FALSE, Access(regions)
  PROVE  fault' = FALSE
BY ZenonT(30) DEF Access

LEMMA RBootInv == RInv /\ BootStep => RInv'
<1>1. RInv /\ PowerOn => RInv'
  BY SMTT(30), Z3T(30) DEF RInv, PowerOn, Goto, svars
<1>2. ASSUME RInv, StashData PROVE RInv'
  <2>1. fault' = FALSE
    BY <1>2, RMapped, RAccess, ZenonT(30) DEF RInv, StashData, Goto
  <2> QED
    BY <1>2, <2>1, SMTT(30), Z3T(30) DEF RInv, StashData, Goto, svars
<1>3. ASSUME RInv, ClearTable PROVE RInv'
  <2>1. fault' = FALSE
    BY <1>3, RMapped, RAccess, ZenonT(30) DEF RInv, ClearTable, Goto
  <2> QED
    BY <1>3, <2>1, SMTT(30), Z3T(30) DEF RInv, ClearTable, Goto
<1>4. ASSUME RInv, BuildTable PROVE RInv'
  <2>1. fault' = FALSE
    BY <1>4, RMapped, RAccess, ZenonT(30) DEF RInv, BuildTable, Goto
  <2> QED
    BY <1>4, <2>1, SMTT(30), Z3T(30) DEF RInv, BuildTable, Goto, svars
<1>5. RInv /\ SwitchTable => RInv'
  BY SMTT(30), Z3T(30) DEF RInv, SwitchTable, Goto, svars
<1> QED
  BY <1>1, <1>2, <1>3, <1>4, <1>5, SMTT(30), Z3T(30) DEF BootStep

LEMMA RRunInv == RInv /\ (Work \/ Search) => RInv'
<1>1. ASSUME RInv, Work PROVE RInv'
  <2>1. fault' = FALSE
    BY <1>1, RMapped, RAccess, ZenonT(30) DEF RInv, Work
  <2> QED
    BY <1>1, <2>1, SMTT(30), Z3T(30) DEF RInv, Work, svars
<1>2. ASSUME RInv, pc = "run", Probe, Access({"kernel", "symtab"}),
             UNCHANGED <<pc, cr3, low, ktable, data, bss, stash>>
      PROVE  RInv'
  <2>1. phase = "search" /\ mapped /\ mapped' = mapped
    BY <1>2, SMTT(30), Z3T(30) DEF RInv, Probe
  <2>2. fault' = FALSE
    BY <1>2, <2>1, ZenonT(30) DEF RInv, Access, Mapped
  <2> QED
    BY <1>2, <2>1, <2>2, SMTT(30), Z3T(30) DEF RInv
<1>3. ASSUME RInv, pc = "run", Access({"kernel"}),
             (\E a \in Addresses : Lookup(a)) \/ Exhausted \/ Answered,
             UNCHANGED <<pc, cr3, low, ktable, data, bss, stash>>
      PROVE  RInv'
  <2>1. fault' = FALSE
    BY <1>3, ZenonT(30) DEF RInv, Access, Mapped
  <2>2. phase' = "search" => mapped'
    BY <1>3, SMTT(30), Z3T(30) DEF Lookup, Exhausted, Answered
  <2> QED
    BY <1>3, <2>1, <2>2, SMTT(30), Z3T(30) DEF RInv
<1> QED
  BY <1>1, <1>2, <1>3, SMTT(30), Z3T(30) DEF Search

LEMMA RRebootInv == RInv /\ RebootStep => RInv'
<1>1. ASSUME RInv, ClearLow PROVE RInv'
  <2>1. fault' = FALSE
    BY <1>1, RMapped, RAccess, ZenonT(30) DEF RInv, ClearLow, Goto
  <2> QED
    BY <1>1, <2>1, SMTT(30), Z3T(30) DEF RInv, ClearLow, Goto, svars
<1>2. ASSUME RInv, FillLow PROVE RInv'
  <2>1. fault' = FALSE
    BY <1>2, RMapped, RAccess, ZenonT(30) DEF RInv, FillLow, Goto
  <2> QED
    BY <1>2, <2>1, SMTT(30), Z3T(30) DEF RInv, FillLow, Goto, svars
<1>3. RInv /\ LeaveTable => RInv'
  BY SMTT(30), Z3T(30) DEF RInv, LeaveTable, Goto, svars
<1>4. ASSUME RInv, Restore PROVE RInv'
  <2>1. fault' = FALSE
    BY <1>4, RMapped, RAccess, ZenonT(30) DEF RInv, Restore, Goto
  <2> QED
    BY <1>4, <2>1, SMTT(30), Z3T(30) DEF RInv, Restore, Goto
<1>5. ASSUME RInv, Restart PROVE RInv'
  <2>1. fault' = FALSE
    BY <1>5, RMapped, RAccess, ZenonT(30) DEF RInv, Restart, Goto
  <2> QED
    BY <1>5, <2>1, SMTT(30), Z3T(30) DEF RInv, Restart, Goto
<1> QED
  BY <1>1, <1>2, <1>3, <1>4, <1>5, SMTT(30), Z3T(30) DEF RebootStep

LEMMA RNextInv == RInv /\ [RNext]_<<svars, rvars>> => RInv'
<1> SUFFICES ASSUME RInv, [RNext]_<<svars, rvars>> PROVE RInv'
  BY SMTT(30), Z3T(30)
<1>1. CASE pc = "off" /\ SortSymtab /\ UNCHANGED rvars
  BY <1>1, SMTT(30), Z3T(30) DEF RInv, SortSymtab, rvars
<1>2. CASE UNCHANGED <<svars, rvars>>
  BY <1>2, SMTT(30), Z3T(30) DEF RInv, svars, rvars
<1> QED
  BY <1>1, <1>2, RBootInv, RRunInv, RRebootInv, SMTT(30), Z3T(30) DEF RNext

LEMMA RebootInvariance == RSpec => []RInv
BY RInitInv, RNextInv, PTL DEF RSpec

\* Whatever the symbols, no step of boot, reboot or lookup_symbol runs on a
\* page table that is cleared or used for something else, or touches the stash
\* or the symbols while they are not mapped.
THEOREM TablesHold == RSpec => []TablesAlwaysHold
<1>1. RInv => TablesAlwaysHold
  BY SMTT(30), Z3T(30) DEF RInv, TablesAlwaysHold, Mapped
<1> QED
  BY <1>1, RebootInvariance, PTL

\* After any number of soft reboots kernel_start finds the linked data and a
\* zero bss, and the stash never holds anything but the linked data.
THEOREM AlwaysStartsFresh == RSpec => []StartsFresh
<1>1. RInv => StartsFresh
  BY SMTT(30), Z3T(30) DEF RInv, StartsFresh
<1> QED
  BY <1>1, RebootInvariance, PTL

-----------------------------------------------------------------------------
(* The bisection of lookup_symbol *)

(* The interval is one of the table's. *)
Interval ==
  /\ nsym \in Nat
  /\ l \in 0 .. nsym /\ r \in 0 .. nsym
  /\ phase = "search" => l <= r

LEMMA MiddleInside ==
  ASSUME NEW x \in Nat, NEW y \in Nat, x < y
  PROVE  LET m == x + ((y - x) \div 2) IN m \in Nat /\ x <= m /\ m < y
BY SMTT(30), Z3T(30)

LEMMA IntervalInit == RInit => Interval
<1> SUFFICES ASSUME RInit PROVE Interval
  BY SMTT(30), Z3T(30)
<1>1. PICK n \in 1 .. MaxSymbols : \E s \in [1 .. n -> Symbols] : sym = <<NullSymbol>> \o s
  BY SMTT(30), Z3T(30) DEF RInit, SInit
<1>2. PICK s \in [1 .. n -> Symbols] : sym = <<NullSymbol>> \o s
  BY <1>1, SMTT(30), Z3T(30)
<1>3. s \in Seq(Symbols) /\ Len(s) = n
  BY <1>1
<1>4. nsym = n + 1
  BY <1>2, <1>3, NullSymbol \in {NullSymbol} DEF nsym
<1> QED
  BY <1>1, <1>4, SymtabAssumption, SMTT(30), Z3T(30) DEF Interval, RInit, SInit

LEMMA SortKeepsLength ==
  ASSUME nsym \in Nat, SortSymtab
  PROVE  nsym' = nsym
<1>1. \A s : Len(s) \in Nat => Len(StableSort(s)) = Len(s)
  BY SMTT(30), Z3T(30) DEF StableSort
<1> QED
  BY <1>1, SMTT(30), Z3T(30) DEF SortSymtab, nsym

\* A round of the loop narrows the interval, or ends the search.
LEMMA ProbeNarrows ==
  ASSUME Interval, Probe
  PROVE  Interval' /\ (phase' = "search" => r' - l' < r - l)
<1>1. l \in Nat /\ r \in Nat /\ l < r /\ r <= nsym /\ nsym \in Nat /\ phase = "search"
  BY SMTT(30), Z3T(30) DEF Interval, Probe
<1>2. Middle \in Nat /\ l <= Middle /\ Middle < r
  BY <1>1, MiddleInside, SMTT(30), Z3T(30) DEF Middle
<1>3. nsym' = nsym
  BY SMTT(30), Z3T(30) DEF Probe, nsym
<1>4. CASE Hit(Middle)
  BY <1>1, <1>2, <1>3, <1>4, SMTT(30), Z3T(30) DEF Probe, Interval
<1>5. CASE ~ Hit(Middle) /\ sym[Middle + 1].value < addr
  BY <1>1, <1>2, <1>3, <1>5, SMTT(30), Z3T(30) DEF Probe, Interval, RightOf
<1>6. CASE ~ Hit(Middle) /\ ~ sym[Middle + 1].value < addr
  BY <1>1, <1>2, <1>3, <1>6, SMTT(30), Z3T(30) DEF Probe, Interval
<1> QED
  BY <1>4, <1>5, <1>6, SMTT(30), Z3T(30)

(* A step within a search leaves less to search. *)
Narrows == phase = "search" /\ phase' = "search" => r' - l' < r - l

LEMMA IntervalNext ==
  ASSUME RInv, Interval, [RNext]_<<svars, rvars>>
  PROVE  Interval' /\ [Narrows]_svars
<1>1. CASE SortSymtab
  BY <1>1, SortKeepsLength, SMTT(30), Z3T(30) DEF Interval, SortSymtab, Narrows
<1>2. CASE UNCHANGED svars
  BY <1>2, SMTT(30), Z3T(30) DEF Interval, svars, nsym
<1>3. CASE \E a \in Addresses : Lookup(a)
  <2>1. PICK a \in Addresses : Lookup(a)
    BY <1>3, SMTT(30), Z3T(30)
  <2>2. nsym' = nsym /\ l' = 0 /\ r' = nsym /\ phase = "built"
    BY <2>1, SMTT(30), Z3T(30) DEF Lookup, nsym
  <2> QED
    BY <2>2, SMTT(30), Z3T(30) DEF Interval, Narrows
<1>4. CASE Probe
  BY <1>4, ProbeNarrows, SMTT(30), Z3T(30) DEF Narrows
<1>5. CASE Exhausted \/ Answered
  BY <1>5, SMTT(30), Z3T(30) DEF Interval, Exhausted, Answered, nsym, Narrows
<1>6. CASE UNCHANGED <<sym, phase, l, r>> /\ pc # "run"
  <2>1. phase # "search" /\ nsym' = nsym
    BY <1>6, SMTT(30), Z3T(30) DEF RInv, nsym
  <2> QED
    BY <1>6, <2>1, SMTT(30), Z3T(30) DEF Interval, Narrows
<1>7. CASE BootStep
  BY <1>2, <1>6, <1>7, SMTT(30), Z3T(30) DEF BootStep, PowerOn, StashData, ClearTable, BuildTable, SwitchTable, Goto
<1>8. CASE RebootStep
  BY <1>2, <1>6, <1>8, SMTT(30), Z3T(30) DEF RebootStep, ClearLow, FillLow, LeaveTable, Restore, Restart, Goto
<1>9. CASE Work \/ Search
  BY <1>2, <1>3, <1>4, <1>5, <1>9, SMTT(30), Z3T(30) DEF Work, Search
<1>10. CASE UNCHANGED <<svars, rvars>>
  BY <1>2, <1>10, SMTT(30), Z3T(30)
<1> QED
  BY <1>1, <1>7, <1>8, <1>9, <1>10, SMTT(30), Z3T(30) DEF RNext

\* Whatever table the tool has written, sorted or not, every round of
\* lookup_symbol's loop that does not end the search leaves a shorter interval,
\* so a lookup takes at most as many rounds as the table has symbols.
THEOREM SearchNarrows == RSpec => [][Narrows]_svars
<1>1. RInit => Interval
  BY IntervalInit, SMTT(30), Z3T(30)
<1>2. RInv /\ Interval /\ [RNext]_<<svars, rvars>> => Interval' /\ [Narrows]_svars
  BY IntervalNext, SMTT(30), Z3T(30)
<1> QED
  BY <1>1, <1>2, RebootInvariance, PTL DEF RSpec

-----------------------------------------------------------------------------
(* The table's order.                                                      *)

Entries == [value : Nat, size : Nat, special : BOOLEAN]

\* A nonempty set of naturals has a least element.
LEMMA LeastNatural ==
  ASSUME NEW T, T \subseteq Nat, T # {}
  PROVE  \E x \in T : \A y \in T : x <= y
<1>1. PICK x \in T : \A y \in T : ~ (<<y, x>> \in OpToRel(<, Nat))
  BY NatLessThanWellFounded, WFMin, ZenonT(30)
<1>2. ASSUME NEW y \in T, y < x PROVE FALSE
  <2>1. <<y, x>> \in OpToRel(<, Nat)
    BY <1>2, Zenon DEF OpToRel
  <2> QED
    BY <1>1, <2>1, ZenonT(30)
<1>3. \A y \in T : x <= y
  BY <1>2, SMTT(30), Z3T(30)
<1> QED
  BY <1>3, SMTT(30), Z3T(30)

\* symbol_less is a strict weak order.
LEMMA LessAsymmetric ==
  ASSUME NEW a \in Entries, NEW b \in Entries
  PROVE  Less(a, b) => ~ Less(b, a)
BY SMTT(30), Z3T(30) DEF Entries, Less

LEMMA LessTransitive ==
  ASSUME NEW a \in Entries, NEW b \in Entries, NEW c \in Entries
  PROVE  ~ Less(a, b) /\ ~ Less(b, c) => ~ Less(a, c)
BY SMTT(30), Z3T(30) DEF Entries, Less

Sorted(s) == \A i, j \in 2 .. Len(s) : i < j => ~ Less(s[j], s[i])

\* A table whose neighbours are in order is sorted.
LEMMA NeighboursSorted ==
  ASSUME NEW s \in Seq(Entries), \A i \in 3 .. Len(s) : ~ Less(s[i], s[i - 1])
  PROVE  Sorted(s)
<1> DEFINE Bad == {j \in 3 .. Len(s) : \E i \in 2 .. j - 1 : Less(s[j], s[i])}
<1>1. \A i \in 1 .. Len(s) : s[i] \in Entries
  BY SMTT(30), Z3T(30)
<1>2. Bad = {}
  <2> SUFFICES ASSUME Bad # {} PROVE FALSE
    OBVIOUS
  <2>1. PICK j \in Bad : \A x \in Bad : j <= x
    <3>1. Bad \subseteq Nat
      BY SMTT(30), Z3T(30)
    <3> HIDE DEF Bad
    <3> QED
      BY <3>1, LeastNatural, ZenonT(30)
  <2>2. PICK i \in 2 .. j - 1 : Less(s[j], s[i])
    BY <2>1, SMTT(30), Z3T(30)
  <2>3. j \in 3 .. Len(s) /\ i # j - 1
    BY <2>1, <2>2, SMTT(30), Z3T(30)
  <2>4. j - 1 \in 3 .. Len(s) /\ i \in 2 .. (j - 1) - 1
    BY <2>2, <2>3, SMTT(30), Z3T(30)
  <2>5. ~ Less(s[j - 1], s[i])
    BY <2>1, <2>4, SMTT(30), Z3T(30)
  <2>6. ~ Less(s[j], s[j - 1])
    BY <2>3
  <2>7. s[i] \in Entries /\ s[j] \in Entries /\ s[j - 1] \in Entries
    BY <1>1, <2>3, <2>4, SMTT(30), Z3T(30)
  <2> QED
    BY <2>2, <2>5, <2>6, <2>7, LessTransitive, SMTT(30), Z3T(30)
<1>3. ASSUME NEW i \in 2 .. Len(s), NEW j \in 2 .. Len(s), i < j, Less(s[j], s[i]) PROVE FALSE
  <2>1. j \in 3 .. Len(s) /\ i \in 2 .. j - 1
    BY <1>3, SMTT(30), Z3T(30)
  <2>2. j \in Bad
    BY <1>3, <2>1, SMTT(30), Z3T(30)
  <2> QED
    BY <2>2, <1>2, SMTT(30), Z3T(30)
<1> QED
  BY <1>3, SMTT(30), Z3T(30) DEF Sorted

\* Symbol j comes before i, or is i: std::stable_sort's order of the places.
NotBehind(s, j, i) == Less(s[j], s[i]) \/ (~ Less(s[i], s[j]) /\ j <= i)
AheadOf(s, i) == {j \in 2 .. Len(s) : NotBehind(s, j, i)}

LEMMA NotBehindOrder ==
  ASSUME NEW s \in Seq(Entries), NEW i \in 2 .. Len(s), NEW j \in 2 .. Len(s), NEW k \in 2 .. Len(s)
  PROVE  /\ NotBehind(s, i, i)
         /\ NotBehind(s, i, j) \/ NotBehind(s, j, i)
         /\ NotBehind(s, i, j) /\ NotBehind(s, j, i) => i = j
         /\ NotBehind(s, i, j) /\ NotBehind(s, j, k) => NotBehind(s, i, k)
<1>1. s[i] \in Entries /\ s[j] \in Entries /\ s[k] \in Entries
  BY SMTT(30), Z3T(30)
<1>2. /\ ~ Less(s[i], s[i])
      /\ Less(s[i], s[j]) => ~ Less(s[j], s[i])
      /\ Less(s[i], s[k]) => ~ Less(s[k], s[i])
      /\ Less(s[j], s[k]) => ~ Less(s[k], s[j])
  BY <1>1, LessAsymmetric, SMTT(30), Z3T(30)
<1>3. /\ ~ Less(s[k], s[j]) /\ ~ Less(s[j], s[i]) => ~ Less(s[k], s[i])
      /\ ~ Less(s[i], s[k]) /\ ~ Less(s[k], s[j]) => ~ Less(s[i], s[j])
      /\ ~ Less(s[j], s[i]) /\ ~ Less(s[i], s[k]) => ~ Less(s[j], s[k])
  BY <1>1, LessTransitive, SMTT(30), Z3T(30)
<1>4. i \in Nat /\ j \in Nat /\ k \in Nat
  BY SMTT(30), Z3T(30)
<1> QED
  BY <1>2, <1>3, <1>4, SMTT(30), Z3T(30) DEF NotBehind

\* The farther back a symbol belongs, the more are not behind it.
LEMMA AheadGrows ==
  ASSUME NEW s \in Seq(Entries), NEW i \in 2 .. Len(s), NEW j \in 2 .. Len(s)
  PROVE  /\ Cardinality(AheadOf(s, i)) \in 1 .. Len(s) - 1
         /\ i # j /\ NotBehind(s, i, j) => Cardinality(AheadOf(s, i)) < Cardinality(AheadOf(s, j))
<1>1. Len(s) \in Nat /\ Len(s) >= 2
  BY SMTT(30), Z3T(30)
<1>2. IsFiniteSet(2 .. Len(s)) /\ Cardinality(2 .. Len(s)) = Len(s) - 1
  BY <1>1, FS_Interval, SMTT(30), Z3T(30)
<1>3. \A x : AheadOf(s, x) \subseteq 2 .. Len(s)
  BY SMTT(30), Z3T(30) DEF AheadOf
<1>4. \A x : IsFiniteSet(AheadOf(s, x)) /\ Cardinality(AheadOf(s, x)) <= Len(s) - 1
  BY <1>2, <1>3, FS_Subset, SMTT(30), Z3T(30)
<1>5. \A x : Cardinality(AheadOf(s, x)) \in Nat
  BY <1>4, FS_CardinalityType, SMTT(30), Z3T(30)
<1>6. i \in AheadOf(s, i)
  BY NotBehindOrder, SMTT(30), Z3T(30) DEF AheadOf
<1>7. Cardinality(AheadOf(s, i)) # 0
  BY <1>4, <1>6, FS_EmptySet, SMTT(30), Z3T(30)
<1>8. ASSUME i # j, NotBehind(s, i, j) PROVE Cardinality(AheadOf(s, i)) < Cardinality(AheadOf(s, j))
  <2>1. AheadOf(s, i) \subseteq AheadOf(s, j)
    BY <1>8, NotBehindOrder, SMTT(30), Z3T(30) DEF AheadOf
  <2>2. j \in AheadOf(s, j) /\ j \notin AheadOf(s, i)
    BY <1>8, NotBehindOrder, SMTT(30), Z3T(30) DEF AheadOf
  <2>3. Cardinality(AheadOf(s, i)) <= Cardinality(AheadOf(s, j))
        /\ Cardinality(AheadOf(s, j)) # Cardinality(AheadOf(s, i))
    BY <1>4, <2>1, <2>2, FS_Subset, SMTT(30), Z3T(30)
  <2> QED
    BY <1>5, <2>3, SMTT(30), Z3T(30)
<1> QED
  BY <1>1, <1>4, <1>5, <1>7, <1>8, SMTT(30), Z3T(30)

\* Every place of the sorted table gets exactly one symbol.
LEMMA PlaceTaken ==
  ASSUME NEW s \in Seq(Entries), NEW k \in 2 .. Len(s)
  PROVE  \E i \in 2 .. Len(s) : Cardinality(AheadOf(s, i)) = k - 1
<1> DEFINE D == 2 .. Len(s)
           C == 1 .. Len(s) - 1
           f == [i \in D |-> Cardinality(AheadOf(s, i))]
<1>1. Len(s) \in Nat /\ Len(s) >= 2
  BY SMTT(30), Z3T(30)
<1>2. f \in [D -> C]
  BY AheadGrows, SMTT(30), Z3T(30)
<1>3. ASSUME NEW i \in D, NEW j \in D, i # j PROVE f[i] # f[j]
  <2>1. NotBehind(s, i, j) \/ NotBehind(s, j, i)
    BY NotBehindOrder, SMTT(30), Z3T(30)
  <2>2. /\ Cardinality(AheadOf(s, i)) \in Nat /\ Cardinality(AheadOf(s, j)) \in Nat
        /\ \/ Cardinality(AheadOf(s, i)) < Cardinality(AheadOf(s, j))
           \/ Cardinality(AheadOf(s, j)) < Cardinality(AheadOf(s, i))
    BY <1>3, <2>1, AheadGrows, SMTT(30), Z3T(30)
  <2> QED
    BY <2>2, SMTT(30), Z3T(30)
<1>4. f \in Injection(D, C)
  BY <1>2, <1>3, SMTT(30), Z3T(30) DEF Injection, IsInjective
<1>5. IsFiniteSet(C) /\ Cardinality(C) = Len(s) - 1 /\ Cardinality(D) = Len(s) - 1
  BY <1>1, FS_Interval, SMTT(30), Z3T(30)
<1>6. f \in Surjection(D, C)
  <2> HIDE DEF f, D, C
  <2> QED
    BY <1>4, <1>5, FS_Injection, SMTT(30), Z3T(30)
<1>7. k - 1 \in C
  BY <1>1, SMTT(30), Z3T(30)
<1>8. PICK i \in D : f[i] = k - 1
  BY <1>6, <1>7, ZenonT(30) DEF Surjection
<1> QED
  BY <1>8, SMTT(30), Z3T(30)

LEMMA StableSortSorts ==
  ASSUME NEW s \in Seq(Entries), Len(s) >= 1
  PROVE  /\ StableSort(s) \in Seq(Entries)
         /\ Len(StableSort(s)) = Len(s)
         /\ StableSort(s)[1] = s[1]
         /\ \A k \in 2 .. Len(s) : \E i \in 2 .. Len(s) : StableSort(s)[k] = s[i]
         /\ Sorted(StableSort(s))
<1> DEFINE P(k) == CHOOSE i \in 2 .. Len(s) : Cardinality(AheadOf(s, i)) = k - 1
<1>1. ASSUME NEW k \in 2 .. Len(s) PROVE P(k) \in 2 .. Len(s) /\ Cardinality(AheadOf(s, P(k))) = k - 1
  BY PlaceTaken, ZenonT(30)
<1>2. StableSort(s) = [k \in 1 .. Len(s) |-> IF k = 1 THEN s[1] ELSE s[P(k)]]
  BY SMTT(30), Z3T(30) DEF StableSort, AheadOf, NotBehind
<1> HIDE DEF P
<1>3. ASSUME NEW k \in 1 .. Len(s) PROVE (IF k = 1 THEN s[1] ELSE s[P(k)]) \in Entries
  BY <1>1, SMTT(30), Z3T(30)
<1>4. StableSort(s) \in [1 .. Len(s) -> Entries]
  BY <1>2, <1>3
<1>5. StableSort(s) \in Seq(Entries) /\ Len(StableSort(s)) = Len(s)
  BY <1>4, SMTT(30), Z3T(30)
<1>6. StableSort(s)[1] = s[1]
  BY <1>2, SMTT(30), Z3T(30)
<1>7. \A k \in 2 .. Len(s) : StableSort(s)[k] = s[P(k)]
  BY <1>2, SMTT(30), Z3T(30)
<1>8. ASSUME NEW i \in 2 .. Len(s), NEW j \in 2 .. Len(s), i < j
      PROVE  ~ Less(s[P(j)], s[P(i)])
  <2>1. Cardinality(AheadOf(s, P(i))) < Cardinality(AheadOf(s, P(j)))
    BY <1>1, <1>8, SMTT(30), Z3T(30)
  <2>2. ~ NotBehind(s, P(j), P(i))
    <3>1. P(i) # P(j)
      BY <2>1, <1>1, <1>8, SMTT(30), Z3T(30)
    <3>2. NotBehind(s, P(j), P(i)) => Cardinality(AheadOf(s, P(j))) < Cardinality(AheadOf(s, P(i)))
      BY <1>1, <3>1, AheadGrows, SMTT(30), Z3T(30)
    <3> QED
      BY <2>1, <3>2, <1>1, SMTT(30), Z3T(30)
  <2> QED
    BY <2>2, SMTT(30), Z3T(30) DEF NotBehind
<1> QED
  BY <1>1, <1>5, <1>6, <1>7, <1>8, SMTT(30), Z3T(30) DEF Sorted

-----------------------------------------------------------------------------
(* lookup_symbol finds the owner.                                          *)

\* The table as the tool leaves it, and before.
Table ==
  /\ sym \in Seq(Entries) /\ nsym >= 2
  /\ sym[1] = NullSymbol
  /\ phase # "linked" => Sorted(sym)
  /\ addr \in Nat

LEMMA TableInit == RInit => Table
<1> SUFFICES ASSUME RInit PROVE Table
  OBVIOUS
<1>1. PICK n \in 1 .. MaxSymbols : \E s \in [1 .. n -> Symbols] : sym = <<NullSymbol>> \o s
  BY DEF RInit, SInit
<1>2. PICK s \in [1 .. n -> Symbols] : sym = <<NullSymbol>> \o s
  BY <1>1
<1>3. NullSymbol \in Entries
  BY SMTT(30), Z3T(30) DEF NullSymbol, Entries
<1>4. s \in Seq(Entries) /\ Len(s) = n
  <2>1. Symbols \subseteq Entries
    BY SymtabAssumption, SMTT(30), Z3T(30) DEF Entries
  <2>2. s \in [1 .. n -> Entries]
    BY <2>1, SMTT(30), Z3T(30)
  <2> QED
    BY <2>2, SMTT(30), Z3T(30)
<1>5. <<NullSymbol>> \in Seq(Entries) /\ Len(<<NullSymbol>>) = 1 /\ <<NullSymbol>>[1] = NullSymbol
  BY <1>3, SMTT(30), Z3T(30)
<1>6. sym \in Seq(Entries) /\ Len(sym) = 1 + n /\ sym[1] = NullSymbol
  BY <1>2, <1>4, <1>5, SMTT(30), Z3T(30)
<1> QED
  BY <1>6, SymtabAssumption DEF Table, nsym, RInit, SInit

\* Sorting leaves a sorted table, by either branch of sort_symtab.
LEMMA TableSort ==
  ASSUME Table, SortSymtab
  PROVE  Table'
<1>1. sym \in Seq(Entries) /\ Len(sym) >= 2 /\ sym[1] = NullSymbol
  BY SMTT(30), Z3T(30) DEF Table, nsym
<1>2. CASE \E i \in 3 .. nsym : Less(sym[i], sym[i - 1])
  <2>1. sym' = StableSort(sym) /\ addr' = addr
    BY <1>2, SMTT(30), Z3T(30) DEF SortSymtab
  <2>2. /\ StableSort(sym) \in Seq(Entries) /\ Len(StableSort(sym)) = Len(sym)
        /\ StableSort(sym)[1] = sym[1] /\ Sorted(StableSort(sym))
    <3>1. Len(sym) >= 1
      BY <1>1, SMTT(30), Z3T(30)
    <3> QED
      BY <1>1, <3>1, StableSortSorts, ZenonT(30)
  <2> QED
    BY <1>1, <2>1, <2>2, SMTT(30), Z3T(30) DEF Table, nsym
<1>3. CASE ~ \E i \in 3 .. nsym : Less(sym[i], sym[i - 1])
  <2>1. sym' = sym /\ addr' = addr
    BY <1>3, SMTT(30), Z3T(30) DEF SortSymtab
  <2>2. Sorted(sym)
    BY <1>1, <1>3, NeighboursSorted, SMTT(30), Z3T(30) DEF nsym
  <2> QED
    BY <1>1, <2>1, <2>2, SMTT(30), Z3T(30) DEF Table, nsym
<1> QED
  BY <1>2, <1>3, SMTT(30), Z3T(30)

\* A searchable table seen from an address that some ordinary symbol starts
\* at or below: special symbols first and below the address, then the ordinary
\* ones with rising addresses.
LEMMA TableShape ==
  ASSUME Table, phase # "linked", Searchable, Below # {}
  PROVE  /\ nsym \in Nat
         /\ \A i \in 1 .. nsym : sym[i].value \in Nat /\ sym[i].size \in Nat
         /\ \E b \in Ordinary : /\ sym[b].value > 0 /\ sym[b].value <= addr
                                /\ \A i \in 2 .. nsym : sym[i].special => i < b
         /\ \A i \in 2 .. nsym : sym[i].special => sym[i].value < addr
         /\ \A i \in Ordinary, j \in 2 .. nsym : i < j => j \in Ordinary
         /\ \A i \in 1 .. nsym, j \in 2 .. nsym : i < j => sym[i].value <= sym[j].value
         /\ \A i \in 2 .. nsym, j \in Ordinary : i < j => sym[i].value < sym[j].value
<1>1. sym \in Seq(Entries) /\ nsym \in Nat /\ Sorted(sym) /\ addr \in Nat /\ sym[1].value = 0
  BY SMTT(30), Z3T(30) DEF Table, nsym, NullSymbol
<1>2. ASSUME NEW i \in 1 .. nsym
      PROVE  sym[i].value \in Nat /\ sym[i].size \in Nat /\ sym[i].special \in BOOLEAN
  <2>1. sym[i] \in Entries
    BY <1>1, SMTT(30), Z3T(30) DEF nsym
  <2> QED
    BY <2>1, SMTT(30), Z3T(30) DEF Entries
<1>3. ASSUME NEW i \in 2 .. nsym, NEW j \in 2 .. nsym, i < j
      PROVE  /\ sym[j].special => sym[i].special
             /\ ~ sym[i].special => sym[i].value <= sym[j].value
  <2>1. ~ Less(sym[j], sym[i])
    BY <1>1, <1>3, SMTT(30), Z3T(30) DEF Sorted, nsym
  <2>2. i \in 1 .. nsym /\ j \in 1 .. nsym
    BY <1>1, SMTT(30), Z3T(30)
  <2> QED
    BY <1>2, <2>1, <2>2, SMTT(30), Z3T(30) DEF Less
<1>4. \A i \in Ordinary, j \in 2 .. nsym : i < j => j \in Ordinary
  BY <1>3, SMTT(30), Z3T(30) DEF Ordinary
<1>5. PICK b \in Below : TRUE
  BY SMTT(30), Z3T(30)
<1>6. b \in Ordinary /\ b \in 2 .. nsym /\ sym[b].value > 0 /\ sym[b].value <= addr
  BY <1>5, SMTT(30), Z3T(30) DEF Below, Ordinary
<1>7. \A i \in 2 .. nsym : sym[i].special => sym[i].value < sym[b].value
  BY <1>6, SMTT(30), Z3T(30) DEF Searchable
<1>8. \A i \in 2 .. nsym : sym[i].special => sym[i].value < addr
  <2> TAKE i \in 2 .. nsym
  <2>1. sym[i].value \in Nat /\ sym[b].value \in Nat
    BY <1>1, <1>2, <1>6, SMTT(30), Z3T(30)
  <2> QED
    BY <1>1, <1>6, <1>7, <2>1, SMTT(30), Z3T(30)
<1>9. \A i \in 2 .. nsym : sym[i].special => i < b
  <2> SUFFICES ASSUME NEW i \in 2 .. nsym, sym[i].special, ~ (i < b) PROVE FALSE
    BY SMTT(30), Z3T(30)
  <2>1. i # b
    BY <1>6, SMTT(30), Z3T(30) DEF Ordinary
  <2>2. b < i
    BY <1>6, <2>1, SMTT(30), Z3T(30)
  <2> QED
    BY <1>4, <1>6, <2>2, SMTT(30), Z3T(30) DEF Ordinary
<1>10. ASSUME NEW i \in 2 .. nsym, NEW j \in Ordinary, i < j PROVE sym[i].value < sym[j].value
  <2>1. j \in 2 .. nsym /\ sym[i].value \in Nat /\ sym[j].value \in Nat
    BY <1>2, <1>1, SMTT(30), Z3T(30) DEF Ordinary
  <2>2. CASE sym[i].special
    BY <2>2, SMTT(30), Z3T(30) DEF Searchable
  <2>3. CASE ~ sym[i].special
    <3>1. i \in Ordinary /\ sym[i].value # sym[j].value
      BY <1>1, <1>10, <2>1, <2>3, SMTT(30), Z3T(30) DEF Searchable, Ordinary
    <3>2. sym[i].value <= sym[j].value
      BY <1>3, <1>10, <2>1, <2>3, SMTT(30), Z3T(30)
    <3> QED
      BY <2>1, <3>1, <3>2, SMTT(30), Z3T(30)
  <2> QED
    BY <2>2, <2>3, SMTT(30), Z3T(30)
<1>11. ASSUME NEW i \in 1 .. nsym, NEW j \in 2 .. nsym, i < j PROVE sym[i].value <= sym[j].value
  <2>1. sym[i].value \in Nat /\ sym[j].value \in Nat
    BY <1>1, <1>2, SMTT(30), Z3T(30)
  <2>2. CASE i = 1
    BY <1>1, <2>1, <2>2, SMTT(30), Z3T(30)
  <2>3. CASE i # 1 /\ j \in Ordinary
    BY <1>1, <1>10, <1>11, <2>1, <2>3, SMTT(30), Z3T(30)
  <2>4. CASE i # 1 /\ j \notin Ordinary
    <3>1. i \in 2 .. nsym /\ sym[j].special
      BY <1>1, <2>4, SMTT(30), Z3T(30) DEF Ordinary
    <3>2. sym[i].special
      BY <1>3, <1>11, <3>1, SMTT(30), Z3T(30)
    <3> QED
      BY <1>11, <3>1, <3>2, SMTT(30), Z3T(30) DEF Searchable
  <2> QED
    BY <2>2, <2>3, <2>4, SMTT(30), Z3T(30)
<1> QED
  BY <1>1, <1>2, <1>4, <1>6, <1>8, <1>9, <1>10, <1>11, SMTT(30), Z3T(30)

\* The symbol that lookup_symbol accepts is the owner, and the owner is one it
\* accepts: there is at most one.
LEMMA HitIsOwner ==
  ASSUME Table, phase # "linked", Searchable, Below # {}
  PROVE  /\ \A i \in 0 .. nsym - 1 : Hit(i) => i + 1 \in Owners
         /\ \A o \in Owners : o - 1 \in 0 .. nsym - 1 /\ Hit(o - 1)
         /\ \A o, p \in Owners : o = p
<1>1. nsym \in Nat /\ \A i \in 1 .. nsym : sym[i].value \in Nat /\ sym[i].size \in Nat
  BY TableShape, SMTT(30), Z3T(30)
<1>2. PICK b \in Ordinary : /\ sym[b].value > 0 /\ sym[b].value <= addr
                            /\ \A i \in 2 .. nsym : sym[i].special => i < b
  BY TableShape, SMTT(30), Z3T(30)
<1>3. \A i \in Ordinary, j \in 2 .. nsym : i < j => j \in Ordinary
  BY TableShape, SMTT(30), Z3T(30)
<1>4. \A i \in 1 .. nsym, j \in 2 .. nsym : i < j => sym[i].value <= sym[j].value
  BY TableShape, SMTT(30), Z3T(30)
<1>5. \A i \in 2 .. nsym, j \in Ordinary : i < j => sym[i].value < sym[j].value
  BY TableShape, SMTT(30), Z3T(30)
<1>6. addr \in Nat /\ LASTSPAN \in Nat /\ b \in 2 .. nsym /\ sym[b].value \in Nat
  BY <1>1, <1>2, SymtabAssumption, SMTT(30), Z3T(30) DEF Table, Ordinary
<1>7. ASSUME NEW i \in 0 .. nsym - 1, Hit(i) PROVE i + 1 \in Owners
  <2> DEFINE s == i + 1
  <2>1. s \in 1 .. nsym /\ sym[s].value \in Nat /\ sym[s].size \in Nat
    BY <1>1, SMTT(30), Z3T(30)
  <2>2. /\ sym[s].value <= addr
        /\ s = nsym => addr < sym[s].value + LASTSPAN
        /\ s # nsym => addr < sym[s + 1].value
        /\ sym[s].size = 0 \/ addr <= sym[s].value + sym[s].size
    BY <1>1, <1>7, SMTT(30), Z3T(30) DEF Hit
  <2> HIDE DEF s
  <2>3. ASSUME NEW j \in 2 .. nsym, sym[j].value <= addr PROVE j <= s
    <3> SUFFICES ASSUME s < j PROVE FALSE
      BY <2>1, <1>1, SMTT(30), Z3T(30)
    <3>1. s # nsym /\ s + 1 \in 1 .. nsym /\ sym[s + 1].value \in Nat /\ sym[j].value \in Nat
      BY <2>1, <1>1, SMTT(30), Z3T(30)
    <3>2. sym[s + 1].value <= sym[j].value
      BY <1>1, <1>4, <2>1, <3>1, SMTT(30), Z3T(30)
    <3> QED
      BY <1>6, <2>2, <2>3, <3>1, <3>2, SMTT(30), Z3T(30)
  <2>4. b <= s
    BY <1>2, <1>6, <2>3, SMTT(30), Z3T(30)
  <2>5. s \in 2 .. nsym /\ ~ sym[s].special
    BY <1>1, <1>2, <1>6, <2>1, <2>4, SMTT(30), Z3T(30)
  <2>6. sym[s].value > 0
    BY <1>2, <1>4, <1>6, <2>1, <2>4, <2>5, SMTT(30), Z3T(30)
  <2>7. s \in Below
    BY <2>2, <2>5, <2>6, SMTT(30), Z3T(30) DEF Below, Ordinary
  <2>8. ASSUME NEW j \in Below PROVE sym[j].value <= sym[s].value
    <3>1. j \in 2 .. nsym /\ sym[j].value <= addr /\ j \in 1 .. nsym
      BY <1>1, SMTT(30), Z3T(30) DEF Below, Ordinary
    <3>2. j <= s
      BY <2>3, <3>1, SMTT(30), Z3T(30)
    <3> QED
      BY <1>1, <1>4, <2>1, <2>5, <3>1, <3>2, SMTT(30), Z3T(30)
  <2>9. s \in Owners
    BY <2>2, <2>7, <2>8, SMTT(30), Z3T(30) DEF Owners
  <2> QED
    BY <2>9, SMTT(30), Z3T(30) DEF s
<1>8. ASSUME NEW o \in Owners PROVE o - 1 \in 0 .. nsym - 1 /\ Hit(o - 1)
  <2>1. /\ o \in Ordinary /\ o \in 2 .. nsym /\ sym[o].value <= addr /\ sym[o].value > 0
        /\ \A j \in Below : sym[j].value <= sym[o].value
        /\ sym[o].size = 0 \/ addr <= sym[o].value + sym[o].size
        /\ o = nsym => addr < sym[o].value + LASTSPAN
    BY SMTT(30), Z3T(30) DEF Owners, Below, Ordinary
  <2>2. o # nsym => addr < sym[o + 1].value
    <3> SUFFICES ASSUME o # nsym, ~ (addr < sym[o + 1].value) PROVE FALSE
      BY SMTT(30), Z3T(30)
    <3>1. o + 1 \in 2 .. nsym /\ o + 1 \in 1 .. nsym /\ o < o + 1 /\ o \in 1 .. nsym
      BY <1>1, <2>1, SMTT(30), Z3T(30)
    <3>2. sym[o + 1].value \in Nat /\ sym[o].value \in Nat
      BY <1>1, <3>1, SMTT(30), Z3T(30)
    <3>3. o + 1 \in Ordinary
      BY <1>3, <2>1, <3>1, SMTT(30), Z3T(30)
    <3>4. sym[o].value < sym[o + 1].value
      BY <1>5, <2>1, <3>1, <3>3, SMTT(30), Z3T(30)
    <3>5. o + 1 \in Below
      BY <1>6, <2>1, <3>2, <3>3, <3>4, SMTT(30), Z3T(30) DEF Below
    <3> QED
      BY <2>1, <3>2, <3>4, <3>5, SMTT(30), Z3T(30)
  <2>3. (o - 1) + 1 = o /\ (o - 1) + 2 = o + 1 /\ o - 1 \in 0 .. nsym - 1
    BY <1>1, <2>1, SMTT(30), Z3T(30)
  <2> QED
    BY <2>1, <2>2, <2>3, SMTT(30), Z3T(30) DEF Hit
<1>9. ASSUME NEW o \in Owners, NEW p \in Owners PROVE o = p
  <2>1. /\ o \in Ordinary /\ p \in Ordinary
        /\ sym[o].value <= sym[p].value /\ sym[p].value <= sym[o].value
    BY SMTT(30), Z3T(30) DEF Owners, Below
  <2>2. sym[o].value \in Nat /\ sym[p].value \in Nat
    BY <1>1, <2>1, SMTT(30), Z3T(30) DEF Ordinary
  <2> QED
    BY <2>1, <2>2, SMTT(30), Z3T(30) DEF Searchable
<1> QED
  BY <1>7, <1>8, <1>9, SMTT(30), Z3T(30)

\* The search keeps the owner inside the interval.
Inside ==
  phase = "search" /\ Searchable /\ Below # {} => \A o \in Owners : l < o /\ o <= r

\* A probe that is no hit excludes only symbols that are not the owner.
LEMMA ProbeKeeps ==
  ASSUME Table, Interval, Inside, Probe, Searchable, Below # {}
  PROVE  /\ phase' = "search" => \A o \in Owners : l' < o /\ o <= r'
         /\ phase' = "found" => Owners = {l' + 1}
         /\ phase' # "missing"
<1>1. l \in Nat /\ r \in Nat /\ l < r /\ r <= nsym /\ nsym \in Nat /\ phase = "search"
  BY SMTT(30), Z3T(30) DEF Interval, Probe
<1> DEFINE m == Middle
<1>2. m \in Nat /\ l <= m /\ m < r /\ m \in 0 .. nsym - 1
  BY <1>1, MiddleInside, SMTT(30), Z3T(30) DEF Middle
<1>3. /\ \A i \in 0 .. nsym - 1 : Hit(i) => i + 1 \in Owners
      /\ \A o \in Owners : o - 1 \in 0 .. nsym - 1 /\ Hit(o - 1)
      /\ \A o, p \in Owners : o = p
  BY <1>1, HitIsOwner, SMTT(30), Z3T(30)
<1>4. \A o \in Owners : l < o /\ o <= r
  BY <1>1, SMTT(30), Z3T(30) DEF Inside
<1> HIDE DEF m
<1>5. CASE Hit(m)
  <2>1. Owners = {m + 1}
    BY <1>2, <1>3, <1>5, SMTT(30), Z3T(30)
  <2>2. m + 1 \in Ordinary /\ sym[m + 1].value > 0
    BY <2>1, SMTT(30), Z3T(30) DEF Owners, Below
  <2>3. phase' = "found" /\ l' = m
    BY <1>5, <2>2, SMTT(30), Z3T(30) DEF Probe, m
  <2> QED
    BY <2>1, <2>3, SMTT(30), Z3T(30)
<1>6. CASE ~ Hit(m)
  <2>1. ASSUME NEW o \in Owners
        PROVE  IF sym[m + 1].value < addr THEN m + 1 < o ELSE o <= m
    <3>1. o # m + 1 /\ o \in 2 .. nsym /\ o \in Ordinary /\ sym[o].value <= addr /\ Hit(o - 1)
      BY <1>1, <1>2, <1>3, <1>6, SMTT(30), Z3T(30) DEF Owners, Below, Ordinary
    <3>2. /\ \A i \in 1 .. nsym : sym[i].value \in Nat
          /\ \A i \in 2 .. nsym : sym[i].special => sym[i].value < addr
          /\ \A i \in 1 .. nsym, j \in 2 .. nsym : i < j => sym[i].value <= sym[j].value
          /\ \A i \in 2 .. nsym, j \in Ordinary : i < j => sym[i].value < sym[j].value
      BY <1>1, TableShape, SMTT(30), Z3T(30)
    <3>3. addr \in Nat /\ addr > 0 /\ sym[1].value = 0
      <4>1. sym[o].value > 0 /\ sym[o].value \in Nat
        BY <1>1, <3>1, <3>2, SMTT(30), Z3T(30) DEF Owners, Below
      <4> QED
        BY <3>1, <4>1, SMTT(30), Z3T(30) DEF Table, NullSymbol
    <3>4. m + 1 \in 1 .. nsym /\ o \in 1 .. nsym
      BY <1>1, <1>2, <3>1, SMTT(30), Z3T(30)
    <3>5. CASE sym[m + 1].value < addr /\ o < m + 1
      <4>1. (o - 1) + 1 # nsym /\ o + 1 \in 2 .. nsym /\ (o - 1) + 2 = o + 1
        BY <1>1, <3>1, <3>4, <3>5, SMTT(30), Z3T(30)
      <4>2. addr < sym[o + 1].value
        BY <3>1, <4>1, SMTT(30), Z3T(30) DEF Hit
      <4>3. sym[o + 1].value <= sym[m + 1].value
        BY <1>1, <3>2, <3>4, <3>5, <4>1, SMTT(30), Z3T(30)
      <4> QED
        BY <1>1, <3>2, <3>3, <3>4, <3>5, <4>1, <4>2, <4>3, SMTT(30), Z3T(30)
    <3>6. CASE ~ (sym[m + 1].value < addr) /\ m + 1 < o
      <4>1. m + 1 # 1
        BY <3>3, <3>6, SMTT(30), Z3T(30)
      <4>2. m + 1 \in 2 .. nsym
        BY <1>1, <3>4, <4>1, SMTT(30), Z3T(30)
      <4>3. sym[m + 1].value < sym[o].value
        BY <3>1, <3>2, <3>6, <4>2, SMTT(30), Z3T(30)
      <4> QED
        BY <3>1, <3>2, <3>3, <3>4, <3>6, <4>3, SMTT(30), Z3T(30)
    <3> QED
      BY <1>1, <1>2, <3>1, <3>5, <3>6, SMTT(30), Z3T(30)
  <2>2. CASE sym[m + 1].value < addr
    <3>1. l' = m + 1 /\ r' = r /\ phase' = phase
      BY <1>6, <2>2, SMTT(30), Z3T(30) DEF Probe, RightOf, m
    <3> QED
      BY <1>1, <1>4, <2>1, <2>2, <3>1, SMTT(30), Z3T(30)
  <2>3. CASE ~ (sym[m + 1].value < addr)
    <3>1. r' = m /\ l' = l /\ phase' = phase
      BY <1>6, <2>3, SMTT(30), Z3T(30) DEF Probe, m
    <3> QED
      BY <1>1, <1>4, <2>1, <2>3, <3>1, SMTT(30), Z3T(30)
  <2> QED
    BY <2>2, <2>3, SMTT(30), Z3T(30)
<1> QED
  BY <1>5, <1>6, SMTT(30), Z3T(30)

\* The table, the interval and the answers are kept by every step: only
\* sort_symtab changes the table, and only a new lookup the address.
LEMMA OwnerNext ==
  ASSUME RInv, Table, Interval, Inside, LookupFindsOwner, [RNext]_<<svars, rvars>>
  PROVE  Table' /\ Inside' /\ LookupFindsOwner'
<1>1. CASE SortSymtab
  <2>1. phase' = "built"
    BY <1>1, SMTT(30), Z3T(30) DEF SortSymtab
  <2> QED
    BY <1>1, <2>1, TableSort, SMTT(30), Z3T(30) DEF Inside, LookupFindsOwner
<1>2. ASSUME UNCHANGED <<sym, phase, addr, l, r>> PROVE Table' /\ Inside' /\ LookupFindsOwner'
  BY <1>2, ZenonT(30) DEF Table, Inside, LookupFindsOwner, Searchable, Below, Owners, Ordinary, nsym
<1>3. ASSUME NEW a \in Addresses, Lookup(a) PROVE Table' /\ Inside' /\ LookupFindsOwner'
  <2>1. /\ sym' = sym /\ nsym' = nsym /\ addr' \in Nat /\ phase = "built"
        /\ phase' = "search" /\ l' = 0 /\ r' = nsym
    BY <1>3, SymtabAssumption DEF Lookup, nsym
  <2>2. Table'
    BY <2>1, SMTT(30), Z3T(30) DEF Table
  <2>3. Inside'
    <3>1. \A o \in Owners' : o \in 2 .. nsym'
      BY SMTT(30), Z3T(30) DEF Owners, Below, Ordinary
    <3>2. nsym \in Nat
      BY SMTT(30), Z3T(30) DEF Interval
    <3> QED
      BY <2>1, <3>1, <3>2, SMTT(30), Z3T(30) DEF Inside
  <2> QED
    BY <2>1, <2>2, <2>3 DEF LookupFindsOwner
<1>4. CASE Probe
  <2>1. sym' = sym /\ addr' = addr /\ phase = "search" /\ phase' \in {"search", "found", "missing"}
    BY <1>4, SMTT(30), Z3T(30) DEF Probe
  <2>2. Table'
    BY <2>1, SMTT(30), Z3T(30) DEF Table, nsym
  <2>3. /\ Searchable' = Searchable /\ Below' = Below /\ Owners' = Owners
    BY <2>1, SMTT(30), Z3T(30) DEF Searchable, Below, Owners, Ordinary, nsym
  <2> QED
    BY <1>4, <2>1, <2>2, <2>3, ProbeKeeps, SMTT(30), Z3T(30) DEF Inside, LookupFindsOwner
<1>5. CASE Exhausted
  <2>1. /\ sym' = sym /\ addr' = addr /\ l' = l /\ r' = r /\ phase = "search" /\ phase' = "missing"
        /\ l >= r /\ l \in Nat /\ r \in Nat
    BY <1>5, SMTT(30), Z3T(30) DEF Exhausted, Interval
  <2>2. Table'
    BY <2>1, SMTT(30), Z3T(30) DEF Table, nsym
  <2>3. /\ Searchable' = Searchable /\ Below' = Below /\ Owners' = Owners
    BY <2>1, SMTT(30), Z3T(30) DEF Searchable, Below, Owners, Ordinary, nsym
  <2>4. Searchable /\ Below # {} => Owners = {}
    <3> SUFFICES ASSUME Searchable, Below # {}, NEW o \in Owners PROVE FALSE
      BY SMTT(30), Z3T(30)
    <3>1. l < o /\ o <= r /\ o \in Int
      BY <2>1, SMTT(30), Z3T(30) DEF Inside, Owners, Below, Ordinary
    <3> QED
      BY <2>1, <3>1, SMTT(30), Z3T(30)
  <2> QED
    BY <2>1, <2>2, <2>3, <2>4, SMTT(30), Z3T(30) DEF Inside, LookupFindsOwner
<1>6. CASE Answered
  BY <1>6, SMTT(30), Z3T(30) DEF Answered, Table, Inside, LookupFindsOwner, nsym
<1>7. CASE BootStep
  BY <1>2, <1>7, SMTT(30), Z3T(30) DEF BootStep, PowerOn, StashData, ClearTable, BuildTable, SwitchTable, svars
<1>8. CASE RebootStep
  BY <1>2, <1>8, SMTT(30), Z3T(30) DEF RebootStep, ClearLow, FillLow, LeaveTable, Restore, Restart, svars
<1>9. CASE Work
  BY <1>2, <1>9, SMTT(30), Z3T(30) DEF Work, svars
<1>10. CASE Search
  BY <1>3, <1>4, <1>5, <1>6, <1>10, SMTT(30), Z3T(30) DEF Search
<1>11. CASE UNCHANGED <<svars, rvars>>
  BY <1>2, <1>11, SMTT(30), Z3T(30) DEF svars
<1> QED
  BY <1>1, <1>7, <1>8, <1>9, <1>10, <1>11, SMTT(30), Z3T(30) DEF RNext

\* Whatever symbols the linker emits, in whatever order: after sort_symtab,
\* lookup_symbol answers with the one symbol an address belongs to, or with
\* none if there is none, in every table whose ordinary symbols have different
\* addresses above those of the special ones.
THEOREM LookupIsRight == RSpec => []LookupFindsOwner
<1>1. RInit => Table /\ Interval /\ Inside /\ LookupFindsOwner
  BY TableInit, IntervalInit, SMTT(30), Z3T(30) DEF RInit, SInit, Inside, LookupFindsOwner
<1>2. RInv /\ Table /\ Interval /\ Inside /\ LookupFindsOwner /\ [RNext]_<<svars, rvars>>
        => Table' /\ Interval' /\ Inside' /\ LookupFindsOwner'
  BY OwnerNext, IntervalNext
<1> QED
  BY <1>1, <1>2, RebootInvariance, PTL DEF RSpec

-----------------------------------------------------------------------------
(* The kernel with its boots in steps is a Symtab.                         *)

\* Boot and reboot happen between searches.
Between == mapped \in BOOLEAN /\ (pc \notin {"off", "run"} => phase = "built")

LEMMA BetweenNext ==
  ASSUME RInv, Between, [RNext]_<<svars, rvars>>
  PROVE  Between' /\ [SNext]_svars
<1>1. CASE pc = "off" /\ SortSymtab /\ UNCHANGED rvars
  BY <1>1, SMTT(30), Z3T(30) DEF Between, SortSymtab, SNext, rvars
<1>2. CASE PowerOn \/ StashData \/ BuildTable \/ SwitchTable \/ Work
  BY <1>2, SMTT(30), Z3T(30) DEF Between, PowerOn, StashData, BuildTable, SwitchTable, Work, Goto, svars
<1>3. CASE ClearLow \/ FillLow \/ LeaveTable
  BY <1>3, SMTT(30), Z3T(30) DEF Between, ClearLow, FillLow, LeaveTable, Goto, svars
<1>4. CASE ClearTable \/ Restore \/ Restart
  <2>1. /\ phase = "built" /\ mapped' = FALSE /\ UNCHANGED <<sym, phase, addr, l, r>>
        /\ pc' \notin {"off", "run"}
    BY <1>4, SMTT(30), Z3T(30) DEF Between, ClearTable, Restore, Restart, Goto
  <2>2. CASE mapped = TRUE
    BY <2>1, <2>2, ZenonT(30) DEF Between, Reboot, SNext
  <2>3. CASE mapped = FALSE
    BY <2>1, <2>3, ZenonT(30) DEF Between, svars
  <2> QED
    BY <2>1, <2>2, <2>3, ZenonT(30) DEF Between
<1>5. CASE Search
  <2>1. SNext
    BY <1>5, SMTT(30), Z3T(30) DEF Search, SNext
  <2>2. mapped' \in BOOLEAN
    BY <1>5, ZenonT(30) DEF Search, Lookup, Probe, Exhausted, Answered, Between
  <2>3. pc' = "run"
    BY <1>5, SMTT(30), Z3T(30) DEF Search
  <2> QED
    BY <2>1, <2>2, <2>3, SMTT(30), Z3T(30) DEF Between
<1>6. CASE UNCHANGED <<svars, rvars>>
  BY <1>6, SMTT(30), Z3T(30) DEF Between, svars, rvars
<1> QED
  BY <1>1, <1>2, <1>3, <1>4, <1>5, <1>6 DEF RNext, BootStep, RebootStep

\* Every behaviour of the machine, boots and reboots in their steps, is one of
\* Symtab's as far as safety goes: the symbol table's entry vanishes only
\* between searches, so no lookup_symbol loses the table it reads.
THEOREM RebootsAreSymtabSteps == RSpec => SInit /\ [][SNext]_svars
<1>1. RInit => SInit /\ Between
  BY ZenonT(30) DEF RInit, SInit, Between
<1>2. RInv /\ Between /\ [RNext]_<<svars, rvars>> => Between' /\ [SNext]_svars
  BY BetweenNext, SMTT(30), Z3T(30)
<1> QED
  BY <1>1, <1>2, RebootInvariance, PTL DEF RSpec
=============================================================================
