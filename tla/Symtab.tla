------------------------------- MODULE Symtab -------------------------------
(***************************************************************************)
(* The kernel's symbol table: mkchickadeesymtab sorts it when the kernel   *)
(* is built (build/mkchickadeesymtab.cc), lookup_symbol searches it by     *)
(* bisection when a backtrace is printed (k-hardware.cc).  A symbol is its *)
(* address, its size and whether it is special (a section or a file, not   *)
(* an object or a function).                                               *)
(***************************************************************************)
EXTENDS Integers, Sequences, FiniteSets

CONSTANTS Symbols,    \* symbols the linker may emit: [value, size, special]
          MaxSymbols, \* how many it emits, the null symbol apart
          Addresses,  \* addresses looked up
          LASTSPAN    \* how far the last symbol may reach (0x1000)

ASSUME SymtabAssumption ==
  /\ Symbols \subseteq [value : Nat, size : Nat, special : BOOLEAN]
  /\ MaxSymbols \in Nat \ {0}
  /\ Addresses \subseteq Nat
  /\ LASTSPAN \in Nat \ {0}

VARIABLES
  sym,                \* the table; sym[1] is the null symbol
  phase,              \* "linked", "built", "search", "found" or "missing"
  mapped,             \* the kernel's page table has the table's large page
  addr, l, r          \* lookup_symbol's argument and variables

svars == <<sym, phase, mapped, addr, l, r>>

NullSymbol == [value |-> 0, size |-> 0, special |-> FALSE]
nsym == Len(sym)

\* Mutant: the sizes decide first.
LessBySize(a, b) == a.size < b.size

\* symbol_less.
Less(a, b) ==
  IF a.special \/ b.special THEN a.special /\ ~ b.special
  ELSE a.value < b.value \/ (a.value = b.value /\ a.size < b.size)

-----------------------------------------------------------------------------
\* std::stable_sort of all but the null symbol: every symbol goes to the place
\* that the number of symbols not behind it gives.
StableSort(s) ==
  LET Ahead(i) == {j \in 2 .. Len(s) : Less(s[j], s[i]) \/ (~ Less(s[i], s[j]) /\ j <= i)}
  IN [k \in 1 .. Len(s) |->
       IF k = 1 THEN s[1]
       ELSE s[CHOOSE i \in 2 .. Len(s) : Cardinality(Ahead(i)) = k - 1]]

\* elf_info::sort_symtab: only if two neighbours are out of order.
SortSymtab ==
  /\ phase = "linked"
  /\ sym' = IF \E i \in 3 .. nsym : Less(sym[i], sym[i - 1])
            THEN StableSort(sym) ELSE sym
  /\ phase' = "built"
  /\ UNCHANGED <<mapped, addr, l, r>>

\* lookup_symbol begins: it maps the table the first time.
Lookup(a) ==
  /\ phase = "built"
  /\ mapped' = TRUE
  /\ addr' = a /\ l' = 0 /\ r' = nsym
  /\ phase' = "search"
  /\ UNCHANGED sym

Middle == l + ((r - l) \div 2)

\* The address belongs to the symbol with index m (counted from 0).
Hit(m) ==
  LET s == sym[m + 1]
  IN /\ s.value <= addr
     /\ addr < IF m + 1 = nsym THEN s.value + LASTSPAN ELSE sym[m + 2].value
     /\ s.size = 0 \/ addr <= s.value + s.size

\* Mutant of RightOf: the right half keeps its first symbol.
RightOfStays(m) == m
RightOf(m) == m + 1

\* A round of the loop.  On a hit l and r both become the symbol's index.
Probe ==
  LET m == Middle
  IN /\ phase = "search" /\ l < r
     /\ IF Hit(m)
        THEN /\ phase' = IF sym[m + 1].value = 0 THEN "missing" ELSE "found"
             /\ l' = m /\ r' = m
        ELSE IF sym[m + 1].value < addr
        THEN l' = RightOf(m) /\ UNCHANGED <<phase, r>>
        ELSE r' = m /\ UNCHANGED <<phase, l>>
     /\ UNCHANGED <<sym, mapped, addr>>

Exhausted ==
  /\ phase = "search" /\ l >= r
  /\ phase' = "missing"
  /\ UNCHANGED <<sym, mapped, addr, l, r>>

\* The next frame of the backtrace.
Answered ==
  /\ phase \in {"found", "missing"}
  /\ phase' = "built" /\ addr' = 0 /\ l' = 0 /\ r' = 0
  /\ UNCHANGED <<sym, mapped>>

\* A soft reboot clears the kernel's page table (init_kernel_memory).
Reboot ==
  /\ phase = "built" /\ mapped
  /\ mapped' = FALSE
  /\ UNCHANGED <<sym, phase, addr, l, r>>

SInit ==
  /\ \E n \in 1 .. MaxSymbols : \E s \in [1 .. n -> Symbols] : sym = <<NullSymbol>> \o s
  /\ phase = "linked" /\ mapped = FALSE /\ addr = 0 /\ l = 0 /\ r = 0

SNext ==
  \/ SortSymtab
  \/ \E a \in Addresses : Lookup(a)
  \/ Probe
  \/ Exhausted
  \/ Answered
  \/ Reboot

SSpec == SInit /\ [][SNext]_svars /\ WF_svars(Probe \/ Exhausted)

-----------------------------------------------------------------------------
(* Properties.                                                             *)

Ordinary == {i \in 2 .. nsym : ~ sym[i].special}

\* Bisection is right about this table: no two ordinary symbols start at the
\* same address, and no special one starts above an ordinary one.  A built kernel
\* has aliases (constructor variants, names that kernel.ld defines); for those
\* there is LookupDocumented, which is violated, and LookupEnds.
Searchable ==
  /\ \A i, j \in Ordinary : sym[i].value = sym[j].value => i = j
  /\ \A i \in Ordinary, j \in 2 .. nsym : sym[j].special => sym[j].value < sym[i].value
  /\ \A i, j \in 2 .. nsym : i < j /\ sym[i].special /\ sym[j].special
                             => sym[i].value <= sym[j].value

\* The ordinary symbols that start at or below the address, and the last of
\* them if it reaches that far: what a backtrace should show.
Below == {i \in Ordinary : sym[i].value <= addr /\ sym[i].value > 0}
Owners ==
  {i \in Below : /\ \A j \in Below : sym[j].value <= sym[i].value
                 /\ sym[i].size = 0 \/ addr <= sym[i].value + sym[i].size
                 /\ i = nsym => addr < sym[i].value + LASTSPAN}

\* In a searchable table lookup_symbol finds the symbol an address at or
\* above the first ordinary symbol belongs to, the one byte after the end
\* included, and nothing when it belongs to none (lookup_symbol).
LookupFindsOwner ==
  Searchable /\ Below # {} =>
    /\ phase = "found" => Owners = {l + 1}
    /\ phase = "missing" => Owners = {}

\* Every lookup ends: the bisection makes progress whatever the table holds,
\* sorted or not (the loop of lookup_symbol).
LookupEnds == phase = "search" ~> phase # "search"

\* What kernel.hh:277 says of lookup_symbol: "Read the hidden symbol table for
\* the name of the kernel symbol at `addr` ... Returns true if found."  An
\* address among a symbol's bytes is found.
LookupDocumented ==
  phase = "missing" =>
    \A i \in Ordinary : sym[i].value > 0 =>
      ~ (sym[i].value <= addr /\ addr < sym[i].value + sym[i].size)
=============================================================================
