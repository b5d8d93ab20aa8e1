------------------------------- MODULE Reboot -------------------------------
(***************************************************************************)
(* Boot and soft reboot, step by step, around the symbol table: the boot   *)
(* loader's page table, which the kernel's first instructions run on and   *)
(* check_keyboard rebuilds at the same address; the kernel's own table;    *)
(* the data segment and its stash (k-hardware.cc, k-exception.S,           *)
(* bootentry.S).  The stash lies just below the symbol table, at 16 MB,    *)
(* where the kernel's own table maps nothing.                              *)
(***************************************************************************)
EXTENDS Symtab

VARIABLES
  pc,        \* what the kernel does next
  cr3,       \* the active table: "low" (at 0x1000) or "kernel"
  low,       \* the pages at 0x1000: "valid" as a table, "cleared" or "used"
  ktable,    \* kernel_pagetable, but for the symbol table's entry: "empty", "built"
  data, bss, \* "initial" or "used"
  stash,     \* "none", "initial" or "used"
  fault      \* ghost: something was accessed that was not mapped

rvars == <<pc, cr3, low, ktable, data, bss, stash, fault>>

\* The regions the active table maps: memory below 2 MB ("kernel"), the stash,
\* and the symbol table.
Mapped ==
  IF cr3 = "low"
  THEN IF low = "valid" THEN {"kernel", "stash", "symtab"} ELSE {}
  ELSE (IF ktable = "built" THEN {"kernel"} ELSE {})
         \cup (IF ktable = "built" /\ mapped THEN {"symtab"} ELSE {})

Access(regions) == fault' = (fault \/ ~ regions \subseteq Mapped)

Goto(from, to) == pc = from /\ pc' = to

-----------------------------------------------------------------------------
(* Boot *)

\* bootentry.S and boot: a table that maps the first gigabyte, the kernel.
PowerOn ==
  /\ Goto("off", "stash") /\ phase = "built"
  /\ cr3' = "low" /\ low' = "valid" /\ data' = "initial" /\ bss' = "initial"
  /\ UNCHANGED <<svars, ktable, stash, fault>>

\* kernel_entry, kernel_start, init_hardware; stash_kernel_data(false).
StashData ==
  /\ Goto("stash", "clear")
  /\ Access({"kernel", "stash"})
  /\ stash' = data
  /\ UNCHANGED <<svars, cr3, low, ktable, data, bss>>

ClearTable ==
  /\ Goto("clear", "build")
  /\ Access({"kernel"})
  /\ ktable' = "empty" /\ mapped' = FALSE /\ bss' = "used"
  /\ UNCHANGED <<sym, phase, addr, l, r, cr3, low, data, stash>>

BuildTable ==
  /\ Goto("build", "switch")
  /\ Access({"kernel"})
  /\ ktable' = "built"
  /\ UNCHANGED <<svars, cr3, low, data, bss, stash>>

SwitchTable ==
  /\ Goto("switch", "run")
  /\ cr3' = "kernel"
  /\ UNCHANGED <<svars, low, ktable, data, bss, stash, fault>>

-----------------------------------------------------------------------------
(* The running kernel *)

\* Kernel and processes change data and bss, and kalloc hands out the pages at
\* 0x1000, the first ones it finds.
Work ==
  /\ pc = "run"
  /\ Access({"kernel"})
  /\ data' = "used" /\ bss' = "used" /\ low' \in {low, "used"}
  /\ UNCHANGED <<svars, pc, cr3, ktable, stash>>

\* The steps of lookup_symbol; those that read the table access it.
Search ==
  /\ pc = "run"
  /\ \/ Probe /\ Access({"kernel", "symtab"})
     \/ ((\E a \in Addresses : Lookup(a)) \/ Exhausted \/ Answered) /\ Access({"kernel"})
  /\ UNCHANGED <<pc, cr3, low, ktable, data, bss, stash>>

-----------------------------------------------------------------------------
(* Soft reboot: check_keyboard, which no search calls *)

\* Mutant: keys are polled while a symbol is being printed.
ClearLowEarly ==
  /\ Goto("run", "fill") /\ phase \in {"built", "found", "missing"}
  /\ Access({"kernel"})
  /\ low' = "cleared"
  /\ UNCHANGED <<svars, cr3, ktable, data, bss, stash>>

\* A key; the temporary table's pages are cleared.
ClearLow ==
  /\ Goto("run", "fill") /\ phase = "built"
  /\ Access({"kernel"})
  /\ low' = "cleared"
  /\ UNCHANGED <<svars, cr3, ktable, data, bss, stash>>

FillLow ==
  /\ Goto("fill", "leave")
  /\ Access({"kernel"})
  /\ low' = "valid"
  /\ UNCHANGED <<svars, cr3, ktable, data, bss, stash>>

\* Mutant: the kernel's own table stays active.
LeaveTableNot ==
  /\ Goto("leave", "restore")
  /\ UNCHANGED <<svars, cr3, low, ktable, data, bss, stash, fault>>

LeaveTable ==
  /\ Goto("leave", "restore")
  /\ cr3' = "low"
  /\ UNCHANGED <<svars, low, ktable, data, bss, stash, fault>>

\* Mutant: stash_kernel_data takes the wrong branch.
RestoreSaves ==
  /\ Goto("restore", "again")
  /\ Access({"kernel", "stash"})
  /\ stash' = data
  /\ UNCHANGED <<svars, cr3, low, ktable, data, bss>>

\* stash_kernel_data(true): the data segment from the stash, zeros for bss,
\* where kernel_pagetable lies.
Restore ==
  /\ Goto("restore", "again")
  /\ Access({"kernel", "stash"})
  /\ data' = stash /\ bss' = "initial" /\ ktable' = "empty" /\ mapped' = FALSE
  /\ UNCHANGED <<sym, phase, addr, l, r, cr3, low, stash>>

\* check_keyboard does the same once more and jumps to kernel_entry.
Restart ==
  /\ Goto("again", "stash")
  /\ Access({"kernel", "stash"})
  /\ data' = stash /\ bss' = "initial" /\ ktable' = "empty" /\ mapped' = FALSE
  /\ UNCHANGED <<sym, phase, addr, l, r, cr3, low, stash>>

-----------------------------------------------------------------------------
RInit ==
  /\ SInit
  /\ pc = "off" /\ cr3 = "low" /\ low = "used" /\ ktable = "empty"
  /\ data = "used" /\ bss = "used" /\ stash = "none" /\ fault = FALSE

RebootStep == ClearLow \/ FillLow \/ LeaveTable \/ Restore \/ Restart
BootStep   == PowerOn \/ StashData \/ ClearTable \/ BuildTable \/ SwitchTable

RNext ==
  \/ pc = "off" /\ SortSymtab /\ UNCHANGED rvars
  \/ BootStep
  \/ Work
  \/ Search
  \/ RebootStep

\* The search is the kernel's own loop; boot and reboot are straight code.
RSpec ==
  /\ RInit /\ [][RNext]_<<svars, rvars>>
  /\ WF_svars(pc = "run" /\ (Probe \/ Exhausted) /\ Search)

-----------------------------------------------------------------------------
(* Properties *)

\* No instruction runs on a page table that is not one, and nothing unmapped
\* is read or written: not the stash, which only the low table maps, nor the
\* symbols before lookup_symbol has mapped them (check_keyboard,
\* init_kernel_memory).
TablesAlwaysHold ==
  /\ ~ fault
  /\ pc # "off" => "kernel" \in Mapped

\* However often the machine is rebooted, and whatever ran before, kernel_start
\* finds the data segment as it was linked and bss zero, and the stash never
\* takes the place of the linked data (stash_kernel_data, check_keyboard).
StartsFresh ==
  /\ pc \in {"stash", "clear"} => data = "initial" /\ bss = "initial"
  /\ stash # "used"

\* With its boots and reboots in steps, the kernel still uses its symbol table
\* as Symtab says: the table's entry vanishes only between searches.
ImplementsSymtab == SSpec
=============================================================================
