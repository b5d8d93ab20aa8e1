--------------------------------- MODULE Pci ---------------------------------
(***************************************************************************)
(* PCI enumeration (pcistate in k-pci.hh, k-hardware.cc) and its user,     *)
(* poweroff.  An address is slot * FUNCS + function; buses follow each     *)
(* other as slots do.  `dev` maps each address to what its registers say:  *)
(* "none" (all ones), "single", "multi" (bit 23 of the header word) or     *)
(* "acpi", a single-function power controller.                             *)
(***************************************************************************)
EXTENDS Integers, FiniteSetsExt

CONSTANTS SLOTS, FUNCS

addr_end == SLOTS * FUNCS
make_addr(slot, func) == slot * FUNCS + func
addr_func(addr) == addr % FUNCS

\* Mutant of Stride: a function that is not the first may end its slot.
StrideAny(dev, addr) == IF dev[addr] # "multi" THEN make_addr(1, 0) ELSE make_addr(0, 1)

\* How far next moves from addr: past the slot, unless it is multi-function.
Stride(dev, addr) ==
  IF addr_func(addr) = 0 /\ dev[addr] # "multi" THEN make_addr(1, 0) ELSE make_addr(0, 1)

\* pcistate::next, -1 at the end.
next(dev, addr) ==
  LET from[a \in 0 .. addr_end - 1] ==
        LET b == a + Stride(dev, a)
        IN IF b >= addr_end THEN -1 ELSE IF dev[b] # "none" THEN b ELSE from[b]
  IN from[addr]

\* pcistate::find from address 0, whose predicate holds in Accepted.
find(dev, Accepted) ==
  LET at[k \in 0 .. addr_end] ==
        IF k = 0 THEN 0
        ELSE LET a == at[k - 1] IN IF a < 0 \/ a \in Accepted THEN a ELSE next(dev, a)
  IN at[addr_end]

\* poweroff: the address it writes `suspend enable` for, -1 for none.  It then
\* spins in either case, until a machine that has the controller is off.
poweroff(dev) == find(dev, {a \in DOMAIN dev : dev[a] = "acpi"})
=============================================================================
