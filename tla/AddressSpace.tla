---------------------------- MODULE AddressSpace ----------------------------
(***************************************************************************)
(* What a page table promises to those who map pages with vmiter: a        *)
(* function from virtual pages to what the processor makes of them.  A     *)
(* mapping request either changes exactly the page it names, or fails and  *)
(* changes nothing.                                                        *)
(***************************************************************************)
EXTENDS Integers

CONSTANTS VPages,       \* the virtual pages
          Mappings,     \* what a page may be mapped to
          Unmapped      \* the translation of a page that is not present

VARIABLES map,          \* VPages -> Mappings
          last          \* the request just answered and its return value

avars == <<map, last>>

NoRequest == [page |-> -1, to |-> Unmapped, ret |-> 0]

ASInit == map \in [VPages -> Mappings] /\ last = NoRequest

\* The request succeeds and the page, and no other, is mapped as asked.
Mapped(p, t) ==
  /\ last' = [page |-> p, to |-> t, ret |-> 0]
  /\ map' = [map EXCEPT ![p] = t]

\* No page is left for a page table page: nothing is mapped.
Refused(p, t) ==
  /\ last' = [page |-> p, to |-> t, ret |-> -1]
  /\ UNCHANGED map

\* Something else than a request.
Other == last' = NoRequest /\ UNCHANGED map

ASNext ==
  \/ /\ last'.page \in VPages
     /\ last'.to \in Mappings
     /\ Mapped(last'.page, last'.to) \/ Refused(last'.page, last'.to)
  \/ Other

ASSpec == ASInit /\ [][ASNext]_avars
=============================================================================
