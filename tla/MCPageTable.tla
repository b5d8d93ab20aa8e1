---------------------------- MODULE MCPageTable ----------------------------
(* Page tables of two entries each: eight virtual pages in each half of    *)
(* the address space and a hole between them.                              *)
EXTENDS PageTable

MCPerms == {{}, {"P", "U"}}
MCAddresses == {0, 1, 5, 9, 30}
RangeAddresses == {0, 3, 9, 13, 60}
=============================================================================
