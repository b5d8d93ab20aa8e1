------------------------------ MODULE MCSymtab ------------------------------
(* Small symbol tables.  In AliasSymbols nothing is special, but two names *)
(* may stand for one address, as the two constructors the compiler emits   *)
(* for a class do.                                                         *)
EXTENDS Reboot

AliasSymbols == [value : {1, 3, 4}, size : {0, 2}, special : {FALSE}]

MCSymbols == AliasSymbols \cup [value : {0, 2}, size : {0}, special : {TRUE}]

MCAddresses == 1 .. 7
=============================================================================
