------------------------------ MODULE MCConsole ------------------------------
(* A page of two rows and two columns: every text of two lines scrolls. *)
EXTENDS Console

MCTexts == {<<"a">>, <<"b", "\n", "a">>, <<"\n">>}
MCKernelTexts == {<<"k", "\n">>}
=============================================================================
