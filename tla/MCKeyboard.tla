----------------------------- MODULE MCKeyboard -----------------------------
(* Keys of each sort: both shifts, a modifier and an arrow with a prefix, *)
(* a lock, a letter, a digit that reboots.                                *)
EXTENDS Keyboard
LShift == [code |-> 42, ext |-> FALSE]
RShift == [code |-> 54, ext |-> FALSE]
RCtrl  == [code |-> 29, ext |-> TRUE]
Caps   == [code |-> 58, ext |-> FALSE]
KeyC   == [code |-> 46, ext |-> FALSE]
Key1   == [code |-> 2,  ext |-> FALSE]
Up     == [code |-> 72, ext |-> TRUE]
MCKeys == {LShift, RShift, RCtrl, Caps, KeyC, Key1, Up}
=============================================================================
