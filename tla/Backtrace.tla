------------------------------ MODULE Backtrace ------------------------------
(***************************************************************************)
(* The walk over stack frames that panics and log messages print           *)
(* (backtracer in k-hardware.cc).  Addresses count words, a frame is two:  *)
(* the caller's frame pointer and the return address.  Address arithmetic  *)
(* wraps at SPACE.  m maps words to values; `present` are mapped pages.    *)
(***************************************************************************)
EXTENDS Integers, Sequences

CONSTANTS SPACE,     \* words in the address space
          PAGEWORDS  \* words in a page

StackTop(rsp) == (((rsp + PAGEWORDS - 1) % SPACE) \div PAGEWORDS) * PAGEWORDS

\* range_perm: for a range within a page's length, its first page decides.
PresentAt(present, rbp) == rbp \div PAGEWORDS \in present

\* Mutant of Plausible: a frame may lie below the stack pointer.
PlausibleAnywhere(present, rbp, rsp, top) ==
  (top - rbp) % SPACE >= 2 /\ PresentAt(present, rbp)

\* check, negated.  The subtraction is unsigned: it does not stop a frame
\* above the top.
Plausible(present, rbp, rsp, top) ==
  /\ rbp >= rsp
  /\ (top - rbp) % SPACE >= 2
  /\ PresentAt(present, rbp)

Checked(s, present, top) ==
  IF Plausible(present, s.rbp, s.rsp, top) THEN s ELSE [s EXCEPT !.rbp = 0, !.rsp = 0]

\* A round of error_print_backtrace: ret_rip, then step.
StepFrame(s, m, present, top) ==
  IF s.rsp = 0 THEN s
  ELSE Checked([rbp |-> m[s.rbp], rsp |-> (s.rbp + 2) % SPACE,
                rips |-> Append(s.rips, m[(s.rbp + 1) % SPACE]),
                frames |-> Append(s.frames, s.rbp)], present, top)

\* The state after n rounds, from the registers of the failing code.
Backtrace(m, present, rsp, rbp, n) ==
  LET top == StackTop(rsp)
      after[k \in 0 .. n] ==
        IF k = 0
        THEN Checked([rbp |-> rbp, rsp |-> rsp, rips |-> <<>>, frames |-> <<>>], present, top)
        ELSE StepFrame(after[k - 1], m, present, top)
  IN after[n]
=============================================================================
