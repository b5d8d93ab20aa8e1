---------------------------- MODULE PipeChannel -----------------------------
(***************************************************************************)
(* What p-pipewriter, p-pipereader and the kernel's pipe promise together: *)
(* the messages the reader prints are the messages the writer chose, whole *)
(* and in order, and the writer is never more than one message ahead of    *)
(* the one the reader is working on.                                       *)
(***************************************************************************)
EXTENDS Naturals, Sequences

CONSTANT Messages       \* the messages the writer chooses from

VARIABLES queue,        \* messages chosen and not yet printed
          printed       \* the message printed last, <<>> after boot

chvars == <<queue, printed>>

ChInit == queue = <<>> /\ printed = <<>>

Choose(m) ==
  /\ Len(queue) < 2
  /\ queue' = Append(queue, m)
  /\ UNCHANGED printed

Deliver ==
  /\ queue # <<>>
  /\ printed' = Head(queue)
  /\ queue' = Tail(queue)

\* The machine reboots.
Clear == queue' = <<>> /\ printed' = <<>>

ChNext == (\E m \in Messages : Choose(m)) \/ Deliver \/ Clear

ChSpec == ChInit /\ [][ChNext]_chvars
=============================================================================
