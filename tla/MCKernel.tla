------------------------------ MODULE MCKernel ------------------------------
(***************************************************************************)
(* A small machine: page 0 is reserved, the kernel has 1 and 2, its stack  *)
(* 3, the console is 4, the two process regions are 5..7 and 8..10, and    *)
(* there is no memory beyond.  The first page kalloc may return lies in a  *)
(* process region, past pages that a process has.                          *)
(***************************************************************************)
EXTENDS Memviewer

\* Programs linked with process.ld start at page 5, those linked with
\* process2.ld (eve, pipereader, spawn) at page 8.  alice and eve fill their
\* regions, and so memory, up to the stacks; hello fills one and leaves the
\* other free; the pipe programs leave a page free between others in use.
MCImage ==
  [n \in {"hello", "alice", "eve", "pipewriter", "pipereader", "spawn"} |->
     CASE n = "hello" -> <<5, 6>>
       [] n = "alice" -> <<5, 6>>
       [] n = "pipewriter" -> <<5>>
       [] n = "eve" -> <<8, 9>>
       [] n \in {"pipereader", "spawn"} -> <<8>>]
=============================================================================
