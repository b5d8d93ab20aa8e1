------------------------------- MODULE MCPipe -------------------------------
(* Messages of two and three bytes and one a byte too long for the reader's  *)
(* buffer; 9 is the newline.                                                 *)
EXTENDS PipeSystem

MCImage ==
  [n \in {"hello", "alice", "eve", "pipewriter", "pipereader"} |->
     IF n \in {"eve", "pipereader"} THEN <<5>> ELSE <<3>>]

LongMessages  == {<<1, 9>>, <<2, 1, 9>>, <<1, 2, 1, 9>>}
=============================================================================
