------------------------------ MODULE MCStreams ------------------------------
(***************************************************************************)
(* Streams with buffers of two bytes over two files.                     *)
(***************************************************************************)
EXTENDS Streams
CONSTANT none
a == 97
MinusOne == -1
SomeContents == {[n \in {"f", "g"} |-> IF n = "g" THEN <<a>> ELSE <<a, SUB, a>>]}
SomeOpenings == {<<"f", "r", TRUE>>, <<"f", "a", FALSE>>, <<"f", "w", TRUE>>, <<"g", "r", FALSE>>}
SomeBytes == {LF}
SomeSeeks == {<<0, "set">>, <<-1, "cur">>, <<1, "end">>}
=============================================================================
