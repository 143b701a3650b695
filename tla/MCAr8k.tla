------------------------------- MODULE MCAr8k -------------------------------
(***************************************************************************)
(* Ar8k with paths two of which make a member of the same name, one that   *)
(* is cut to 14 characters (l14 stands for the 14, l15 for a name that     *)
(* begins with them), and contents that are shorter than the buffer,       *)
(* longer than it, and empty.                                              *)
(***************************************************************************)
EXTENDS Ar8k
CONSTANT none
AB == {"a", "b", "sub/a", "l14", "l15"}
TailOf == [p \in AB |-> CASE p = "sub/a" -> "a" [] p = "l15" -> "l14" [] OTHER -> p]
RunOn == [p \in AB |-> IF p = "l14" THEN {"l14", "l15"} ELSE {p}]

One == <<Byte(1)>>
Five == <<Byte(5), Byte(6), Byte(7), Byte(8), Byte(9)>>
Member(n, c) == [name |-> n, data |-> c]
Archive(ms) == <<Magic>> \o Laid(ms)
SomeArchives ==
  {none, <<>>, <<Byte(1), Byte(1)>>, Archive(<<Member("a", Five), Member("b", One)>>),
   Archive(<<Member("a", One), Member("a", <<>>), Member("b", Five)>>),
   Archive(<<Member("l14", One), Member("b", Five)>>)}
SomeDirs ==
  {[p \in AB |-> CASE p = "a" -> One [] p = "b" -> Five [] p \in {"l14", "l15"} -> none [] OTHER -> <<Byte(2), Byte(3)>>],
   [p \in AB |-> CASE p = "a" -> none [] p = "b" -> <<>> [] OTHER -> Five]}
SomeLists == {<<>>, <<"a">>, <<"b", "a">>, <<"sub/a", "b">>, <<"a", "sub/a">>, <<"l15">>}
SomeHeaders == {Header("b", 1)}
=============================================================================
