------------------------------ MODULE MCMacros ------------------------------
(***************************************************************************)
(* Small sources for Macros: every body of up to two lines and every main  *)
(* text of up to three, of small alphabets, and longer ones by hand.       *)
(***************************************************************************)
EXTENDS Macros

L(s) == Append(s, "NL")
Text(ls) == FlattenSeq([i \in DOMAIN ls |-> Append(ls[i], "NL")])
Lone(o) == <<"-", o>>
With(o, r) == <<"-", o>> \o r

Names == {"byte", "m", "n"}
Syms == {"a", "u", "v"}
P(x, fs) == [main |-> "main", files |-> fs, syms |-> Syms, xflag |-> x]
Main(x, t) == P(x, "main" :> t)
Macro(m, body) == <<<<m, ".macro">>>> \o body \o <<Lone(".endm")>>

BodyLines ==
  {With("byte", <<"?1", "?#">>), With("n", <<"?2", ",", "??">>), With(".if", <<"?1">>), Lone(".endif"),
   Lone(".exit"), With(".repeat", <<"2">>), Lone(".endr"), With("m", <<"0">>), <<"?0">>, Lone(".end"), With(".input", <<"f">>)}
MainLines ==
  {With("m", <<"1", ",", "{", "2", ",", "3", "}", ",", "4">>), <<"a", "n", "5", ",", ",", "6">>,
   With(".repeat", <<"u">>), With(".repeat", <<"3">>), Lone(".endr"), Lone(".exit"),
   With(".if", <<"0">>), Lone(".endif"), With("byte", <<"v">>)}
TheN == Macro("n", <<With("byte", <<"?1", "?2", "??", "?#">>)>>)
TheF == Text(<<With("byte", <<"7">>), Lone(".exit"), With("n", <<"8">>)>>)

Seqs(S, lo, hi) == UNION {[1 .. k -> S] : k \in lo .. hi}
(* By hand: a macro defined in a macro, one in a repeat, one that is       *)
(* redefined, one used before it is defined, one that calls itself; lines  *)
(* that are continued in a call, in a body, behind the opcode of a body    *)
(* and at the end of one; escapes; files in files; definitions and lines   *)
(* without an end.                                                         *)
Escape == "\\"
Slash == <<"{", Escape, Escape, "}">>
Tests ==
  {Text(Macro("m", Macro("n", <<With("byte", <<"?1", Escape, "?1">>)>>)) \o <<With("m", <<"4">>), With("n", <<"5">>)>>),
   Text(<<With(".repeat", <<"2">>)>> \o Macro("n", <<With("byte", <<"?#", "?0">>)>>)
          \o <<<<"a", "n">>, Lone(".endr"), <<"v", "n", "u">>, With("byte", <<"u">>)>>),
   Text(TheN \o <<With("n", <<"1">>)>> \o Macro("n", <<With("byte", <<"2">>)>>) \o <<Lone("n")>>),
   Text(<<With("n", <<"1">>)>> \o TheN \o <<With("n", <<"1">>)>>),
   Text(Macro("byte", <<With("byte", <<"?1">>)>>) \o <<With("byte", <<"1">>)>>),
   Text(Macro("m", <<With(".if", <<"?1">>), With("m", <<"0">>), Lone(".endif"), With("byte", <<"?#">>)>>) \o <<With("m", <<"2">>)>>),
   Text(Macro("m", <<With("byte", <<"?1", Escape>>), <<"?2">>, With("byte", <<Escape>>), <<"3">>, <<"-", Escape>>, <<"byte", "4">>>>)
          \o <<With("m", <<"1", ",", Escape>>), <<"2">>, With("m", <<Escape>>), <<"5", ",", "6">>>>),
   Text(Macro("m", <<With("n", <<"1", ",", "?1">>), <<"2">>>>) \o TheN \o <<With("m", Slash)>>),
   Text(Macro("m", <<With("n", <<"1", ",", "?1">>), <<"?2">>>>) \o TheN \o <<With("m", Slash \o <<",", "3">>)>>),
   Text(Macro("m", <<With("n", <<"1", ",", "?1">>)>>) \o TheN \o <<With("m", Slash), <<"2">>>>),
   Text(Macro("m", <<With("byte", <<"1", "?1">>)>>) \o <<With("m", Slash), <<"2">>>>),
   Text(Macro("m", <<With("byte", <<"1", Escape, Escape>>)>>) \o <<With("m", <<>>), <<"2">>>>),
   Text(TheN \o <<With("n", <<"{", "1", Escape, "}", Escape, "2", "}", "3", ",", "{", "4", "{", ",", "}">>)>>),
   Text(TheN \o <<With(".repeat", <<"2">>), With("n", <<"{", "5", Escape>>), <<"6", "}">>, Lone(".endr")>>),
   Text(TheN \o <<With(".repeat", <<"2">>), With("n", <<"{", "5", Escape>>), Lone(".endr")>>),
   Text(<<With("byte", [i \in 1 .. 14 |-> "1"])>>),
   Text(Macro("m", <<With("byte", <<"1">>)>> \o <<Lone(".endr")>>) \o <<With(".repeat", <<"2">>), Lone(".endm"), With("m", <<>>), Lone(".endr")>>),
   Text(<<With("m", <<>>), With(".macro", <<>>), <<"m", ".macro">>, With("byte", <<"1">>)>>)}
Files ==
  {"main" :> Text(<<With(".input", <<"main">>)>>),
   "main" :> Text(<<With(".input", <<"f">>), With("byte", <<"1">>)>>) @@ "f" :> <<"-", "byte", "2", "NL", "-", "byte", "3">>,
   "main" :> Text(TheN \o <<With(".input", <<"f">>), <<"6">>>>) @@ "f" :> Text(<<With("n", <<"5", ",", Escape>>)>>),
   "main" :> <<"-", "byte", "2", "NL", "-", "byte", "3">>,
   "main" :> Text(<<With(".input", <<"f">>), With("byte", <<"1">>), Lone(".endif")>>)
     @@ "f" :> Text(<<With(".if", <<"2">>), With(".repeat", <<"9">>), With(".input", <<"g">>), Lone(".exit"), Lone(".endr")>>)
     @@ "g" :> Text(<<Lone(".exit"), <<"a", "byte">>, With(".repeat", <<"a">>), Lone(".endif"), Lone(".endif"), Lone(".endr")>>)}

Small ==
  {Main(x, t) : x \in BOOLEAN, t \in Tests} \cup {P(FALSE, fs) : fs \in Files} \cup
  {P(FALSE, ("main" :> Text(Macro("m", b) \o TheN \o <<l>> \o <<With("m", <<"1", ",", "2", ",", "3">>), With("byte", <<"9">>)>>))
             @@ ("f" :> TheF)) : b \in Seqs(BodyLines, 1, 2), l \in {With(".repeat", <<"2">>), Lone("byte")}}
   \cup {Main(x, Text(TheN \o Macro("m", <<With("n", <<"?2", ",", "??", ",", "?1">>)>>) \o t)) :
           x \in BOOLEAN, t \in Seqs(MainLines, 1, 3)}
=============================================================================
