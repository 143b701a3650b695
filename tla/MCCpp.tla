------------------------------- MODULE MCCpp -------------------------------
(* Instances of Cpp: all short programs over some lines of each kind.      *)
EXTENDS Cpp

Define1(toks) == << <<"#", "define", "ws">> \o toks \o <<"nl">> >>
UseA == << <<"A", "ws", "y", "nl">> >>
UseC == << <<"A", "C", "y", "nl">> >>
UseLine == << <<"y", "ws", "__LINE__", "nl">> >>
IfdefA == << <<"#", "ifdef", "ws", "A", "nl">> >>
IfndefB == << <<"#", "ifndef", "ws", "B", "nl">> >>
IfA == << <<"#", "if", "ws", "A", "==", "1", "nl">> >>
ElseLine == << <<"#", "else", "nl">> >>
EndifLine == << <<"#", "endif", "nl">> >>
DefA == Define1(<<"A", "ws", "1">>)
DefB == Define1(<<"B", "ws", "(", "x", ")">>)
DefC == Define1(<<"C", "ws", "x", "\\", "nl", "x">>)
DefF == Define1(<<"F", "(", "a", ",", "b", ")", "ws", "b", "+", "A", "-", "a">>)
LongCall == << <<"F", "(", "nl", "x", ",", "nl", "A", ")", "nl">> >>
LongComment == << <<"x", "/*", "nl", "A", "*/", "A", "//", "B", "nl">> >>
IncludeK == << <<"#", "include", "ws", "<k>", "nl">> >>

Chunks == {
    DefA, DefB, DefF, UseA, UseLine, IfdefA, IfndefB, IfA, ElseLine, EndifLine,
    Define1(<<"A", "ws", "B", "+", "B">>),
    DefC, UseC, DefF \o LongCall, LongComment,
    << <<"#", "undef", "ws", "A", "nl">>, <<"#", "nl">>, <<"#", "ident", "nl">> >>,
    << <<"F", "(", "A", ",", "(", "B", ",", "y", ")", ")", "-", "F", "nl">> >>,
    << <<"F", "ws", "(", "F", "(", "y", ",", "A", ")", ",", "B", ")", "nl">> >>,
    << <<"#", "line", "ws", "7", "nl">> >> \o UseLine,
    << <<"#", "include", "ws", "<h>", "nl">> >> }

Header == UseA \o UseLine \o IfdefA \o DefB \o EndifLine
          \o IncludeK \o UseLine

File1(lines) == ("m" :> lines) @@ ("<h>" :> Header)
                  @@ ("<k>" :> UseLine)

Plain == {File1(FlattenSeq(s)) : s \in [1..3 -> Chunks]}

\* deeper conditionals, with text behind every line of them
Branches == {File1(FlattenSeq([k \in 1..10 |-> IF k % 2 = 1 THEN s[(k + 1) \div 2] ELSE UseA])) :
                s \in [1..5 -> {DefA, IfdefA, IfndefB, IfA, ElseLine, EndifLine}]}

\* expressions: two operators of every kind, with and without parentheses
Expressions ==
    LET E(p, q) == {<<"2", p, "3", q, "1">>, <<"(", "2", p, "3", ")", q, "1">>,
                    <<"-", "2", p, "(", "3", q, "1", ")">>, <<"!", "2", p, "~", "3", q, "0">>}
        C == {<<"0", "?", "2", ":", "1", "?", "0", ":", "3">>, <<"1", "?", "1", "?", "2", ":", "3", ":", "0">>,
              <<"+", "2", "1">>, <<"2", "-">>, <<"(", ")">>, <<"1", "?", "2">>}
    IN  C \cup UNION {E(p, q) : p \in Binary, q \in Binary}
          \cup UNION {E(p, "?")  : p \in Binary}
          \cup {<<"2", p, "1", "?", "2", ":", "3", q, "1">> : p \in Binary, q \in Binary}

Conditions == {File1(<< <<"#", "if", "(">> \o e \o <<")", "==", v, "nl">> >>
                     \o UseLine \o ElseLine \o UseA) :
                   e \in Expressions, v \in {"0", "1", "2"}}

\* macros that come up again in their own expansion, long arguments, errors
Special == {File1(l) : l \in {
    Define1(<<"A", "ws", "A">>) \o UseA,
    Define1(<<"A", "ws", "B", "B">>) \o Define1(<<"B", "ws", "A", "A">>) \o UseA \o UseLine,
    Define1(<<"A", "ws", "B">>) \o Define1(<<"B", "ws", "A">>) \o UseA \o UseLine,
    DefC \o << <<"#", "if", "ws", "C", "==", "1", "nl">> >> \o UseLine \o EndifLine,
    DefF \o << <<"F", "(", "x", ",", "y", ",", "x", ",", "y", ")", "nl">> >>,
    DefF \o << <<"F", "(", "x", ",", "y", "nl">> >>,
    Define1(<<"F", "(", "a", ",", ")", "ws", "a">>),
    IfdefA \o IfdefA \o IfdefA \o IfdefA,
    << <<"Newlabel", ";", "Label", ";", "Label", "(", "1", ")", "nl">> >>,
    << <<"#", "include", "ws", "missing", "nl">>, <<"#", "include", "ws", "x", "nl">> >>,
    << <<"x", "q", "A", "nl">>, <<"x", "/*", "nl">> >>,
    DefA \o << <<"#", "if", "A", "A", "nl">>, <<"#", "endif", "nl">>, <<"#", "line", "ws", "x", "nl">> >>
    }}

\* #define x x, and the file's name on the second line of an include file
SelfMacro == {File1(Define1(<<"x", "ws", "x">>) \o << <<"x", "nl">> >>)}
NamesFile == {[File1(<< <<"#", "include", "ws", "<h>", "nl">> >>) EXCEPT
                  !["<h>"] = UseA \o << <<"__FILE__", "nl">> >>]}

\* an include file whose lines are hidden in a comment, a definition, a call
\* or a continued macro, with another file included behind them
InHeader == {[File1(e \o << <<"#", "include", "ws", "<h>", "nl">> >> \o UseLine) EXCEPT
                 !["<h>"] = d \o c \o UseLine \o i \o UseA] :
                 e \in {<<>>, DefC}, d \in {<<>>, DefC}, i \in {<<>>, IncludeK},
                 c \in {<<>>, LongComment, DefF \o LongCall, UseC}}

Recursive == {[File1(<< <<"#", "include", "ws", "<h>", "nl">> >> \o UseLine) EXCEPT
                  !["<k>"] = UseLine \o << <<"#", "include", "ws", "<h>", "nl">> >>]}

MCPrograms == InHeader \cup Recursive \cup Plain \cup Branches \cup Conditions \cup Special
=============================================================================
