------------------------------- MODULE MCStmt -------------------------------
(* Instances of Stmt: all function bodies of two levels, a choice of those *)
(* with three, switches over all sets of five values.                      *)
EXTENDS Stmt

One(k, x, s) == [k |-> k, x |-> x, sub |-> s, parts |-> {}, decls |-> <<>>, sc |-> "auto", v |-> 0]
Leaf(k) == One(k, "-", <<>>)
Block(decls, sc, s) == [One("block", "-", s) EXCEPT !.decls = decls, !.sc = sc]
For(parts, s) == [One("for", "-", <<s>>) EXCEPT !.parts = parts]
Case(v, s) == [One("case", "-", <<s>>) EXCEPT !.v = v]
Body(s) == Block(<<>>, "auto", s)

Work == Leaf("expr")
Jumps == {Leaf("break"), Leaf("continue"), Leaf("return"), One("goto", "L", <<>>)}
Leaves == Jumps \cup {Work, Leaf("empty"), [Leaf("return") EXCEPT !.parts = {"value"}]}

\* a statement around the statement s
Around1(s) ==
    {One(k, "-", <<s>>) : k \in {"if", "while", "do", "switch", "default"}}
      \cup {One("label", "L", <<s>>), Case(1, s), Block(<<>>, "auto", <<s, Work>>),
            Block(<<>>, "auto", <<Work, s>>), One("ifelse", "-", <<Work, s>>)}
      \cup {For(parts, s) : parts \in {{}, {"test"}, {"init", "step"}, {"init", "test", "step"}}}
\* statements that belong together
Pairs == {<<a, b>> : a \in Jumps \cup {Work}, b \in Leaves}

Two == UNION {Around1(s) : s \in Leaves}
       \cup {One("ifelse", "-", s) : s \in Pairs}
Three == UNION {Around1(s) : s \in Two}
Inner == {One("switch", "-", <<Body(<<Case(1, a), Case(2, b)>>)>>) : a \in Jumps, b \in {Work}}
Four == UNION {Around1(t) : t \in UNION {Around1(s) : s \in Inner}}

\* the function: the statement, then a label to go to
Functions1 == {Body(<<s, One("label", "L", <<Work>>)>>) : s \in Two \cup Three \cup Four}

\* switches over five and six values in two orders, with and without default
Sorted(S) == SetToSortSeq(S, <)
Switch(vs, more) ==
    Body(<<One("switch", "-", <<Body([i \in DOMAIN vs |-> Case(vs[i], IF i = 2 THEN Leaf("break") ELSE Work)]
                                       \o more)>>), Work>>)
Switches == {Switch(vs, more) :
                vs \in UNION {{Sorted(S), Reverse(Sorted(S))} :
                                 S \in {T \in SUBSET Values : Cardinality(T) \in 3..6}},
                more \in {<<>>, <<One("default", "-", <<Work>>)>>}}

\* names: the variables x and y in nested blocks, of both storage classes
Use(x) == One("expr", x, <<>>)
Decls == {<<>>, <<"x">>, <<"x", "y">>, <<"x", "x">>}
Names == {Block(d1, sc, <<a, Block(d2, "auto", <<Use("x"), b, Block(d3, sc, <<Use("x")>>), Use("x")>>),
                          Block(d3, "auto", <<Use("y")>>), Use("y")>>) :
             d1 \in Decls, d2 \in Decls, d3 \in Decls, sc \in {"auto", "static"},
             a \in {Use("x"), Use("y")}, b \in {Work, One("goto", "L", <<>>)}}
         \cup {Block(<<"x">>, "auto", <<One(k, "x", <<Block(<<"x">>, "auto", <<Use("x"), Work>>)>>), Use("x")>>) :
                  k \in {"if", "while", "do", "switch"}}
         \cup {Block(<<"x">>, "auto", <<[For(p, Block(<<"x">>, "static",
                                          <<[For(q, Use("x")) EXCEPT !.x = "x"]>>)) EXCEPT !.x = "x"]>>) :
                  p \in SUBSET {"init", "test", "step"}, q \in SUBSET {"init", "test", "step"}}

MCPrograms == Functions1 \cup Switches \cup Names
MCValues == {-8, -7, -1, 0, 1, 2, 5, 6, 7}
=============================================================================
