---------------------------- MODULE Statements ----------------------------
(* What the statements of a C function mean: a reference for the          *)
(* parser's stmt.c, read off the language and not off the parser.         *)
(*                                                                         *)
(* A statement is a record with its kind k, the statements sub it is made  *)
(* of, a name x (the variable its expression uses, the label of a goto or  *)
(* a label; "-" for none) and, by kind, the value v of a case, the parts   *)
(* of a for, the variables decls that a block declares.  A place in a      *)
(* program is a path: the numbers of the statements to descend into.  A    *)
(* position of the running program is an expression about to be evaluated, *)
(* <<place, part>>, or AtEnd, or Spinning: a loop without any expression.  *)
EXTENDS Integers, FiniteSets, Sequences, SequencesExt

CONSTANTS Globals,      \* names declared outside the function
          Fuel          \* bound on steps without an expression

Kinds == {"block", "expr", "empty", "if", "ifelse", "while", "do", "for",
          "switch", "case", "default", "label", "goto", "break", "continue",
          "return", "asm"}
Loops == {"while", "do", "for"}

AtEnd == << <<>>, "end" >>
Spinning == << <<>>, "spin" >>

RECURSIVE Node(_, _)
Node(s, path) == IF path = <<>> THEN s ELSE Node(s.sub[Head(path)], Tail(path))

RECURSIVE Places(_)
Places(s) == {<<>>} \cup UNION {{<<i>> \o q : q \in Places(s.sub[i])} : i \in DOMAIN s.sub}

OfKind(prog, ks) == {q \in Places(prog) : Node(prog, q).k \in ks}

Around(prog, path, ks) ==           \* the statements of kinds ks around path
    {q \in OfKind(prog, ks) : IsStrictPrefix(q, path)}

Innermost(paths) == CHOOSE q \in paths : \A r \in paths : Len(r) <= Len(q)

Before(p, q) ==                     \* p comes before q in the text
    \/ IsStrictPrefix(p, q)
    \/ \E n \in 1..(IF Len(p) < Len(q) THEN Len(p) ELSE Len(q)) :
          SubSeq(p, 1, n - 1) = SubSeq(q, 1, n - 1) /\ p[n] < q[n]

\* the cases and the defaults of the switch at path
Entries(prog, path, k) ==
    {q \in OfKind(prog, {k}) : LET S == Around(prog, q, {"switch"})
                               IN  S # {} /\ Innermost(S) = path}

Labelled(prog, name) == {q \in OfKind(prog, {"label"}) : Node(prog, q).x = name}

\* The variable that a name means at a place: of the innermost block that
\* declares it, else one outside the function, else none.
NoVariable == << <<0>>, "none" >>
Undeclared == << <<0>>, "undeclared" >>
Global(name) == << <<0>>, name >>
Variable(prog, path, name) ==
    LET D == {q \in OfKind(prog, {"block"}) :
                IsPrefix(q, path) /\ \E i \in DOMAIN Node(prog, q).decls : Node(prog, q).decls[i] = name}
    IN  IF name = "-" THEN NoVariable
        ELSE IF D # {} THEN <<Innermost(D), name>>
        ELSE IF name \in Globals THEN Global(name) ELSE Undeclared

---------------------------------------------------------------------------
(* Where control goes.  n counts the steps left without an expression.     *)

At(prog, path, part) == <<path, part>>

RECURSIVE Enter(_, _, _)
RECURSIVE Follow(_, _, _)

ForTest(prog, path, n) ==
    IF "test" \in Node(prog, path).parts THEN At(prog, path, "test")
    ELSE Enter(prog, path \o <<1>>, n - 1)

Again(prog, path, n) ==             \* the body of the loop at path is over
    LET s == Node(prog, path)
    IN  IF s.k # "for" THEN At(prog, path, "test")
        ELSE IF "step" \in s.parts THEN At(prog, path, "step")
        ELSE ForTest(prog, path, n)

Enter(prog, path, n) ==
    LET s == Node(prog, path)
        loop(ks) == Innermost(Around(prog, path, ks))
    IN  IF n <= 0 THEN Spinning
        ELSE CASE s.k = "empty" -> Follow(prog, path, n - 1)
               [] s.k \in {"expr", "asm"} -> At(prog, path, s.k)
               [] s.k \in {"if", "ifelse", "while", "switch"} -> At(prog, path, "test")
               [] s.k \in {"do", "case", "default", "label"} -> Enter(prog, path \o <<1>>, n - 1)
               [] s.k = "block" -> IF s.sub = <<>> THEN Follow(prog, path, n - 1)
                                   ELSE Enter(prog, path \o <<1>>, n - 1)
               [] s.k = "for" -> IF "init" \in s.parts THEN At(prog, path, "init")
                                 ELSE ForTest(prog, path, n)
               [] s.k = "break" -> Follow(prog, loop(Loops \cup {"switch"}), n - 1)
               [] s.k = "continue" -> Again(prog, loop(Loops), n - 1)
               [] s.k = "goto" -> Enter(prog, CHOOSE q \in Labelled(prog, s.x) : TRUE, n - 1)
               [] s.k = "return" -> IF "value" \in s.parts THEN At(prog, path, "value") ELSE AtEnd

Follow(prog, path, n) ==            \* the statement at path is over
    IF path = <<>> THEN AtEnd
    ELSE IF n <= 0 THEN Spinning
    ELSE LET outer == Front(path)
             s == Node(prog, outer)
         IN  IF s.k \in Loops THEN Again(prog, outer, n - 1)
             ELSE IF s.k = "block" /\ Last(path) < Len(s.sub)
                  THEN Enter(prog, outer \o <<Last(path) + 1>>, n - 1)
             ELSE Follow(prog, outer, n - 1)

Begin(prog) == Enter(prog, <<>>, Fuel)

\* What an expression can come out as: a test is true or false, the value
\* switched on is a case's or another; anything else has one outcome.
Outcomes(prog, at, values) ==
    IF at[2] # "test" THEN {TRUE}
    ELSE IF Node(prog, at[1]).k = "switch" THEN values ELSE BOOLEAN

After(prog, at, v) ==               \* the position after an expression
    LET path == at[1]
        s == Node(prog, path)
        body == Enter(prog, path \o <<1>>, Fuel)
        over == Follow(prog, path, Fuel)
    IN  CASE at[2] \in {"expr", "asm"} -> over
          [] at[2] = "value" -> AtEnd
          [] at[2] = "init" -> ForTest(prog, path, Fuel)
          [] at[2] = "step" -> ForTest(prog, path, Fuel)
          [] at[2] = "test" /\ s.k = "switch" ->
                LET hit == {q \in Entries(prog, path, "case") : Node(prog, q).v = v}
                    other == Entries(prog, path, "default")
                    to == IF hit # {} THEN hit ELSE other
                IN  IF to = {} THEN over ELSE Enter(prog, CHOOSE q \in to : TRUE, Fuel)
          [] at[2] = "test" /\ s.k # "switch" ->
                IF v THEN body
                ELSE IF s.k = "ifelse" THEN Enter(prog, path \o <<2>>, Fuel) ELSE over

---------------------------------------------------------------------------
(* The programs that mean something.                                       *)

Legal(prog) ==
    /\ \A q \in OfKind(prog, {"break"}) : Around(prog, q, Loops \cup {"switch"}) # {}
    /\ \A q \in OfKind(prog, {"continue"}) : Around(prog, q, Loops) # {}
    /\ \A q \in OfKind(prog, {"case", "default"}) : Around(prog, q, {"switch"}) # {}
    /\ \A q \in OfKind(prog, {"switch"}) :
          /\ \A r1, r2 \in Entries(prog, q, "case") :
                Node(prog, r1).v = Node(prog, r2).v => r1 = r2
          /\ Cardinality(Entries(prog, q, "default")) <= 1
    /\ \A q \in OfKind(prog, {"goto", "label"}) :
          Cardinality(Labelled(prog, Node(prog, q).x)) = 1
    /\ \A q \in OfKind(prog, Kinds \ {"goto", "label"}) :
          Variable(prog, q, Node(prog, q).x) # Undeclared
    /\ \A q \in OfKind(prog, {"block"}) : IsInjective(Node(prog, q).decls)
=============================================================================
