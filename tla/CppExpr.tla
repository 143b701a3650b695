------------------------------ MODULE CppExpr ------------------------------
(***************************************************************************)
(* cpp68: the evaluator of #if expressions (src/cpp/cexpr.c).  cexpr()     *)
(* reads one token at a time and keeps two stacks: the operators that wait *)
(* (oprstk, with their priorities) and the operands (opnstk).  Feed is one *)
(* turn of its loop, Stkop the function that unstacks and evaluates.       *)
(*                                                                         *)
(* Meaning gives the same expressions a value without a stack, by cutting  *)
(* them at their weakest operator.  It is written down for what the code   *)
(* does, which is not what C says: operators of one priority group to the  *)
(* right, and shifts bind weaker than anything else.                       *)
(***************************************************************************)
EXTENDS Integers, Sequences, SequencesExt

CONSTANT StkLen         \* STKLEN: the entries of each stack

Unary == {"!", "neg", "~"}
Shifts == {"<<", ">>"}
Additive == {"-", "+"}
Scaling == {"*", "/", "%"}
Relations == {"<", "<=", ">", ">="}
Equalities == {"==", "!="}
BitOrs == {"|", "^"}

\* opinfo[] without its bit OPBIN; "end" is CEOF, also at the bottom of the stack
Pri(op) ==
    CASE op = "end" -> 0
      [] op = ")" -> 2
      [] op \in Shifts -> 4
      [] op \in {"?", ":"} -> 6
      [] op \in BitOrs -> 8
      [] op = "&" -> 10
      [] op \in Equalities -> 12
      [] op \in Relations -> 14
      [] op \in Additive -> 16
      [] op \in Scaling -> 18
      [] op \in Unary -> 20
      [] op = "(" -> 22

\* the bit OPBIN, left out for "?" and ":", which Reduce treats apart
Binary == Shifts \cup BitOrs \cup {"&"} \cup Equalities \cup Relations
              \cup Additive \cup Scaling
Operators == Binary \cup {"!", "~", "(", ")", "?", ":"}

Truth(p) == IF p THEN 1 ELSE 0

\* C division rounds towards zero
Quotient(a, b) == LET q == (IF a < 0 THEN -a ELSE a) \div (IF b < 0 THEN -b ELSE b)
                  IN  IF (a < 0) = (b < 0) THEN q ELSE -q

\* bit by bit over the two's complement of 8 bits, enough for the operands used
Bitwise8(a, b, bit(_, _)) ==
    LET Bit(n, k) == (n \div 2^k) % 2
        u == FoldLeft(LAMBDA s, k : s + (IF bit(Bit(a, k), Bit(b, k)) THEN 2^k ELSE 0),
                      0, [k \in 1..8 |-> k - 1])
    IN  IF u >= 128 THEN u - 256 ELSE u

ApplyOp(op, a, b) ==
    CASE op = "+" -> a + b
      [] op = "-" -> a - b
      [] op = "*" -> a * b
      [] op = "/" -> Quotient(a, b)
      [] op = "%" -> a - b * Quotient(a, b)
      [] op = "|" -> Bitwise8(a, b, LAMBDA x, y : x + y > 0)
      [] op = "^" -> Bitwise8(a, b, LAMBDA x, y : x # y)
      [] op = "&" -> Bitwise8(a, b, LAMBDA x, y : x * y = 1)
      [] op = "==" -> Truth(a = b)
      [] op = "!=" -> Truth(a # b)
      [] op = "<" -> Truth(a < b)
      [] op = "<=" -> Truth(a <= b)
      [] op = ">" -> Truth(a > b)
      [] op = ">=" -> Truth(a >= b)
      [] op = "<<" -> a * 2^b
      [] op = ">>" -> a \div 2^b

ApplyUnary(op, a) ==
    CASE op = "neg" -> -a
      [] op = "!" -> Truth(a = 0)
      [] op = "~" -> -a - 1

\* a division by zero stops the program; a negative shift is undefined in C, and
\* the model does not follow it
Traps(op, b) == (op \in {"/", "%"} /\ b = 0) \/ (op \in Shifts /\ b < 0)

-----------------------------------------------------------------------------
(* cexpr() and stkop().  lop says that the last token was an operator.     *)

Cexpr0 == [opr |-> <<>>, opn |-> <<>>, lop |-> TRUE, status |-> "run"]

Top(e) == IF e.opr = <<>> THEN "end" ELSE Last(e.opr)

\* the operator waits: it binds tighter than, or as tight as, the one on the stack
Waits(new, top) == Pri(new) >= Pri(top)

\* evaluates the operator on top of the stack
Reduce(e) ==
    LET op == Top(e)
        n == Len(e.opn)
        b == e.opn[n]
    IN  CASE op \in Binary ->
               IF Traps(op, b) THEN [e EXCEPT !.status = "crash"]
               ELSE [e EXCEPT !.opr = Front(@),
                              !.opn = Append(SubSeq(@, 1, n - 2), ApplyOp(op, @[n - 1], b))]
          [] op \in Unary ->
               [e EXCEPT !.opr = Front(@), !.opn[n] = ApplyUnary(op, b)]
          [] op = ")" -> [e EXCEPT !.opr = Front(@)]        \* it had no "("
          [] op = ":" /\ Len(e.opr) > 1 /\ e.opr[Len(e.opr) - 1] = "?" ->
               [e EXCEPT !.opr = SubSeq(@, 1, Len(@) - 2),
                         !.opn = Append(SubSeq(@, 1, n - 3),
                                        IF @[n - 2] # 0 THEN @[n - 1] ELSE b)]
          [] OTHER -> [e EXCEPT !.status = "syntax"]

RECURSIVE Stkop(_, _)
Stkop(e, op) ==
    IF e.status # "run" THEN e
    ELSE IF Waits(op, Top(e)) \/ (Top(e) = "(" /\ op # ")")
         THEN IF Len(e.opr) >= StkLen - 1 THEN [e EXCEPT !.status = "overflow"]
              ELSE [e EXCEPT !.opr = Append(@, op)]
    ELSE IF Top(e) = "(" THEN [e EXCEPT !.opr = Front(@)]
    ELSE Stkop(Reduce(e), op)

Operand(e, v) ==
    IF ~e.lop THEN [e EXCEPT !.status = "syntax"]
    ELSE IF Len(e.opn) >= StkLen THEN [e EXCEPT !.status = "overflow"]
    ELSE [e EXCEPT !.opn = Append(@, v), !.lop = FALSE]

\* an operator, a parenthesis, or the "end" of the line
Feed(e, t) ==
    LET bad == [e EXCEPT !.status = "syntax"]
    IN  CASE t = "-" /\ e.lop -> Stkop(e, "neg")
          [] t = "+" /\ e.lop -> e
          [] t \in {"!", "~", "("} -> IF e.lop THEN Stkop(e, t) ELSE bad
          [] t = ")" -> IF e.lop THEN bad ELSE Stkop(e, t)
          [] t = "end" ->
               IF e.lop THEN bad
               ELSE LET f == Stkop(e, "end")
                    IN  IF f.status = "run"
                        THEN [f EXCEPT !.status = IF Len(f.opn) = 1 THEN "done" ELSE "syntax"]
                        ELSE f
          [] t \in Operators -> IF e.lop THEN bad ELSE [Stkop(e, t) EXCEPT !.lop = TRUE]
          [] OTHER -> bad

-----------------------------------------------------------------------------
(* The reference.  A value is a number, an expression without one gets     *)
(* Wrong.  Cut(t, ops) is where the weakest operators, ops, cut t first.   *)

Wrong == [wrong |-> TRUE]
Right(v) == [wrong |-> FALSE, v |-> v]

Nesting(t, i) == Cardinality({j \in 1..(i - 1) : t[j] = "("})
                   - Cardinality({j \in 1..(i - 1) : t[j] = ")"})
Balanced(t) == /\ \A i \in 1..(Len(t) + 1) : Nesting(t, i) >= 0
               /\ Nesting(t, Len(t) + 1) = 0

FollowsOperand(t, i) == i > 1 /\ t[i - 1] \notin Operators \ {")"}

Cut(t, ops) ==
    LET cuts == {i \in 1..Len(t) : /\ t[i] \in ops
                                   /\ Nesting(t, i) = 0
                                   /\ t[i] \in Additive => FollowsOperand(t, i)}
    IN  IF cuts = {} THEN 0 ELSE CHOOSE i \in cuts : \A j \in cuts : i <= j

Levels == <<Shifts, {"?"}, BitOrs, {"&"}, Equalities, Relations, Additive, Scaling>>

Binop(t, l, r) == IF l.wrong \/ r.wrong THEN Wrong ELSE Right(ApplyOp(t, l.v, r.v))
Choice(c, yes, no) == IF c.wrong \/ yes.wrong \/ no.wrong THEN Wrong
                      ELSE Right(IF c.v # 0 THEN yes.v ELSE no.v)
Unop(t, x) == IF x.wrong THEN Wrong
              ELSE IF t = "+" THEN x ELSE Right(ApplyUnary(IF t = "-" THEN "neg" ELSE t, x.v))

RECURSIVE Meaning(_, _)

\* c is where the ":" of a conditional expression stands behind its "?"
Conditional(cond, rest, c, valueOf) ==
    IF c = 0 THEN Wrong
    ELSE Choice(cond, Meaning(SubSeq(rest, 1, c - 1), valueOf),
                Meaning(SubSeq(rest, c + 1, Len(rest)), valueOf))

CutAt(t, i, valueOf) ==
    LET left == SubSeq(t, 1, i - 1)
        rest == SubSeq(t, i + 1, Len(t))
    IN  IF t[i] = "?" THEN Conditional(Meaning(left, valueOf), rest, Cut(rest, {":"}), valueOf)
        ELSE Binop(t[i], Meaning(left, valueOf), Meaning(rest, valueOf))

\* valueOf gives the operands their values
Meaning(t, valueOf) ==
    LET cutting == {k \in DOMAIN Levels : Cut(t, Levels[k]) > 0}
        weakest == CHOOSE k \in cutting : \A j \in cutting : k <= j
    IN  IF t = <<>> THEN Wrong
        ELSE IF cutting # {} THEN CutAt(t, Cut(t, Levels[weakest]), valueOf)
        ELSE IF t[1] \in {"-", "+", "!", "~"} THEN Unop(t[1], Meaning(Tail(t), valueOf))
        ELSE IF t[1] = "(" /\ Last(t) = ")" THEN Meaning(SubSeq(t, 2, Len(t) - 1), valueOf)
        ELSE IF Len(t) = 1 /\ t[1] \in DOMAIN valueOf THEN Right(valueOf[t[1]])
        ELSE Wrong
=============================================================================
