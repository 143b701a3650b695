------------------------------- MODULE Trees -------------------------------
(* Expression trees as the parser hands them to the code generator, and    *)
(* what they mean.  This is the reference of module Canon: a tree is a     *)
(* function of an environment, an assignment changes the environment, and  *)
(* a call is something that is done as often as the tree says.             *)
(*                                                                         *)
(* A node is a record with op, type ("INT", "UNSIGNED" or "LONG") and su   *)
(* (t_su); constants have n, symbols have name and sc, bit fields off and  *)
(* len, unary nodes l, binary nodes l and r.  An int has IntBits bits and  *)
(* a long twice as many.                                                   *)
EXTENDS Integers, Sequences, FiniteSets, Bitwise

CONSTANTS IntBits       \* bits of an int

N2(op, type, l, r) == [op |-> op, type |-> type, su |-> 0, l |-> l, r |-> r]
N1(op, type, l) == [op |-> op, type |-> type, su |-> 0, l |-> l]
Cint(n) == [op |-> "CINT", type |-> "INT", su |-> 0, n |-> n]
Clong(n) == [op |-> "CLONG", type |-> "LONG", su |-> 0, n |-> n]

(* Classes of operators: opinfo[] of the compiler *)
Leaf == {"CINT", "CLONG", "DCLONG", "SYMBOL"}
Unary == {"NOT", "UMINUS", "COMPL", "INT2L", "LONG2I", "EQNOT", "EQNEG", "INDR",
          "NACALL", "BFIELD"}
Commutative == {"ADD", "MULT", "AND", "OR", "XOR"}
Relational == {"EQUALS", "NEQUALS", "GREAT", "GREATEQ", "LESS", "LESSEQ"}
Assigning == {"ASSIGN", "EQADD", "EQSUB", "EQMULT", "EQDIV", "EQMOD", "EQRSH",
              "EQLSH", "EQAND", "EQOR", "EQXOR"}

\* the operator of an assignment operator
Plain(op) ==
    CASE op = "EQADD" -> "ADD" [] op = "EQSUB" -> "SUB" [] op = "EQMULT" -> "MULT"
      [] op = "EQDIV" -> "DIV" [] op = "EQMOD" -> "MOD" [] op = "EQRSH" -> "RSH"
      [] op = "EQLSH" -> "LSH" [] op = "EQAND" -> "AND" [] op = "EQOR" -> "OR"
      [] op = "EQXOR" -> "XOR" [] op = "EQNEG" -> "UMINUS" [] op = "EQNOT" -> "COMPL"

Binary(t) == t.op \notin Leaf \cup Unary
IsConst(t) == t.op \in {"CINT", "CLONG"}
IsReg(t) == t.op = "SYMBOL" /\ t.sc = "REGISTER"
IsAssignment(t) == t.op \in Assigning \cup {"EQNEG", "EQNOT"}

\* the element of a set that has one: The({F(v) : v \in {e}}) is F(e), e evaluated once
The(S) == CHOOSE v \in S : TRUE

RECURSIVE Nodes(_)
Nodes(t) == {t} \cup (IF t.op \in Leaf THEN {} ELSE Nodes(t.l))
                \cup (IF Binary(t) THEN Nodes(t.r) ELSE {})

---------------------------------------------------------------------------
(* Numbers                                                                 *)

Width(type) == IF type = "LONG" THEN 2 * IntBits ELSE IntBits
Bit(i) == 2 ^ i

\* the value of a number kept in a type
Num(type, v) ==
    LET m == Bit(Width(type))
    IN  IF type = "UNSIGNED" THEN v % m ELSE ((v + m \div 2) % m) - m \div 2

Pattern(v) == v % Bit(2 * IntBits)
AllOnes(type, v) == Num(type, v) = Num(type, -1)

\* division of C: towards zero
Quotient(a, b) ==
    LET abs(x) == IF x < 0 THEN -x ELSE x
        q == abs(a) \div abs(b)
    IN  IF (a < 0) = (b < 0) THEN q ELSE -q

NoValue == Bit(4 * IntBits)     \* what has no value of its own: division by zero

\* op applied to numbers, without regard to the width of the result
Apply(op, a, b, bits) ==
    LET truth(p) == IF p THEN 1 ELSE 0
    IN  CASE op = "ADD" -> a + b
          [] op = "SUB" -> a - b
          [] op \in {"MULT", "LMULT"} -> a * b
          [] op \in {"DIV", "LDIV"} -> IF b = 0 THEN NoValue ELSE Quotient(a, b)
          [] op \in {"MOD", "LMOD"} -> IF b = 0 THEN NoValue ELSE a - b * Quotient(a, b)
          [] op = "AND" -> Pattern(a) & Pattern(b)
          [] op = "OR" -> Pattern(a) | Pattern(b)
          [] op = "XOR" -> Pattern(a) ^^ Pattern(b)
          [] op = "LSH" -> IF b \in 0..bits - 1 THEN a * Bit(b) ELSE NoValue
          [] op = "RSH" -> IF b \in 0..bits - 1 THEN a \div Bit(b) ELSE NoValue
          [] op = "EQUALS" -> truth(a = b)
          [] op = "NEQUALS" -> truth(a # b)
          [] op = "GREAT" -> truth(a > b)
          [] op = "GREATEQ" -> truth(a >= b)
          [] op = "LESS" -> truth(a < b)
          [] op = "LESSEQ" -> truth(a <= b)

---------------------------------------------------------------------------
(* What a tree means in environment e, a function from names to numbers.   *)
(* With strict, only what C defines has a value: no overflow of signed     *)
(* numbers and nothing lost by a conversion to int.  Without it, numbers   *)
(* wrap as they do in the registers.                                       *)

\* the type in which the operands are compared and divided: by their own types
OperandType(t) ==
    IF "LONG" \in {t.l.type, t.r.type} THEN "LONG"
    ELSE IF "UNSIGNED" \in {t.l.type, t.r.type} THEN "UNSIGNED"
    ELSE "INT"

\* the quotient of a division of a long by an int is an int
FitsQuotient(t, v) ==
    t.op = "DIV" /\ t.l.type = "LONG" /\ t.r.type # "LONG" => v = Num("INT", v)

\* the result of a computation of type; exact when nothing may be lost
Result(type, v, exact) ==
    IF v = NoValue \/ (exact /\ v # Num(type, v)) THEN NoValue ELSE Num(type, v)

\* the field of a word
Field(t, w) == (Pattern(w) \div Bit(t.off)) % Bit(t.len)

RECURSIVE Meaning(_, _, _)
Meaning(t, e, strict) ==
    IF t.op \in {"CINT", "CLONG", "DCLONG"} THEN t.n
    ELSE IF t.op = "SYMBOL" THEN e[t.name]
    ELSE IF t.op = "NACALL" THEN e["f"]
    ELSE IF t.op = "INDR" THEN e["m"]
    ELSE IF t.op = "QMARK" THEN
        LET c == Meaning(t.l, e, strict)
        IN  IF c = NoValue THEN NoValue
            ELSE Meaning(IF c # 0 THEN t.r.l ELSE t.r.r, e, strict)
    ELSE IF Binary(t) THEN
        LET a == Meaning(t.l, e, strict)
            b == Meaning(t.r, e, strict)
            ty == OperandType(t)
            v == IF t.op \in {"LSH", "RSH"} THEN Apply(t.op, a, b, Width(t.l.type))
                 ELSE Apply(t.op, Num(ty, a), Num(ty, b), 0)
        IN  IF NoValue \in {a, b} THEN NoValue
            ELSE IF ~FitsQuotient(t, v) THEN NoValue
            ELSE Result(t.type, v, strict /\ t.type # "UNSIGNED"
                            /\ t.op \in {"ADD", "SUB", "MULT", "DIV"})
    ELSE
        LET a == Meaning(t.l, e, strict)
        IN  IF a = NoValue THEN NoValue
            ELSE CASE t.op = "NOT" -> IF a = 0 THEN 1 ELSE 0
                   [] t.op = "UMINUS" -> Result(t.type, -a, strict /\ t.type # "UNSIGNED")
                   [] t.op = "COMPL" -> Num(t.type, -a - 1)
                   [] t.op = "INT2L" -> a
                   [] t.op = "LONG2I" -> Result(t.type, a, strict)
                   [] t.op = "BFIELD" -> Field(t, a)

\* the place an assignment changes
RECURSIVE Place(_)
Place(t) == CASE t.op = "SYMBOL" -> t.name
              [] t.op = "INDR" -> "m"
              [] t.op = "BFIELD" -> Place(t.l)

\* the number an assignment leaves there
Stored(t, e, strict) ==
    LET v == IF t.op = "ASSIGN" THEN Meaning(t.r, e, strict)
             ELSE IF t.op \in Unary THEN Meaning(N1(Plain(t.op), t.type, t.l), e, strict)
             ELSE Meaning(N2(Plain(t.op), t.type, t.l, t.r), e, strict)
        w == e[Place(t.l)]
    IN  IF v = NoValue THEN NoValue
        ELSE IF t.l.op # "BFIELD" THEN Num(t.type, v)
        ELSE Num("INT", w + ((v % Bit(t.l.len)) - Field(t.l, w)) * Bit(t.l.off))

\* the environment after t was evaluated, with its value when it assigns none
Outcome(t, e, strict) ==
    LET v == IF IsAssignment(t) THEN Stored(t, e, strict) ELSE Meaning(t, e, strict)
        at == IF IsAssignment(t) /\ v # NoValue THEN Place(t.l) ELSE "value"
    IN  [e EXCEPT ![at] = v]

\* the outcomes of tree t are the same in what t is about
SameOutcome(t, a, b) ==
    IF IsAssignment(t) THEN \A n \in DOMAIN a \ {"value"} : a[n] = b[n]
    ELSE Num(t.type, a["value"]) = Num(t.type, b["value"])

\* the calls made
RECURSIVE Calls(_)
Calls(t) ==
    IF t.op = "NACALL" THEN 1
    ELSE IF t.op \in Leaf THEN 0
    ELSE Calls(t.l) + (IF Binary(t) THEN Calls(t.r) ELSE 0)
=============================================================================
