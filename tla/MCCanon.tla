------------------------------ MODULE MCCanon ------------------------------
(* Trees of up to three operators, built as the parser builds them.        *)
EXTENDS Canon, TLC

Sym(name, type) == [op |-> "SYMBOL", type |-> type, su |-> 0, name |-> name,
                    sc |-> IF name = "reg" THEN "REGISTER" ELSE "AUTO"]
x == Sym("x", "INT")
reg == Sym("reg", "INT")
u == Sym("u", "UNSIGNED")
l == Sym("l", "LONG")
call == N1("NACALL", "INT", x)
Consts == {Cint(n) : n \in {-1, 0, 1, 2, 3}}

\* tree.c maketree(): the tree of an operator, with the conversions of its operands
AsLong(t) == IF t.type = "LONG" THEN t ELSE IF t.op = "CINT" THEN Clong(t.n)
           ELSE N1("INT2L", "LONG", t)
AsInt(t) == IF t.type # "LONG" THEN t ELSE N1("LONG2I", "INT", t)
Tree(op, a, b) ==
    LET types == {a.type, b.type}
        type == IF "LONG" \in types THEN "LONG"
                ELSE IF "UNSIGNED" \in types THEN "UNSIGNED" ELSE "INT"
        of == IF op \in Relational THEN "INT" ELSE type
    IN  IF op \in Assigning
        THEN N2(op, a.type, a, IF a.type = "LONG" THEN AsLong(b) ELSE AsInt(b))
        ELSE IF type = "LONG" THEN N2(op, of, AsLong(a), AsLong(b)) ELSE N2(op, of, a, b)

BinaryOps == {"ADD", "SUB", "MULT", "DIV", "MOD", "AND", "OR", "XOR", "LSH", "RSH",
              "EQUALS", "NEQUALS", "GREAT", "GREATEQ", "LESS", "LESSEQ"}
Pairs(ops, as, bs) ==
    {Tree(w[1], w[2], w[3]) :
        w \in {v \in ops \X as \X bs : ~(IsConst(v[2]) /\ IsConst(v[3]))}}
Unaries(ts) == {N1(op, t.type, t) : op \in {"UMINUS", "COMPL", "NOT"}, t \in ts}

Vars == {x, reg, u, l, call}
One == Pairs(BinaryOps, Vars \cup Consts, Vars \cup Consts)

\* one operator below another, left, right and alone
Inner == {"ADD", "SUB", "MULT", "DIV", "AND", "OR", "XOR", "LSH", "RSH", "MOD"}
Outer == {"ADD", "SUB", "MULT", "DIV", "AND", "XOR", "EQUALS", "LESS"}
Below == Pairs(Inner, {x, u, l, call}, {reg, l, Cint(-1), Cint(2)})
Two == Pairs(Outer, Below, {x, u, l, Cint(0), Cint(-1), Cint(2)})
       \cup Pairs(Outer, {x, u, l, Cint(2)}, Below)
       \cup Unaries(Below \cup Vars)
Thrice == Unaries(Unaries({x, u, l}))
Negated == Thrice \cup Pairs(Outer, {x, l, u}, Thrice)

\* rows of one commutable operator, with registers, constants and a call
Rows == UNION {Pairs({op}, Pairs({op}, {x, call, Cint(3)}, {reg, l, Cint(2)}),
                     Pairs({op}, {x, reg, l}, {call, Cint(2)})) : op \in Commutative}

\* assignments, also through a pointer that is called for, and to fields
Cells == {N1("INDR", "INT", x), N1("INDR", "LONG", call)}
Assigned == Pairs(Assigning, {x, u, l} \cup Cells,
                  {x, u, l, call, Cint(-1), Cint(0), Cint(1), Cint(2)})
            \cup Pairs({"ASSIGN", "EQADD", "EQDIV"}, {x, l}, Below)
Divided == {N2("ASSIGN", "INT", x, N1("LONG2I", "INT", d)) :
                d \in Pairs({"DIV", "MOD"}, {l}, {x, u, l, Cint(2), Cint(3)})}
FieldsOf(w) == {N1("BFIELD", "INT", w) @@ [off |-> f[1], len |-> f[2]] :
                   f \in {<<0, 4>>, <<0, 2>>, <<1, 1>>, <<1, 3>>}}
Fields == Pairs(Assigning, FieldsOf(x), {x, reg, call, Cint(0), Cint(1), Cint(2), Cint(3)})
          \cup Pairs({"ASSIGN"}, FieldsOf(N1("INDR", "INT", call)), {x, Cint(0), Cint(3)})
          \cup Pairs({"ADD", "DIV", "EQUALS"}, FieldsOf(x), {x, u, l, Cint(1)})

\* a condition that can be computed
Chosen == {N2("QMARK", "INT", N1("NOT", "INT", N2("LESS", "INT", t, Cint(0))),
              N2("COLON", "INT", Cint(2), Cint(3))) : t \in {u, N2("ADD", "UNSIGNED", u, x)}}
Bits == {Cint(n) : n \in 0..3}
BitTest == Pairs({"EQUALS", "NEQUALS"}, Pairs({"AND"}, {x, u, l, call}, Bits), Bits)

MCTrees0 == One \cup Two \cup Negated \cup Rows \cup Assigned \cup Divided \cup Fields
            \cup Chosen \cup BitTest
Env(a, b, c) == [x |-> a, u |-> b, reg |-> c, l |-> 5 * a - c, f |-> Num("INT", 3 - c),
                 m |-> c, value |-> 0]
MCEnvironments == {Env(-8, 15, 6), Env(7, 9, -2), Env(-3, 3, 0), Env(1, 0, 5),
                   Env(0, 8, -8), Env(2, 1, 3), Env(-7, 12, 1), Env(5, 6, -5)}
=============================================================================
