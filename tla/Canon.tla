------------------------------- MODULE Canon -------------------------------
(* The code generator's canonical form of an expression: canon.c and       *)
(* sucomp.c.  canon() replaces the bit fields, then sorts the operands     *)
(* (commute) and simplifies (optim) until nothing more changes.            *)
(*                                                                         *)
(* A tree of the program is a tree of the model; what the code changes in  *)
(* place is a new tree here.  Addresses (ADDR, pointers and what is behind *)
(* indexreg(), which is never true on the Z8000), chars, floats, ++, --    *)
(* and nested assignments are left out.                                    *)
EXTENDS Trees

CONSTANTS Trees0,       \* the trees given to canon()
          HICREG,       \* the highest register of the compiler
          Endless       \* more steps than optim takes on any tree

VARIABLES source,       \* the tree given
          tp,           \* the tree as it is now
          pc            \* "commute", "optim" or "done"

vars == <<source, tp, pc>>

---------------------------------------------------------------------------
(* Sethi-Ullman numbers; the constants' numbers are all below SU_REG       *)

SU_CONST == 4
SU_REG == 6
SU_ADDR == 7
SU_XREG == 8
SU_EASY == 9
SU_HARD == 10
SU_VHARD == 11

MAX(a, b) == IF a > b THEN a ELSE b

\* t with sons that have their numbers
Numbered(t, l, r, nregs) ==
    LET both == IF l.su <= SU_ADDR THEN MAX(l.su, r.su)
                ELSE IF r.su > SU_ADDR /\ nregs > HICREG THEN MAX(l.su, SU_HARD)
                ELSE l.su
        su == IF t.op \in {"LDIV", "LMOD", "LMULT", "NACALL"} THEN SU_VHARD
              ELSE IF Binary(t) THEN MAX(SU_EASY, both)
              ELSE IF l.su <= SU_XREG THEN MAX(SU_EASY, l.su)
              ELSE l.su
    IN  IF Binary(t) THEN [t EXCEPT !.l = l, !.r = r, !.su = su]
        ELSE [t EXCEPT !.l = l, !.su = su]

\* sucomp() with flag 1: the tree with t_su set
RECURSIVE sucomp(_, _)
sucomp(t, nregs) ==
    CASE t.op \in {"CINT", "CLONG"} -> [t EXCEPT !.su = SU_CONST]
      [] t.op = "DCLONG" -> [t EXCEPT !.su = SU_ADDR]
      [] t.op = "SYMBOL" -> [t EXCEPT !.su = IF IsReg(t) THEN SU_REG ELSE SU_ADDR]
      [] t.op \in Unary -> The({Numbered(t, l, l, nregs) : l \in {sucomp(t.l, nregs)}})
      [] OTHER ->
            The({Numbered(t, s[1], s[2], nregs) : s \in
                {<<l, sucomp(t.r, IF l.su > SU_ADDR THEN nregs + 1 ELSE nregs)>> :
                    l \in {sucomp(t.l, nregs)}}})

---------------------------------------------------------------------------
(* Constants                                                               *)

\* constant(): a conversion of a constant becomes the constant
constant(t) ==
    IF t.op = "INT2L" /\ IsConst(t.l) THEN Clong(t.l.n)
    ELSE IF t.op = "LONG2I" /\ IsConst(t.l) THEN Cint(Num("INT", t.l.n))
    ELSE t

\* mutant: registers are compared as anything else
NoRegister(t, u) ==
    IF IsConst(constant(u)) THEN TRUE
    ELSE IF IsConst(constant(t)) THEN FALSE
    ELSE t.su > u.su

\* harder(): t is to stand left of u
harder(t, u) ==
    IF u.su = SU_VHARD THEN FALSE
    ELSE IF t.su = SU_VHARD THEN TRUE
    ELSE IF IsReg(u) THEN FALSE
    ELSE IF IsReg(t) THEN TRUE
    ELSE IF IsConst(constant(u)) THEN TRUE
    ELSE IF IsConst(constant(t)) THEN FALSE
    ELSE t.su > u.su

Foldable == {"ADD", "SUB", "MULT", "DIV", "MOD", "RSH", "LSH", "XOR", "GREAT", "GREATEQ",
             "LESS", "LESSEQ", "UMINUS", "COMPL", "NOT", "OR", "AND"}

\* ccexpr(): the constant t is computed to, or t; a division by zero never
\* comes here.  A ?: with a constant condition is the chosen constant.
ccexpr(t) ==
    LET l == constant(t.l)
        r == constant(t.r)
        long == IF Binary(t) THEN "CLONG" \in {l.op, r.op} ELSE l.op = "CLONG"
        v == IF Binary(t) THEN Apply(t.op, l.n, r.n, 2 * IntBits)
             ELSE CASE t.op = "UMINUS" -> -l.n
                    [] t.op = "COMPL" -> -l.n - 1
                    [] t.op = "NOT" -> IF l.n = 0 THEN 1 ELSE 0
    IN  IF ~IsConst(l) THEN t
        ELSE IF t.op = "QMARK" THEN
            IF t.r.l.op # "CINT" \/ t.r.r.op # "CINT" THEN t
            ELSE IF l.n # 0 THEN t.r.l ELSE t.r.r
        ELSE IF t.op \notin Foldable \/ (Binary(t) /\ ~IsConst(r)) THEN t
        ELSE IF long THEN Clong(Num("LONG", v))
        ELSE Cint(Num("INT", v))

\* mutant: that no other bit is set is not tested at the end
TopBit(v) ==
    LET bits == {i \in 0..2 * IntBits - 1 : Pattern(v) >= Bit(i)}
    IN  IF bits = {} THEN 2 * IntBits - 1 ELSE Cardinality(bits) - 1

\* onebit(): the number of the only bit set in a long, or -1
onebit(v) ==
    LET bits == {i \in 0..2 * IntBits - 1 : Pattern(v) = Bit(i)}
    IN  IF bits = {} THEN -1 ELSE CHOOSE i \in bits : TRUE

---------------------------------------------------------------------------
(* commute()                                                               *)

invrel(op) == CASE op = "EQUALS" -> "NEQUALS" [] op = "NEQUALS" -> "EQUALS"
                [] op = "GREAT" -> "LESSEQ" [] op = "GREATEQ" -> "LESS"
                [] op = "LESS" -> "GREATEQ" [] op = "LESSEQ" -> "GREAT"

\* mutant: x > y becomes y <= x, as the comment on swaprel has it
SwapInverts(op) == CASE op = "GREAT" -> "LESSEQ" [] op = "GREATEQ" -> "LESS"
                     [] op = "LESS" -> "GREATEQ" [] op = "LESSEQ" -> "GREAT"
                     [] OTHER -> op

swaprel(op) == CASE op = "GREAT" -> "LESS" [] op = "GREATEQ" -> "LESSEQ"
                 [] op = "LESS" -> "GREAT" [] op = "LESSEQ" -> "GREATEQ"
                 [] OTHER -> op

RECURSIVE commute(_)

\* addtree(): the operands of a tree of one commutable operator (clist), commuted ...
RECURSIVE Operands(_, _)
Operands(op, t) ==
    IF t.op = op THEN Operands(op, t.l) \o Operands(op, t.r) ELSE <<commute(t)>>

\* ... and its operators, each after those below it (plist)
RECURSIVE Operators(_, _)
Operators(op, t) ==
    IF t.op = op
    THEN Operators(op, t.l) \o Operators(op, t.r) \o <<[type |-> t.type, su |-> t.su]>>
    ELSE <<>>

\* mutant: the operand that is moved on is not kept
RECURSIVE Overwritten(_, _, _)
Overwritten(c, p, q) ==
    IF p > Len(c) THEN c
    ELSE IF q > Len(c) THEN Overwritten(c, p + 1, p + 1)
    ELSE IF harder(c[q], c[p]) THEN Overwritten([c EXCEPT ![p] = c[q]], p, q + 1)
    ELSE Overwritten(c, p, q + 1)

\* the exchange sort of commute(), at places p and q
RECURSIVE Sorted(_, _, _)
Sorted(c, p, q) ==
    IF p > Len(c) THEN c
    ELSE IF q > Len(c) THEN Sorted(c, p + 1, p + 1)
    ELSE IF harder(c[q], c[p])
         THEN Sorted([c EXCEPT ![p] = c[q], ![q] = c[p]], p, q + 1)
    ELSE Sorted(c, p, q + 1)

\* constants at the end become one; the first two operands stay apart
RECURSIVE Collected(_, _)
Collected(op, c) ==
    LET n == Len(c)
    IN  IF n > 2 /\ IsConst(constant(c[n - 1])) /\ IsConst(constant(c[n]))
        THEN Collected(op, SubSeq(c, 1, n - 2)
                               \o <<ccexpr(N2(op, "INT", c[n - 1], c[n]))>>)
        ELSE c

\* the operands hung below the operators again, the first lowest
RECURSIVE Rebuilt(_, _, _, _, _)
Rebuilt(op, c, p, t, i) ==
    IF i = Len(c) THEN t
    ELSE LET r == c[i + 1]
             type == IF "LONG" \in {p[i].type, t.type, r.type} THEN "LONG" ELSE p[i].type
             s == [N2(op, type, t, r) EXCEPT !.su = p[i].su]
         IN  Rebuilt(op, c, p, s, i + 1)

commute(t) ==
    IF t.op \in Leaf THEN t
    ELSE IF t.op \in Commutative THEN
        The({Rebuilt(t.op, s, Operators(t.op, t), s[1], 1) :
            s \in {Collected(t.op, c) : c \in
                {Sorted(d, 1, 1) : d \in {Operands(t.op, t)}}}})
    ELSE IF ~Binary(t) THEN [t EXCEPT !.l = commute(@)]
    ELSE IF t.op \in Relational /\ harder(t.r, t.l)
         THEN [t EXCEPT !.op = swaprel(@), !.l = commute(t.r), !.r = commute(t.l)]
    ELSE [t EXCEPT !.l = commute(@), !.r = commute(@)]

---------------------------------------------------------------------------
(* Bit fields                                                              *)

\* fixbfield(); tcopy() of a word without ++ and -- is the word again
RECURSIVE fixbfield(_)
fixbfield(t) ==
    IF t.op \in Leaf THEN t
    ELSE IF t.op \in Assigning /\ t.l.op = "BFIELD" THEN
        LET r == fixbfield(t.r)
            word == t.l.l
            fmask == Num("INT", Bit(t.l.len) - 1)
            inplace == Num("INT", fmask * Bit(t.l.off))
            outside == Num("INT", -1 - inplace)
            field == fixbfield(t.l)
            new == IF t.op = "ASSIGN" THEN r ELSE N2(Plain(t.op), "INT", field, r)
            masked == N2("LSH", "INT", N2("AND", "INT", new, Cint(fmask)), Cint(t.l.off))
            kept == N2("AND", "INT", word, Cint(outside))
        IN  IF r.op = "CINT" /\ t.op = "EQXOR"
            THEN [t EXCEPT !.l = word, !.r = Cint(Num("INT", r.n * Bit(t.l.off)))]
            ELSE IF r.op = "CINT" /\ t.op = "ASSIGN" /\ r.n = 0
            THEN [t EXCEPT !.op = "EQAND", !.l = word, !.r = Cint(outside)]
            ELSE IF r.op = "CINT" /\ t.op = "ASSIGN" /\ (r.n - fmask) % Bit(t.l.len) = 0
            THEN [t EXCEPT !.op = "EQOR", !.l = word, !.r = Cint(inplace)]
            ELSE IF fmask = -1 THEN [t EXCEPT !.l = word, !.r = r]
            ELSE N2("ASSIGN", "INT", word, N2("OR", "INT", kept, masked))
    ELSE IF t.op = "BFIELD"
         THEN N2("AND", "INT", N2("RSH", "INT", t.l, Cint(t.off)),
                 Cint(Num("INT", Bit(t.len) - 1)))
    ELSE IF Binary(t) THEN [t EXCEPT !.l = fixbfield(@), !.r = fixbfield(@)]
    ELSE [t EXCEPT !.l = fixbfield(@)]

---------------------------------------------------------------------------
(* optim().  A simplification says what the node becomes and whether the   *)
(* node is looked at again (the continue of optim's loop).                 *)

Again(t) == [t |-> t, again |-> TRUE]
Stay(t) == [t |-> t, again |-> FALSE]

\* power2(): a multiplication or division by a power of two, or t
power2(t) ==
    LET i == onebit(t.r.n)
        less == [Cint(t.r.n - 1) EXCEPT !.type = t.r.type]
        bits == [Cint(i) EXCEPT !.type = t.r.type]
    IN  IF ~IsConst(t.r) \/ i < 0 THEN t
        ELSE IF t.op = "MULT" THEN [t EXCEPT !.op = "LSH", !.r = bits]
        ELSE IF t.op = "EQMULT" THEN [t EXCEPT !.op = "EQLSH", !.r = bits]
        ELSE IF t.l.type # "UNSIGNED" THEN t
        ELSE CASE t.op = "DIV" -> [t EXCEPT !.op = "RSH", !.r = bits]
               [] t.op = "EQDIV" -> [t EXCEPT !.op = "EQRSH", !.r = bits]
               [] t.op = "MOD" -> [t EXCEPT !.op = "AND", !.r = less]
               [] t.op = "EQMOD" -> [t EXCEPT !.op = "EQAND", !.r = less]

\* multop(): and the multiplications and divisions of longs
multop(t) ==
    LET s == power2(t)
        change == s # t
        long == "LONG" \in {s.l.type, s.r.type}
        hard == CASE s.op \in {"MULT", "EQMULT"} -> "LMULT"
                  [] s.op \in {"DIV", "EQDIV"} -> "LDIV"
                  [] s.op \in {"MOD", "EQMOD"} -> "LMOD"
        r == IF s.r.op = "CLONG" THEN [s.r EXCEPT !.op = "DCLONG"] ELSE s.r
    IN  IF long /\ s.op = "MULT" THEN [t |-> [s EXCEPT !.op = hard], again |-> change]
        ELSE IF long /\ s.op \in {"DIV", "MOD"} /\ s.l.type = "LONG" /\ s.r.type # "INT"
        THEN [t |-> [s EXCEPT !.op = hard, !.r = r], again |-> change]
        ELSE IF (long /\ s.op = "EQMULT") \/ (s.op \in {"EQDIV", "EQMOD"} /\ s.r.type = "LONG")
        THEN Again(N2("ASSIGN", s.type, s.l,
                      N2(hard, s.type, s.l, IF s.op = "EQMULT" THEN s.r ELSE r)))
        ELSE [t |-> s, again |-> change]

\* CONSTZERO(lconst, p) of a dividend: lconst is that of the divisor
ZeroDividend(t) ==
    LET p == constant(t.l)
    IN  IsConst(p) /\ (IF t.r.op = "CLONG" THEN p.n ELSE Num("INT", p.n)) = 0

\* the operator of an assignment of the quotient of longs to an int
Divides(t) == t.op = "LONG2I" /\ t.l.op \in {"LDIV", "LMOD"}

\* the cases of optim for a constant right operand c (the left one is l)
WithConstant(t, c, l) ==
    LET set(v) == [t.r EXCEPT !.n = v]
        unary(op, asg) == N1(IF t.op \in Assigning THEN asg ELSE op, t.type, l)
        sameBit == /\ l.op = "AND" /\ IsConst(constant(l.r))
                   /\ onebit(c) >= 0 /\ onebit(c) = onebit(constant(l.r).n)
    IN  CASE t.op \in {"ADD", "OR", "XOR", "EQXOR", "LSH", "EQLSH", "RSH", "EQRSH", "SUB"}
             /\ c = 0 -> Again(l)
          [] t.op = "SUB" /\ c # 0 ->
                Again([t EXCEPT !.op = "ADD", !.r = set(Num(t.r.type, -c))])
          [] t.op \in {"DIV", "EQDIV", "MOD", "EQMOD"} /\ c = 0 -> Again(t.r)
          [] t.op \in {"DIV", "EQDIV", "MULT", "EQMULT"} /\ c = 1 -> Again(l)
          [] t.op \in {"DIV", "EQDIV", "MULT", "EQMULT"} /\ c = -1 ->
                Again(unary("UMINUS", "EQNEG"))
          [] t.op = "MOD" /\ c = 1 -> Again(set(0))
          [] t.op = "EQMOD" /\ c = 1 -> Again([t EXCEPT !.op = "ASSIGN", !.r = set(0)])
          [] t.op \in {"EQUALS", "NEQUALS"} /\ sameBit ->
                Again([t EXCEPT !.op = invrel(@), !.r = [set(0) EXCEPT !.op = "CINT"]])
          [] t.op = "GREATEQ" /\ c = 0 /\ l.type = "UNSIGNED" -> Again(set(1))
          [] t.op = "LESS" /\ c = 0 /\ l.type = "UNSIGNED" -> Again(t.r)
          [] t.op = "AND" /\ c = -1 -> Again(l)
          [] t.op = "OR" /\ c = -1 -> Again(t.r)
          [] t.op \in {"XOR", "EQXOR"} /\ c = -1 -> Again(unary("COMPL", "EQNOT"))
          [] OTHER -> Stay(t)

\* the cases of optim for a binary operator otherwise
WithBinary(t) ==
    CASE t.op = "SUB" /\ IsConst(constant(t.l)) /\ constant(t.l).n = 0 ->
            Again(N1("UMINUS", t.type, t.r))
      [] t.op \in {"DIV", "EQDIV", "MOD", "EQMOD"} ->
            IF ZeroDividend(t) THEN Again(t.l) ELSE multop(t)
      [] t.op \in {"MULT", "EQMULT"} -> multop(t)
      [] t.op \in {"LSH", "EQLSH"} /\ t.type = "LONG" /\ t.r.op = "INT2L" ->
            IF t.r.l.type = "UNSIGNED" THEN Again([t EXCEPT !.r = t.r.l]) ELSE Stay(t)
      [] t.op = "ASSIGN" /\ Divides(t.r) /\ t.r.l.r.op # "DCLONG" ->
            LET d == t.r.l
                by == IF d.r.op = "INT2L" THEN d.r.l ELSE d.r
                op == IF d.op = "LDIV" THEN "DIV" ELSE "MOD"
            IN  Again([t EXCEPT !.r = [d EXCEPT !.op = op, !.r = by]])
      [] OTHER -> Stay(t)

\* the cases of optim for a unary operator
WithUnary(t) ==
    LET l == t.l
        into(conv, type) == N1(conv, t.type, N1(t.op, type, l.l))
    IN  CASE t.op = "NOT" /\ l.op \in Relational -> Again([l EXCEPT !.op = invrel(@)])
          [] t.op \in {"UMINUS", "COMPL"} /\ l.op = t.op -> Again(l.l)
          [] t.op \in {"UMINUS", "COMPL"} /\ l.op = "INT2L" -> Again(into("INT2L", "INT"))
          [] t.op \in {"UMINUS", "COMPL"} /\ l.op = "LONG2I" -> Again(into("LONG2I", "LONG"))
          [] t.op = "INT2L" /\ l.op = "MULT" -> Again([l EXCEPT !.type = "LONG"])
          [] OTHER -> Stay(t)

Simplified(t) ==
    IF ~Binary(t) THEN WithUnary([t EXCEPT !.l = constant(@)])
    ELSE \* r, then t with it
         LET s == [t EXCEPT !.r = constant(@)]
             a == IF IsConst(s.r) THEN WithConstant(s, s.r.n, s.l) ELSE Stay(s)
         IN  IF a.again THEN a ELSE WithBinary(s)

\* the loop of optim at one node, after n changes
RECURSIVE Settled(_, _)
Settled(t, n) ==
    IF t.op \in Leaf \/ n > Endless THEN [t |-> t, changes |-> n]
    ELSE The({IF a.again THEN Settled(a.t, n + 1)
              ELSE The({IF f # a.t THEN Settled(f, n + 1) ELSE [t |-> f, changes |-> n] :
                        f \in {ccexpr(a.t)}}) : a \in {Simplified(t)}})

RECURSIVE optim(_)
optim(t) ==
    IF t.op \in Leaf THEN [t |-> t, changes |-> 0]
    ELSE LET changed(o, n) == [o EXCEPT !.changes = @ + n]
         IN  IF t.op \in Unary
             THEN The({changed(Settled([t EXCEPT !.l = l.t], 0), l.changes) :
                       l \in {optim(t.l)}})
             ELSE The({changed(Settled([t EXCEPT !.l = l.t, !.r = r.t], 0),
                               l.changes + r.changes) :
                       l \in {optim(t.l)}, r \in {optim(t.r)}})

---------------------------------------------------------------------------
(* canon()                                                                 *)

Init == /\ source \in Trees0
        /\ tp = fixbfield(source)
        /\ pc = "commute"

Commute ==
    /\ pc = "commute"
    /\ \E t \in {sucomp(tp, 0)} : tp' = commute(t)
    /\ pc' = "optim"
    /\ UNCHANGED source

Optimize ==
    /\ pc = "optim"
    /\ \E o \in {optim(tp)} :
           /\ tp' = o.t
           /\ pc' = IF o.changes > 0 THEN "commute" ELSE "done"
    /\ UNCHANGED source

Next == Commute \/ Optimize

\* canon() runs by itself
Spec == Init /\ [][Next]_vars /\ WF_vars(Next)

---------------------------------------------------------------------------
(* Properties                                                              *)

CONSTANTS Environments  \* the values of the variables, for comparing

(* Trees that canon.c is known to turn into something else; the README     *)
(* shows the code they get.                                                *)

\* operators by which a constant drops a call: f() | -1, f() % 1, 0 / f(), f() >= 0
DropsCalls(n) ==
    /\ Binary(n) /\ Calls(n) > 0
    /\ \/ n.op = "OR" /\ \E s \in {n.l, n.r} : IsConst(s) /\ s.n = -1
       \/ n.op \in {"DIV", "MOD"} /\ (IsConst(n.l) \/ (IsConst(n.r) /\ n.r.n \in {0, 1}))
       \/ n.op \in Relational /\ "UNSIGNED" \in {n.l.type, n.r.type}

\* assignments that tcopy makes call twice: *f() *= 2L, f()->field = 1
CallsTwice(n) ==
    /\ n.op \in Assigning /\ Calls(n.l) > 0
    /\ n.l.op = "BFIELD" \/ (n.type = "LONG" /\ n.op \in {"EQMULT", "EQDIV", "EQMOD"})

\* numbers that come to something else: u / -1 is -u, u | -1 is the signed -1, the
\* product of unsigned ints is not cut to an int before it becomes a long, a
\* conversion to long is moved over - and ~, a field is exclusive-ored beyond its bits
\* and read with a sign when it is the whole word
OtherNumber(n) ==
    \/ n.op = "OR" /\ \E s \in {n.l, n.r} : IsConst(s) /\ s.n = -1
    \/ n.op \in {"DIV", "EQDIV"} /\ n.type = "UNSIGNED" /\ IsConst(n.r) /\ n.r.n = -1
    \/ n.op = "INT2L" /\ n.l.op = "MULT" /\ n.l.type = "UNSIGNED"
    \/ n.op \in {"UMINUS", "COMPL"} /\ n.l.op = "INT2L"
    \/ n.op \in {"MULT", "DIV", "XOR"} /\ n.l.op = "INT2L" /\ IsConst(n.r) /\ n.r.n = -1
    \/ n.op = "SUB" /\ n.r.op = "INT2L" /\ IsConst(n.l) /\ n.l.n = 0
    \/ n.op = "EQXOR" /\ n.l.op = "BFIELD" /\ IsConst(n.r)
        /\ n.r.n \notin 0..Bit(n.l.len) - 1
    \/ n.op = "BFIELD" /\ n.len = IntBits

\* The canonical tree comes to what the tree given comes to: the same value, or
\* the same values assigned, wherever C gives the tree given a meaning.  The
\* steps of canon.c keep it one by one, sorting, folding and moving conversions.
ValueKept ==
    (\A n \in Nodes(source) : ~OtherNumber(n)) =>
        \A e \in Environments :
            LET want == Outcome(source, e, TRUE)
            IN  want["value"] # NoValue =>
                    SameOutcome(source, want, Outcome(tp, e, FALSE))

\* Nothing that is called is called less or more often: the comments at MULT and
\* AND keep 0 * f() and 0 & f() for the "side effects of object".
EffectsKept ==
    (\A n \in Nodes(source) : ~DropsCalls(n) /\ ~CallsTwice(n)) =>
        Calls(tp) = Calls(source)

\* The same of every tree: what the comments are about happens in other cases.
EveryCallKept == Calls(tp) = Calls(source)

\* What optim and the code skeletons take for granted of commute: of the operands
\* of a commutable or relational operator a constant is right, unless both are, a
\* call is left, and an expression is not left of a register.
OrderedForSkeletons ==
    pc = "optim" =>
        \A t \in Nodes(tp) :
            t.op \in Commutative \cup Relational =>
                /\ IsConst(constant(t.l)) => IsConst(constant(t.r))
                /\ t.r.su = SU_VHARD => t.l.su = SU_VHARD
                /\ IsReg(t.r) => IsReg(t.l) \/ t.l.su = SU_VHARD \/ t.l.op = t.op

\* canon comes to an end: no simplification undoes another, and none goes on
\* forever at one node.
ComesToAnEnd == <>(pc = "done")
=============================================================================
