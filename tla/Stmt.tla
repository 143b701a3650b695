------------------------------- MODULE Stmt -------------------------------
(* The statements of the C parser: stmt.c, the switch of icode.c and the   *)
(* symbols of symt.c, with the code they write beside the program that the *)
(* code was written for.                                                   *)
(*                                                                         *)
(* The parser is a recursive descent whose state is in the fields of g:    *)
(* the code written so far, the labels (next, b, c, d and r are nextlabel, *)
(* blabel, clabel, dlabel and rlabel), the switch table with swp and cswp, *)
(* the symbol table (newest first), scope_level and scope_decls, the area  *)
(* of expression trees with exprp and opap, localsize and the errors.      *)
(* declared is no variable of the parser: it notes which declaration got   *)
(* which storage, for comparing.                                           *)
EXTENDS Statements, TLC

CONSTANTS Programs,     \* the programs compiled
          SWSIZE,       \* length of swtab
          MaxShort,     \* largest value of a short
          Values        \* values switched on

FUNC_SCOPE == 1
GLOB_SCOPE == 0

Short(n) == ((n + MaxShort + 1) % (2 * (MaxShort + 1))) - MaxShort - 1

---------------------------------------------------------------------------
(* Output and labels                                                       *)

Out(g, op) == [g EXCEPT !.code = Append(@, op)]
Fault(g, what) == [g EXCEPT !.errs = @ \cup {what}]
OUTLAB(g, lab) == Out(g, [op |-> "lab", lab |-> lab])
OUTGOTO(g, lab) == IF lab > 0 THEN Out(g, [op |-> "bra", lab |-> lab]) ELSE g
LABGEN(g, l) == [g EXCEPT ![l] = g.next, !.next = @ + 1]

---------------------------------------------------------------------------
(* Symbols.  An entry has name, scope, storage class sc ("" for none),     *)
(* off (s_offset), whether it is a label, defined or global.               *)

\* symt.c lookup() outside of structures; at is the entry's place in syms
Lookup(g, name, force) ==
    LET same == {i \in DOMAIN g.syms : g.syms[i].name = name}
        here == {i \in same : g.syms[i].scope = g.scope}
        held == {i \in same : \A j \in same :
                    \/ g.syms[j].scope < g.syms[i].scope
                    \/ g.syms[j].scope = g.syms[i].scope /\ j <= i}
        new == [name |-> name, scope |-> g.scope, sc |-> "", off |-> 0,
                label |-> FALSE, defined |-> FALSE, global |-> FALSE]
    IN  IF here # {} THEN [g |-> g, at |-> Min(here)]
        ELSE IF ~force /\ held # {} THEN [g |-> g, at |-> Max(held)]
        ELSE [g |-> [g EXCEPT !.syms = <<new>> \o @], at |-> 1]

\* mutant: the symbols of the level itself stay
FreeAbove(g, level) ==
    LET keep(e) == e.global \/ e.scope <= level
    IN  [g EXCEPT !.syms = SelectSeq(@, keep)]

\* symt.c freesyms()
freesyms(g, level) ==
    LET lost == {i \in DOMAIN g.syms : level = FUNC_SCOPE /\ ~g.syms[i].defined}
        keep(e) == e.global \/ e.scope < level
    IN  [g EXCEPT !.syms = SelectSeq(@, keep),
                  !.errs = IF lost = {} THEN @ ELSE @ \cup {"undefined label"}]

\* decl.c dodecl(): the name looked up is declared in the block at path
Storage(l, path, sc) ==
    LET size == l.g.localsize + 2
        off == IF sc = "auto" THEN -size ELSE l.g.next
    IN  IF l.g.syms[l.at].sc # "" THEN Fault(l.g, "redeclaration")
        ELSE [l.g EXCEPT !.syms[l.at].sc = sc, !.syms[l.at].off = off, !.syms[l.at].defined = TRUE,
                         !.localsize = IF sc = "auto" THEN size ELSE @,
                         !.next = IF sc = "static" THEN @ + 1 ELSE @,
                         !.declared = ((<<sc, off>>) :> <<path, l.g.syms[l.at].name>>) @@ @]

Declare(g, path, name, sc) == Storage(Lookup(g, name, TRUE), path, sc)

\* the first half of gotolabel() and dolabel(): the entry becomes a label
MakeLabel(l) ==
    LET new == l.g.syms[l.at].off = 0
        g == [l.g EXCEPT !.syms[l.at].label = TRUE, !.syms[l.at].scope = FUNC_SCOPE,
                         !.syms[l.at].off = IF new THEN l.g.next ELSE @,
                         !.next = IF new THEN @ + 1 ELSE @]
    IN  [g |-> g, at |-> l.at]

\* stmt.c gotolabel(): the entry for the name that was looked up, and the
\* label number in it, 0 after an error
GotoEntry(l, name) ==
    LET e == l.g.syms[l.at]
    IN  IF e.sc = "" THEN MakeLabel(l)
        ELSE IF e.scope # FUNC_SCOPE THEN MakeLabel(Lookup(l.g, name, TRUE))
        ELSE l

LabelNumber(l) ==
    LET e == l.g.syms[l.at]
    IN  IF e.sc \in {"", "static"} /\ e.label THEN [g |-> l.g, lab |-> e.off]
        ELSE [g |-> Fault(l.g, "invalid label"), lab |-> 0]

gotolabel(g, name) == LabelNumber(GotoEntry(Lookup(g, name, FALSE), name))

\* stmt.c dolabel()
PutLabel(l) ==
    OUTLAB([l.g EXCEPT !.syms[l.at].sc = "static", !.syms[l.at].defined = TRUE], l.g.syms[l.at].off)

LabelEntry(l, name) ==
    LET e == l.g.syms[l.at]
    IN  IF e.sc = "" THEN PutLabel(MakeLabel(l))
        ELSE IF e.scope = FUNC_SCOPE THEN Fault(l.g, "label redeclaration")
        ELSE PutLabel(MakeLabel(Lookup(l.g, name, TRUE)))

dolabel(g, name) == LabelEntry(Lookup(g, name, FALSE), name)

---------------------------------------------------------------------------
(* Expressions: a tree is one cell of exprarea, which names the expression *)
(* at (place and part) and the variable in it.                             *)

PutTree(g, at, var) ==
    [g |-> [g EXCEPT !.area = (g.exprp :> [at |-> at, var |-> var]) @@ @, !.opap = g.exprp + 1],
     tree |-> g.exprp]

\* the variable that was looked up
VariableOf(l, at) ==
    LET e == l.g.syms[l.at]
        var == IF e.label THEN << <<0>>, "label" >>
               ELSE IF e.sc = "extern" THEN Global(e.name) ELSE l.g.declared[<<e.sc, e.off>>]
    IN  IF e.sc # "" THEN PutTree(l.g, at, var)
        ELSE PutTree(Fault([l.g EXCEPT !.syms[l.at].defined = TRUE], "undefined symbol"), at, Undeclared)

\* expr.c expr(): tree is where the result lies
expr(g, at, name) ==
    IF name = "-" THEN PutTree(g, at, NoVariable) ELSE VariableOf(Lookup(g, name, FALSE), at)

\* mutant: exprp is not moved over a tree that is kept
NotKept(t) == t

\* exprp is moved over the tree, to keep it while a statement is parsed
Kept(t) == [t EXCEPT !.g.exprp = t.g.opap]

\* the node that interf.c puts on top of a tree, at opap
Over(g, op) == [Out(g, op) EXCEPT !.area = (g.opap :> "node") @@ @, !.opap = @ + 1]

outexpr(g, tree) == Out(g, [op |-> "eval", e |-> g.area[tree]])
outforreg(g, tree) == Over(g, [op |-> "load", e |-> g.area[tree]])
outifgoto(g, tree, dir, lab) ==
    Over(g, [op |-> "ifgoto", e |-> g.area[tree], dir |-> dir, lab |-> lab])

outexpression(g, at, name) == LET t == expr(g, at, name) IN outexpr(t.g, t.tree)

---------------------------------------------------------------------------
(* Switches                                                                *)

\* stmt.c addswitch(): the table from cswp on after the new entry sank to
\* its place; a duplicate leaves it as far as the sort had come
addswitch(g, value) ==
    LET n == g.swp - g.cswp
        tab == [i \in 0..n |-> IF i < n THEN g.swtab[g.cswp + i] ELSE [value |-> Short(value), lab |-> g.next]]
        stop == {i \in 0..(n - 1) : tab[i].value = tab[n].value}
        above == {i \in 0..(n - 1) : tab[i].value > tab[n].value /\ \A j \in stop : i > j}
        place == n - Cardinality(above)
        sunk == [i \in 0..n |-> IF i < place THEN tab[i]
                                ELSE IF i = place THEN tab[n] ELSE tab[i - 1]]
    IN  [g |-> [g EXCEPT !.swtab = [i \in DOMAIN @ \cup {g.cswp + k : k \in 0..n} |->
                                      IF i >= g.cswp /\ i <= g.swp THEN sunk[i - g.cswp] ELSE @[i]]],
         ok |-> stop = {}]

\* stmt.c docase(), when the expression of the case is read
NewCase(g, a) ==
    IF a.ok THEN OUTLAB([a.g EXCEPT !.next = @ + 1, !.swp = @ + 1], g.next)
    ELSE Fault(a.g, "duplicate case value")

CaseRead(g, value) ==
    IF g.swp < 0 THEN Fault(g, "case not inside a switch block")
    ELSE IF g.swp >= SWSIZE - 1 THEN Fault(g, "too many cases in switch")
    ELSE NewCase(g, addswitch(g, value))

docase(g, path, value) ==
    CaseRead([expr([g EXCEPT !.exprp = g.opap], <<path, "case">>, "-").g EXCEPT !.exprp = g.exprp], value)

\* stmt.c dodefault()
dodefault(g) ==
    IF g.swp < 0 THEN Fault(g, "default not inside a switch block")
    ELSE OUTLAB(LABGEN(g, "d"), g.next)

\* icode.c outswitch(): compares, a table to jump through, or a table of
\* values to search, each with its labels.  The loop that writes the jump
\* table counts val, a short, up to hval.
outswitch(g, deflab) ==
    LET n == g.swp - g.cswp
        s == [i \in 1..n |-> g.swtab[g.cswp + i - 1]]
        vdif == Short(s[n].value - s[1].value)
        entry(val) == LET hit == {i \in 1..n : s[i].value = val}
                      IN  IF hit = {} THEN deflab ELSE s[CHOOSE i \in hit : TRUE].lab
        compare == [i \in 1..n |-> [op |-> "beq", value |-> s[i].value, lab |-> s[i].lab]]
        tables == [g EXCEPT !.next = @ + 1]
    IN  IF n <= 4 THEN OUTGOTO([g EXCEPT !.code = @ \o compare], deflab)
        ELSE IF vdif > 0 /\ vdif <= n * 3
        THEN IF s[n].value = MaxShort THEN Fault(tables, "endless")
             ELSE Out(tables, [op |-> "jump", low |-> s[1].value, max |-> vdif, lab |-> deflab,
                               table |-> [k \in 0..vdif |-> entry(s[1].value + k)]])
        ELSE Out([tables EXCEPT !.next = @ + 1],
                 [op |-> "search", values |-> [i \in 1..(n + 1) |-> IF i <= n THEN s[i].value ELSE 0],
                  labels |-> [i \in 1..(n + 1) |-> IF i <= n THEN s[i].lab ELSE deflab]])

---------------------------------------------------------------------------
(* The statements                                                          *)

brklabel(g) == IF g.b = 0 THEN Fault(g, "invalid break statement") ELSE g
contlabel(g) == IF g.c = 0 THEN Fault(g, "invalid continue statement") ELSE g

RECURSIVE stmt(_, _, _)

RECURSIVE stmts(_, _, _, _)
RECURSIVE dlist(_, _, _, _)

\* the first i declarations, the first i statements of the block s
dlist(g, s, path, i) ==
    IF i = 0 THEN g ELSE Declare(dlist(g, s, path, i - 1), path, s.decls[i], s.sc)

stmts(g, s, path, i) ==
    IF i = 0 THEN dlist(g, s, path, Len(s.decls))
    ELSE stmt(stmts(g, s, path, i - 1), s.sub[i], path \o <<i>>)

\* { ... } of stmt() with what lex.c does at the two braces
OpenBrace(g) == [g EXCEPT !.scope = @ + 1, !.scope_decls = (g.scope + 1 :> TRUE) @@ @]

CloseBrace(g) ==
    [(IF g.scope_decls[g.scope] /\ g.scope # FUNC_SCOPE THEN freesyms(g, g.scope) ELSE g)
        EXCEPT !.scope_decls[g.scope] = FALSE, !.scope = IF @ # GLOB_SCOPE THEN @ - 1 ELSE @]

block(g, s, path) == CloseBrace(stmts(OpenBrace(g), s, path, Len(s.sub)))

Empty == [k |-> "empty", sub |-> <<>>, x |-> "-"]

substmt(g, s, path) == stmt(g, s.sub[1], path \o <<1>>)

\* h, the end of a loop or switch, behind its label to break to; g its start
Leave(g, h) == [OUTLAB(h, h.b) EXCEPT !.b = g.b]
LeaveLoop(g, h) == [Leave(g, h) EXCEPT !.c = g.c]

\* dowhile(): lab is the label behind the test at the end
WhileEnd(g, t, lab, body) ==
    [LeaveLoop(g, outifgoto(OUTLAB(body, body.c), t.tree, TRUE, lab)) EXCEPT !.exprp = g.exprp]

WhileBody(g, s, path, t, lab) ==
    WhileEnd(g, t, lab, substmt(OUTLAB(OUTGOTO(t.g, t.g.c), lab), s, path))

dowhile(g, s, path) ==
    LET bc == LABGEN(LABGEN(g, "b"), "c")
    IN  WhileBody(g, s, path, Kept(expr(LABGEN(bc, "c"), <<path, "test">>, s.x)), bc.c)

\* mutant: no continue label in front of the condition
TestWithoutContinue(g, s, path, lab, body) ==
    LET t == expr(body, <<path, "test">>, s.x)
    IN  LeaveLoop(g, outifgoto(t.g, t.tree, TRUE, lab))

\* dodo(), when the body is parsed
DoTest(g, s, path, lab, body) ==
    LET t == expr(OUTLAB(body, body.c), <<path, "test">>, s.x)
    IN  LeaveLoop(g, outifgoto(t.g, t.tree, TRUE, lab))

dodo(g, s, path) ==
    LET bc == LABGEN(LABGEN(g, "b"), "c")
    IN  DoTest(g, s, path, bc.next, substmt(OUTLAB([bc EXCEPT !.next = @ + 1], bc.next), s, path))

\* dofor(), from the end: init is the state behind the first expression,
\* cond and step the trees that are kept; each sets a label where it begins
ForEnd(g, s, init, cond, step, body) ==
    LET cont == OUTLAB(body, body.c)
        next == IF "step" \in s.parts THEN outexpr(cont, step.tree) ELSE cont
        test == IF "test" \in s.parts THEN outifgoto(OUTLAB(next, init.next), cond.tree, TRUE, cond.g.next)
                ELSE OUTGOTO(next, cond.g.next)
    IN  [LeaveLoop(g, test) EXCEPT !.exprp = init.exprp]

ForBody(g, s, path, init, cond, step) ==
    ForEnd(g, s, init, cond, step, substmt(step.g, s, path))

ForStep(g, s, path, init, cond) ==
    LET top == OUTLAB([cond.g EXCEPT !.next = @ + 1], cond.g.next)
    IN  ForBody(g, s, path, init, cond,
                IF "step" \in s.parts THEN Kept(expr(top, <<path, "step">>, s.x))
                ELSE [g |-> top, tree |-> 0])

ForCond(g, s, path, init) ==
    ForStep(g, s, path, init,
            IF "test" \in s.parts
            THEN Kept(expr(OUTGOTO([init EXCEPT !.next = @ + 1], init.next), <<path, "test">>, s.x))
            ELSE [g |-> init, tree |-> 0])

dofor(g, s, path) ==
    LET bc == LABGEN(LABGEN(g, "b"), "c")
    IN  ForCond(g, s, path, IF "init" \in s.parts THEN outexpression(bc, <<path, "init">>, s.x) ELSE bc)

\* the label that "if (...) goto", break, continue or return; goes to;
\* 0 when the statement behind the condition is none of these or in error
exitlabel(g, s) ==
    CASE s.k = "goto" -> gotolabel(g, s.x)
      [] s.k = "break" -> [g |-> brklabel(g), lab |-> g.b]
      [] s.k = "continue" -> [g |-> contlabel(g), lab |-> g.c]
      [] s.k = "return" /\ "value" \notin s.parts -> [g |-> g, lab |-> g.r]
      [] OTHER -> [g |-> g, lab |-> 0]

\* doif(), from the end: exit and elselab are labels
IfElse(s, path, elselab, exit, body) ==
    OUTLAB(stmt(OUTLAB(OUTGOTO([body EXCEPT !.next = @ + 1], exit), elselab), s.sub[2], path \o <<2>>), exit)

IfBody(s, path, elselab, body) ==
    IF s.k = "ifelse" THEN IfElse(s, path, elselab, body.next, body) ELSE OUTLAB(body, elselab)

IfExit(s, path, tree, e) ==
    LET easy == outifgoto(e.g, tree, TRUE, e.lab)
        hard == outifgoto([e.g EXCEPT !.next = @ + 1], tree, FALSE, e.g.next)
        body == IF s.sub[1].k \in {"goto", "break", "continue"} THEN Empty ELSE s.sub[1]
    IN  IF e.lab = 0 THEN IfBody(s, path, e.g.next, stmt(hard, body, path \o <<1>>))
        ELSE IF s.k = "ifelse" THEN stmt(easy, s.sub[2], path \o <<2>>) ELSE easy

doif(g, s, path) ==
    LET t == expr(g, <<path, "test">>, s.x)
    IN  IfExit(s, path, t.tree, exitlabel(t.g, s.sub[1]))

\* doswitch(), from the end: swlab is the label of the table
SwitchTable(g, here) ==
    [Leave(g, outswitch(here, IF here.d = 0 THEN here.b ELSE here.d))
        EXCEPT !.cswp = g.cswp, !.swp = g.swp, !.d = g.d]

SwitchEnd(g, swlab, body) == SwitchTable(g, OUTLAB(OUTGOTO(body, body.b), swlab))

SwitchBody(g, s, path, in) ==
    LET first == IF g.swp < 0 THEN g.swp + 1 ELSE g.swp
        top == [OUTGOTO([in EXCEPT !.next = @ + 1], in.next)
                  EXCEPT !.swp = first, !.cswp = first, !.d = 0]
    IN  SwitchEnd(g, in.next, substmt(top, s, path))

doswitch(g, s, path) ==
    LET t == expr(LABGEN(g, "b"), <<path, "test">>, s.x)
    IN  SwitchBody(g, s, path, outforreg(t.g, t.tree))

doreturn(g, s, path) ==
    LET t == expr(g, <<path, "value">>, s.x)
    IN  OUTGOTO(IF "value" \in s.parts THEN outforreg(t.g, t.tree) ELSE g, g.r)

stmt(g, s, path) ==
    CASE s.k = "block" -> block(g, s, path)
      [] s.k = "empty" -> g
      [] s.k = "expr" -> outexpression(g, <<path, "expr">>, s.x)
      [] s.k = "asm" -> Out(g, [op |-> "eval", e |-> [at |-> <<path, "asm">>, var |-> NoVariable]])
      [] s.k = "break" -> OUTGOTO(brklabel(g), g.b)
      [] s.k = "continue" -> OUTGOTO(contlabel(g), g.c)
      [] s.k = "goto" -> LET l == gotolabel(g, s.x) IN OUTGOTO(l.g, l.lab)
      [] s.k = "label" -> substmt(dolabel(g, s.x), s, path)
      [] s.k = "case" -> substmt(docase(g, path, s.v), s, path)
      [] s.k = "default" -> substmt(dodefault(g), s, path)
      [] s.k = "while" -> dowhile(g, s, path)
      [] s.k = "do" -> dodo(g, s, path)
      [] s.k = "for" -> dofor(g, s, path)
      [] s.k \in {"if", "ifelse"} -> doif(g, s, path)
      [] s.k = "switch" -> doswitch(g, s, path)
      [] s.k = "return" -> doreturn(g, s, path)

\* decl.c funcbody(): s is the block of the function
NoCode == [code |-> <<>>, next |-> 1, b |-> 0, c |-> 0, d |-> 0, r |-> 0,
           swtab |-> <<>>, swp |-> -1, cswp |-> 0, scope |-> FUNC_SCOPE, scope_decls |-> FUNC_SCOPE :> TRUE,
           syms |-> SetToSeq({[name |-> n, scope |-> GLOB_SCOPE, sc |-> "extern", off |-> 0, label |-> FALSE,
                               defined |-> TRUE, global |-> TRUE] : n \in Globals}),
           exprp |-> 0, opap |-> 0, area |-> <<>>, localsize |-> 0, declared |-> <<>>, errs |-> {}]

FunctionEnd(g) ==
    freesyms(OUTLAB([g EXCEPT !.scope_decls[FUNC_SCOPE] = FALSE, !.scope = GLOB_SCOPE], g.r), FUNC_SCOPE)

funcbody(s) ==                      \* frp lies in the first cell of exprarea
    FunctionEnd(stmts([LABGEN(NoCode, "r") EXCEPT !.exprp = 1, !.opap = 1], s, <<>>, Len(s.sub)))

---------------------------------------------------------------------------
(* The machine that runs the code, as far as control goes.  reg is R0,     *)
(* loaded by a switch; n bounds the instructions without an expression.    *)

\* the place of a label; behind the code when there is none
Target(code, lab) ==
    LET here == {i \in DOMAIN code : code[i].op = "lab" /\ code[i].lab = lab}
    IN  IF here = {} THEN Len(code) + 1 ELSE Min(here)

RECURSIVE Settle(_, _, _, _)
Settle(code, i, reg, n) ==          \* the next expression from i on
    LET c == code[i]
        to(lab) == Settle(code, Target(code, lab), reg, n - 1)
        word == 2 * (MaxShort + 1)
    IN  IF i > Len(code) THEN 0
        ELSE IF n <= 0 THEN -1
        ELSE CASE c.op = "lab" -> Settle(code, i + 1, reg, n)
               [] c.op = "bra" -> to(c.lab)
               [] c.op = "beq" -> IF reg = c.value THEN to(c.lab) ELSE Settle(code, i + 1, reg, n)
               [] c.op = "jump" -> LET off == (reg - c.low) % word
                                   IN  IF off > c.max THEN to(c.lab) ELSE to(c.table[off])
               [] c.op = "search" -> LET hit == {k \in DOMAIN c.values : c.values[k] = reg}
                                     IN  to(c.labels[IF hit = {} THEN Len(c.values) ELSE Min(hit)])
               [] OTHER -> i

\* the place behind instruction i when its expression came out as v
Onward(code, i, v) ==
    LET c == code[i]
    IN  IF c.op = "ifgoto" /\ v = c.dir THEN Settle(code, Target(code, c.lab), 0, Fuel)
        ELSE Settle(code, i + 1, IF c.op = "load" THEN v ELSE 0, Fuel)

---------------------------------------------------------------------------
(* The program and its code run side by side.                              *)

VARIABLES prog,     \* the function body
          gen,      \* what the parser wrote for it, and its complaints
          at,       \* the position in the program
          pc        \* the instruction of the code, 0 at the end, -1 spinning

vars == <<prog, gen, at, pc>>

Ready == gen.errs = {} /\ Legal(prog)

Written(g) == [code |-> g.code, errs |-> g.errs]
Compiled(p) == Written(funcbody(p))

Init ==
    /\ prog \in Programs
    /\ gen = Compiled(prog)
    /\ at = IF Ready THEN Begin(prog) ELSE AtEnd
    /\ pc = IF Ready THEN Settle(gen.code, 1, 0, Fuel) ELSE 0

Evaluate ==
    /\ at \notin {AtEnd, Spinning}
    /\ pc > 0
    /\ \E v \in Outcomes(prog, at, Values) :
          /\ at' = After(prog, at, v)
          /\ pc' = Onward(gen.code, pc, v)
    /\ UNCHANGED <<prog, gen>>

Next == Evaluate

Spec == Init /\ [][Next]_vars

---------------------------------------------------------------------------

\* Programs the parser is known to get wrong (see the README): a label with
\* the name of a variable, two defaults in a switch, a jump table up to the
\* largest short, more cases pending than swtab holds.
LabelNamesVariable(p) ==
    \E q \in OfKind(p, {"goto", "label"}), r \in OfKind(p, {"block"}) :
        Node(p, q).x \in Globals \cup Range(Node(p, r).decls)
TwoDefaults(p) ==
    \E q \in OfKind(p, {"switch"}) : Cardinality(Entries(p, q, "default")) > 1
TableAtTheTop(p) ==
    \E q \in OfKind(p, {"switch"}) :
        LET vs == {Node(p, r).v : r \in Entries(p, q, "case")}
        IN  Cardinality(vs) > 4 /\ MaxShort \in vs /\ Max(vs) - Min(vs) <= 3 * Cardinality(vs)
PendingCases(p, q) ==               \* cases in swtab when the one at q comes
    {r \in OfKind(p, {"case"}) :
        /\ Before(r, q)
        /\ \E s \in Around(p, q, {"switch"}) : r \in Entries(p, s, "case")}
TooManyCases(p) ==
    \E q \in OfKind(p, {"case"}) : Cardinality(PendingCases(p, q)) >= SWSIZE - 1

\* The code does what the program says: whenever an expression is next, it
\* is the same one in both, about the same variable; the code ends when the
\* program does.
SameAction ==
    Ready /\ ~LabelNamesVariable(prog) =>
        CASE at = AtEnd -> pc = 0
          [] at = Spinning -> pc = -1
          [] OTHER -> /\ pc > 0
                      /\ gen.code[pc].e =
                            [at |-> at, var |-> IF at[2] = "asm" THEN NoVariable
                                                ELSE Variable(prog, at[1], Node(prog, at[1]).x)]

\* Every label that a branch, a table or a switch names is put out once.
LabelsLand ==
    gen.errs = {} /\ ~LabelNamesVariable(prog) =>
        LET labels(c) == CASE c.op \in {"bra", "beq", "ifgoto"} -> {c.lab}
                           [] c.op = "jump" -> {c.lab} \cup Range(c.table)
                           [] c.op = "search" -> Range(c.labels)
                           [] OTHER -> {}
        IN  \A l \in UNION {labels(gen.code[i]) : i \in DOMAIN gen.code} :
               Cardinality({i \in DOMAIN gen.code : gen.code[i].op = "lab" /\ gen.code[i].lab = l}) = 1

\* The parser complains about a program exactly when it means nothing.
ErrorsExact ==
    \/ LabelNamesVariable(prog) \/ TwoDefaults(prog) \/ TableAtTheTop(prog) \/ TooManyCases(prog)
    \/ gen.errs = {} <=> Legal(prog)
=============================================================================
