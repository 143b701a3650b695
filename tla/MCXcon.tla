------------------------------- MODULE MCXcon -------------------------------
(***************************************************************************)
(* Small programs for Asz8k and Xcon: every program of up to three         *)
(* statements of an alphabet, and longer ones that nest conditions, fill   *)
(* blocks, change sections and move between the passes.                    *)
(***************************************************************************)
EXTENDS Xcon

SomeNames == <<"a", "__text", "x", "__bss", "b">>

con(v) == [k |-> "con", v |-> v]
sym(s) == [k |-> "sym", s |-> s]
X(p) == [f |-> "pri", x |-> p, y |-> con(0)]
X2(f, p, q) == [f |-> f, x |-> p, y |-> q]

S(lab, op, args) == [op |-> op, lab |-> lab, args |-> args]
I(kind, x) == [op |-> "instr", lab |-> "-", args |-> <<x>>, kind |-> kind]
D(op, args) == S("-", op, args)
L(lab) == S(lab, "label", <<>>)

Alphabet ==
  {L("a"), D("byte", <<X(con(1))>>), D("word", <<X(sym("x")), X(sym("a"))>>),
   D("long", <<X(sym("a"))>>), D("global", <<"a", "x">>),
   S("b", "sect", <<>>), S("__bss", "sect", <<>>), S("__text", "sect", <<>>),
   D("block", <<X(con(3))>>), D("if", <<X2("eq", sym("a"), con(0))>>), D("endif", <<>>),
   S("x", "equ", <<X(sym("a"))>>), I("addr", X2("add", sym("x"), con(2))),
   D("else", <<>>), D("org", <<X(sym("a"))>>), S("b", "set", <<X([k |-> "here"])>>), I("rel8", X(sym("a")))}

Line(flags, src) == [src |-> src, segflg |-> flags[1], uext |-> flags[2], xs |-> flags[3]]
Plain == <<FALSE, TRUE, FALSE>>
AllFlags == BOOLEAN \X BOOLEAN \X BOOLEAN

Tests ==
  { \* conditions: an inner .else in skipped text, a doubled .else, an .else too many
   <<D("if", <<X(con(0))>>), D("if", <<X(con(0))>>), D("else", <<>>), D("byte", <<X(con(1))>>),
     D("endif", <<>>), D("else", <<>>), D("byte", <<X(con(2))>>), D("endif", <<>>)>>,
   <<D("if", <<X(con(1))>>), D("else", <<>>), D("if", <<X(con(1))>>), D("byte", <<X(con(1))>>),
     D("endif", <<>>), D("else", <<>>), D("endif", <<>>), D("else", <<>>), D("endif", <<>>)>>,
   \* a section and a label that only one of the passes sees
   <<D("if", <<X2("eq", sym("a"), con(0))>>), S("b", "sect", <<>>), D("endif", <<>>),
     S("__bss", "sect", <<>>), S("x", "label", <<>>), S("a", "equ", <<X(con(1))>>)>>,
   <<D("if", <<X(sym("b"))>>), D("word", <<X(con(1))>>), D("endif", <<>>),
     D("global", <<"a">>), L("a"), S("b", "equ", <<X(con(1))>>)>>,
   \* text of two sections at one address; a section taken up again
   <<S("a", "byte", <<X(con(1))>>), S("b", "sect", <<>>), S("x", "org", <<X2("add", [k |-> "here"], con(1))>>),
     D("byte", <<X(con(2))>>), S("__text", "sect", <<>>), D("word", <<X(sym("x")), X(sym("a"))>>)>>,
   \* long items at the end of a block, an odd place, text rewritten
   <<D("byte", <<X(con(1)), X(con(2)), X(con(3)), X(con(4))>>), L("a"),
     D("long", <<X(sym("a")), X(sym("x")), X(con(70000))>>), D("org", <<X(sym("a"))>>), D("byte", <<X(con(9))>>)>>,
   <<L("a"), D("byte", <<X(con(1))>>), I("addr", X(sym("b"))), I("saddr", X(sym("a"))), I("imm16", X(sym("x"))),
     I("imm32", X(sym("x"))), I("imm8", X(con(7))), I("rel8", X(sym("a"))), I("rel8", X(sym("x")))>>,
   \* .align and .block, variables, differences, the absolute section, .end with an address
   <<D("byte", <<X(con(1))>>), S("a", "align", <<X(con(2))>>), D("align", <<X(sym("a"))>>),
     S("b", "set", <<X2("sub", [k |-> "here"], sym("a"))>>), S("b", "set", <<X2("add", sym("b"), con(3))>>),
     D("block", <<X(sym("b"))>>), D("block", <<X(sym("a"))>>), D("word", <<X(sym("b"))>>), D("end", <<X(sym("a"))>>), L("x")>>,
   <<D("byte", <<X(con(1))>>), L("a"), D("word", <<X(sym("a"))>>), D("end", <<X(sym("a"))>>), L("x")>>,
   <<S("a", "abs", <<>>), D("block", <<X(con(4))>>), L("b"), D("org", <<X(con(9))>>), S("x", "equ", <<X(con(5))>>),
     S("__text", "sect", <<>>), D("word", <<X(sym("b")), X(sym("x"))>>), S("a", "byte", <<X(con(1))>>), D("end", <<>>)>>,
   \* a section that has no text in the file, before one that has
   <<D("byte", <<X(con(1))>>), S("__bss", "sect", <<>>), L("a"), D("block", <<X(con(3))>>), S("b", "sect", <<>>),
     D("word", <<X(sym("a"))>>), S("__text", "sect", <<>>), D("byte", <<X(con(2))>>)>>,
   \* a section too many
   <<S("b", "sect", <<>>), S("a", "sect", <<>>), S("__bss", "sect", <<>>), S("__text", "sect", <<>>), D("byte", <<X(con(1))>>)>>,
   \* a wrong operand of .equ, where pass 1 leaves a name to the linker or to a later label
   <<D("global", <<"x">>), S("x", "equ", <<X2("add", [k |-> "here"], [k |-> "here"])>>),
     S("a", "equ", <<X2("add", [k |-> "here"], [k |-> "here"])>>), L("a"), D("word", <<X(sym("x")), X(sym("a"))>>)>>,
   \* mistakes
   <<D("sect", <<>>), D("byte", <<X(sym("a"))>>), D("equ", <<X(con(1))>>), D("word", <<X(sym("__text"))>>),
     D("word", <<X2("add", sym("b"), sym("b"))>>), D("org", <<X(con(0))>>), L("b"), L("b")>>}

SmallPrograms ==
  {Line(Plain, src) : src \in UNION {[1 .. n -> Alphabet] : n \in 1 .. 3}}
    \cup {Line(f, src) : f \in AllFlags, src \in Tests}

(* a is undefined in pass 1 and local, and the expression names x.         *)
ForwardEqu ==
  {Line(f, <<S("a", "equ", <<X(sym("b"))>>), S("b", "equ", <<X(con(5))>>), D("global", <<"x">>),
             D("word", <<X(sym("x"))>>)>>) : f \in BOOLEAN \X {FALSE} \X BOOLEAN}

(* x eq 0 holds in pass 1, but not of an external that has a number.       *)
LateSection ==
  {Line(f, <<D("global", <<"x">>), D("if", <<X2("eq", sym("x"), con(0))>>), D("else", <<>>),
             S("b", "sect", <<>>), D("byte", <<X(con(1))>>), D("endif", <<>>)>>) : f \in AllFlags}
=============================================================================
