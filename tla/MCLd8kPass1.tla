----------------------------- MODULE MCLd8kPass1 -----------------------------
(* Small links for TLC: a handful of modules and archives, and the command *)
(* lines made of them.                                                     *)
EXTENDS Ld8kPass1

Seg(typ, len) == [no |-> 255, typ |-> typ, len |-> len]
Sg(n, i)      == Symbol(SEG, n, i, 0)
Glb(n, i, v)  == Symbol(GLB, n, i, v)
Unx(n)        == Symbol(UNX, n, UNSET, 0)
Com(n, size)  == Symbol(UNX, n, UNSET, size)
Loc(n, i, v)  == Symbol(LOC, n, i, v)
Inn(typ, sgn, loc, bas, add) ==
  [sgn |-> sgn, ext |-> FALSE, typ |-> typ, loc |-> loc, bas |-> bas, add |-> add]
Ext(typ, sgn, loc, bas, add) ==
  [sgn |-> sgn, ext |-> TRUE, typ |-> typ, loc |-> loc, bas |-> bas, add |-> add]
Mod(magic, segs, syms, rs) ==
  [magic |-> magic, cut |-> "no", segs |-> segs, syms |-> syms, rels |-> rs]
Obj(m)       == [kind |-> "obj", mods |-> <<m>>, at |-> <<0>>]
Lib(ms, at)  == [kind |-> "lib", mods |-> ms, at |-> at]

Main == Mod("nonseg", <<Seg(COD, 8), Seg(DAT, 4), Seg(BSS, 3)>>,
  <<Sg("text", 0), Sg("data", 1), Glb("main", 0, 2), Unx("f"), Loc("l", 1, 2), Glb("buf", 2, 2)>>,
  <<Ext("off", 0, 2, 3, 4), Inn("off", 0, 4, 1, 2), Inn("off", 1, 0, 0, 6)>>)
A1 == Mod("nonseg", <<Seg(COD, 4), Seg(BSS, 2)>>,
  <<Sg("text", 0), Glb("f", 0, 2), Unx("g"), Unx("main")>>,
  <<Ext("off", 0, 0, 2, 0), Ext("off", 0, 2, 3, 8)>>)
A2 == Mod("nonseg", <<Seg(COD, 2)>>, <<Glb("h", 0, 0)>>, <<Inn("off", 0, 0, 0, 0)>>)
B1 == Mod("nonseg", <<Seg(DAT, 2), Seg(COD, 2)>>,
  <<Glb("g", 0, 0), Unx("h")>>, <<Ext("off", 1, 0, 1, 2)>>)
B2 == Mod("nonseg", <<Seg(COD, 2)>>, <<Glb("h", 0, 0), Glb("k", 0, 2)>>, <<>>)
F1 == Mod("nonseg", <<Seg(CON, 2)>>, <<Glb("f", 0, 0)>>, <<Inn("off", 0, 0, 0, 2)>>)
C1 == Mod("nonseg", <<Seg(COD, 4)>>, <<Unx("f"), Com("cm", 3), Com("x", 2)>>, <<Ext("off", 0, 0, 1, 2)>>)
C2 == Mod("nonseg", <<Seg(COD, 2), Seg(BSS, 1)>>, <<Com("cm", 6), Loc("l", 0, 0)>>,
  <<Ext("off", 0, 0, 0, 0)>>)
D1 == Mod("nonseg", <<Seg(DAT, 4)>>, <<Glb("cm", 0, 2)>>, <<>>)
U1 == Mod("nonseg", <<Seg(COD, 4), Seg(UND, 6), Seg(DAT, 2)>>, <<Sg("x", 1), Glb("f", 0, 0)>>,
  <<Inn("off", 0, 2, 2, 0), Inn("off", 2, 0, 0, 2)>>)
S1 == Mod("seg", <<Seg(COD, 6), Seg(DAT, 2)>>, <<Glb("main", 0, 0), Unx("f")>>,
  <<Inn("lsg", 0, 0, 1, 0), Inn("ssg", 1, 0, 0, 4)>>)
S2 == Mod("seg", <<Seg(COD, 4), Seg(DAT, 6)>>, <<Unx("main"), Glb("f", 1, 2)>>,
  <<Inn("ssg", 0, 0, 1, 2), Inn("lsg", 1, 0, 0, 2)>>)
S3 == Mod("seg", <<Seg(DAT, 4), Seg(COD, 2)>>, <<Unx("f")>>, <<Ext("lsg", 0, 0, 0, 0)>>)

W1 == Mod("nonseg", <<Seg(COD, 2)>>, <<Unx("g")>>, <<Ext("off", 0, 0, 0, 0)>>)
S4 == Mod("seg", <<Seg(COD, 2), Seg(BSS, 65535)>>, <<>>, <<>>)
G1 == Mod("nonseg", <<Seg(DAT, 2)>>, <<Glb("g", 0, 0)>>, <<>>)
V1 == Mod("nonseg", <<Seg(COD, 2)>>, <<Symbol(GLB, "k", UNSET, 7), Unx("k")>>, <<>>)
Q1 == Mod("nonseg", <<Seg(COD, 2)>>, <<Sg("x", 0), Unx("f")>>, <<Ext("off", 0, 0, 1, 0)>>)
R1 == Mod("nonseg", <<Seg(COD, 2)>>, <<Sg("l", 0), Glb("f", 0, 0)>>, <<>>)
K1 == Mod("nonseg", <<Seg(COD, 2)>>, <<Glb("k", 0, 2), Glb("h", 0, 0)>>, <<>>)

MCNames == {"main", "f", "g", "h", "k", "l", "cm", "buf", "text", "data", "x"}
MCSegNameTyp == [n \in MCNames |-> IF n = "text" THEN COD ELSE IF n = "data" THEN DAT ELSE UND]
MCContent ==
  [main |-> Obj(Main), f |-> Obj(F1), g |-> Obj(B1), h |-> Obj(A2), w |-> Obj(W1),
   c1 |-> Obj(C1), c2 |-> Obj(C2), d |-> Obj(D1), u |-> Obj(U1), v |-> Obj(V1),
   s1 |-> Obj(S1), s2 |-> Obj(S2), s3 |-> Obj(S3), s4 |-> Obj(S4),
   a  |-> Lib(<<A2, A1>>, <<28, 80>>), b |-> Lib(<<B2, B1>>, <<28, 80>>),
   fm |-> Lib(<<F1, Main>>, <<28, 80>>), gl |-> Lib(<<G1>>, <<80>>),
   fh |-> Lib(<<F1, A2>>, <<28, 80>>), sa |-> Lib(<<A1, S2>>, <<28, 80>>),
   cut |-> Lib(<<A1, [B1 EXCEPT !.cut = "syms"], [B1 EXCEPT !.cut = "head"]>>, <<28, 80, 120>>),
   none  |-> [kind |-> "none", mods |-> <<>>, at |-> <<>>],
   short |-> Obj([F1 EXCEPT !.cut = "syms"]),
   long  |-> Obj([F1 EXCEPT !.cut = "syms", !.syms = [i \in 1 .. 18 |-> Loc("l", 0, 0)]]),
   q |-> Obj(Q1), r |-> Obj(R1), kh |-> Lib(<<K1>>, <<28>>),
   noseg |-> Obj([A2 EXCEPT !.cut = "segs", !.syms = <<>>]),
   bad   |-> Obj([F1 EXCEPT !.magic = "bad"])]

Files(fs) == [i \in DOMAIN fs |-> [op |-> "file", file |-> fs[i]]]
Opt(f)    == <<[op |-> f]>>
Segd(i, t)    == <<[op |-> "d", seg |-> i, typ |-> t]>>
Segn(i, t, n) == <<[op |-> "dn", seg |-> i, typ |-> t, name |-> n]>>
Und(n)    == <<[op |-> "u", name |-> n]>>
Stk(n)    == <<[op |-> "t", size |-> n]>>

(* Links of the kinds the code is written for, and links that must fail.   *)
PlainOptions ==
  {<<>>, Opt("r"), Opt("i"), Opt("x"), Opt("w"), Stk(5), Stk(70000), Stk(65536),
   Und("h") \o Und("h"), Und("f"), Opt("x") \o Und("k") \o Opt("i"),
   Segd(2, COD) \o Segn(1, DAT, "data") \o Segn(2, UND, "data"),
   Opt("i") \o Segn(1, UND, "text")}
PlainFiles ==
  {<<"main", "f", "c1", "c2">>, <<"c1", "f">>, <<"a">>, <<"main", "a", "g">>, <<"main", "a">>, <<"f", "h">>,
   <<"main", "a", "b">>, <<"main", "a", "b", "b">>, <<"c1", "c2", "f", "b">>,
   <<"main", "long">>, <<"main", "q", "r">>, <<"main", "q", "f">>, <<"main", "c1", "g", "kh">>, <<"main", "c1", "kh", "g">>,
   <<"main", "f", "main">>, <<"main", "f", "w", "b", "fh">>, <<"c2", "w", "c1", "f", "b">>,
   <<"none", "main">>, <<"main", "short">>, <<"noseg", "f">>, <<"bad">>, <<"main", "cut">>,
   <<"s1", "s2">>, <<"s1", "main">>, <<"s1", "sa">>, <<"main", "s2">>, <<"c1", "c2", "d", "f">>}
PlainCommands == {o \o Files(fs) : o \in PlainOptions, fs \in PlainFiles}

(* A module that defines a name before another has it as a common.         *)
CommonAfterDefinition == {Files(<<"d", "c1", "f">>)}
=============================================================================
