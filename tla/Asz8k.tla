------------------------------- MODULE Asz8k -------------------------------
(***************************************************************************)
(* The two passes of the assembler asz8k (asz8k/aascom.c, adirec.c and the *)
(* directives and emitters of asz8k.c).  Pass 1 gives the symbols their    *)
(* values; the interlude writes sections and symbols to the object file    *)
(* and numbers the externals; pass 2 reads the source again and writes the *)
(* text blocks.  An action handles one statement, or one operand of a      *)
(* .byte, .word or .long; passes and interlude are actions of their own.   *)
(* A statement is a record of an operation, a label and arguments; macros, *)
(* repeats and .input are in Macros, the listing is not modelled.          *)
(***************************************************************************)
EXTENDS Integers, SequencesExt, FiniteSetsExt

CONSTANTS
  HashOrder,   \* the symbols' names, in the order of the hash chains
  Commands,    \* the command lines: src, segflg (-s), uext (-u), and xcon's -s
  SECSIZ,      \* the sections there may be, the absolute one included
  OBJSIZ       \* the size of an object block

Names == Range(HashOrder)
NoName == "-"
None == [typ |-> "none"]

STNEW == "new"   \* not in the symbol table yet
STUND == "und"
STSEC == "sec"
STLAB == "lab"
STVAR == "var"

RBABS == 0
RBSEC == 1
RBUND == 255
RBEXT == 256

ASSUME AsmAssumption ==
  /\ HashOrder \in Seq(Names) /\ NoName \notin Names /\ "__text" \in Names
  /\ SECSIZ \in 2 .. RBUND /\ OBJSIZ \in 15 .. 255

(* The statements: those whose operands are expressions, and .global.  An  *)
(* operation that needs an operand has one.                                *)
Primaries == [k : {"con"}, v : Int] \cup [k : {"sym"}, s : Names] \cup [k : {"here"}]
Operands == [f : {"pri", "add", "sub", "eq"}, x : Primaries, y : Primaries]
Labels == Names \cup {NoName}
WithOperand == {"byte", "word", "long", "align", "block", "org", "equ", "set", "if"}
Others == {"label", "abs", "sect", "else", "endif", "end"}
Kinds == {"rel8", "imm8", "imm16", "imm32", "addr", "saddr"}
Statements ==
  [op : WithOperand \cup Others, lab : Labels, args : Seq(Operands)]
    \cup [op : {"instr"}, lab : Labels, args : Seq(Operands), kind : Kinds]
    \cup [op : {"global"}, lab : Labels, args : Seq(Names)]

ASSUME CommandAssumption ==
  \A c \in Commands :
    /\ {c.segflg, c.uext} \subseteq BOOLEAN /\ c.src \in Seq(Statements)
    /\ \A i \in DOMAIN c.src :
         c.src[i].op \in WithOperand \cup {"instr"} => c.src[i].args # <<>>

VARIABLES
  cmd,         \* the command line
  apc,         \* "start", "pass", "interlude", "ended" or "exit"
  pass2, line, \* which pass, and the statement that is read next
  argn,        \* the operands of this statement that are done
  cursec, curloc, sectab, secct,
  symtab,
  condlev, truelev,
  out,         \* the object file: blks, and the block cur of `used` bytes
  errs,        \* the errors of pass 2, by line
  nest,        \* history: what each open .if, with its .else, has come to
  want,        \* history: the bytes of pass 2 and the symbols they refer to
  defs,        \* history: the labels of pass 2 and where they stood
  high         \* history: how far pass 2 came in each section

asmvars == <<cmd, apc, pass2, line, argn, cursec, curloc, sectab, secct, symtab,
             condlev, truelev, out, errs, nest, want, defs, high>>
places == <<cursec, curloc, sectab, secct>>
levels == <<condlev, truelev, nest>>
history == <<want, defs, high>>

NewSym == [typ |-> STNEW, val |-> 0, rel |-> RBABS, glo |-> FALSE, dp2 |-> FALSE]

Init1 ==
  /\ cmd \in Commands
  /\ apc = "start" /\ pass2 = FALSE /\ line = 1 /\ argn = 0
  /\ cursec = 0 /\ curloc = 0 /\ secct = 1
  /\ sectab = [s \in 0 .. SECSIZ - 1 |-> [sym |-> NoName, loc |-> 0]]
  /\ symtab = [n \in Names |-> NewSym]
  /\ condlev = 0 /\ truelev = 0 /\ nest = <<>>
  /\ out = [blks |-> <<>>, cur |-> None, used |-> 0, nxtloc |-> 0, nxtsec |-> 0]
  /\ errs = {} /\ want = <<>> /\ defs = {}
  /\ high = [s \in 0 .. SECSIZ - 1 |-> 0]
-----------------------------------------------------------------------------
(* The object file.                                                        *)
Oflush(o) ==
  IF o.cur = None THEN o ELSE [o EXCEPT !.blks = Append(@, o.cur), !.cur = None, !.used = 0]

Room(o) == OBJSIZ - o.used

(* A list of items: a new block when the type changes or it may not fit.   *)
ITEM == 15     \* SYMSIZ + 7, what the longest item needs
PutItem(o, typ, item) ==
  LET p == IF o.cur.typ # typ \/ Room(o) < ITEM
           THEN [Oflush(o) EXCEPT !.cur = [typ |-> typ, items |-> <<>>]] ELSE o
  IN  [p EXCEPT !.cur.items = Append(@, item), !.used = @ + ITEM]
PutAll(o, list) ==
  LET p[i \in 0 .. Len(list)] ==
        IF i = 0 THEN o
        ELSE IF list[i] = None THEN p[i - 1] ELSE PutItem(p[i - 1], list[i].typ, list[i].item)
  IN  p[Len(list)]

SetorgAnySec(o, sec, loc) ==       \* mutant: the section is not compared
  IF o.cur.typ = "OBTXT" /\ o.nxtloc = loc THEN o
  ELSE [Oflush(o) EXCEPT !.cur = [typ |-> "OBTXT", adr |-> loc, sec |-> sec, txt |-> <<>>, rel |-> <<>>],
                         !.used = 6, !.nxtloc = loc, !.nxtsec = sec]
Setorg(o, sec, loc) ==
  IF o.cur.typ = "OBTXT" /\ o.nxtloc = loc /\ o.nxtsec = sec THEN o
  ELSE [Oflush(o) EXCEPT !.cur = [typ |-> "OBTXT", adr |-> loc, sec |-> sec, txt |-> <<>>, rel |-> <<>>],
                         !.used = 6, !.nxtloc = loc, !.nxtsec = sec]

(* A byte and, if it begins a relocatable item, its relocation, which is   *)
(* kept at the end of the block, the last one first.  Seven bytes are what *)
(* the longest item needs, so that no item is broken up.                   *)
NoRel == [act |-> "none"]
Need(b) == IF b.rel # NoRel THEN 7 ELSE 1
Emitb(o, sec, loc, b) ==
  LET p == Setorg(IF Room(o) < Need(b) THEN Oflush(o) ELSE o, sec, loc)
      rels == IF b.rel = NoRel THEN p.cur.rel
              ELSE <<[act |-> b.rel.act, base |-> b.rel.base, of |-> b.rel.of,
                      pos |-> 6 + Len(p.cur.txt)]>> \o p.cur.rel
  IN  [p EXCEPT !.cur.txt = Append(@, b.val), !.cur.rel = rels,
                !.used = @ + (IF b.rel = NoRel THEN 1 ELSE 4), !.nxtloc = loc + 1]
EmitAll(o, sec, loc, bs) ==
  LET p[i \in 0 .. Len(bs)] == IF i = 0 THEN o ELSE Emitb(p[i - 1], sec, loc + i - 1, bs[i])
  IN  p[Len(bs)]
-----------------------------------------------------------------------------
(* Symbols and expressions.                                                *)
st == cmd.src[line]

Look(tab, ns) ==      \* sylook() of names that may be new
  [n \in Names |-> IF n \in ns /\ tab[n].typ = STNEW THEN [tab[n] EXCEPT !.typ = STUND] ELSE tab[n]]

Unchecked(s, typ, val, rel) == FALSE      \* mutant: no phase errors
PhaseError(s, typ, val, rel) ==
  \/ s.typ # typ
  \/ s.typ # STVAR /\ s.rel # RBUND /\ (s.val # val \/ s.rel # rel)
Redefined(s) == s.typ # STVAR /\ (IF pass2 THEN s.dp2 ELSE s.typ # STUND)

(* assign(): the table with n, if it is a name, given a type and a value.  *)
Assign(tab, n, typ, val, rel) ==
  IF n = NoName THEN [tab |-> tab, e |-> {}]
  ELSE IF Redefined(tab[n]) THEN [tab |-> tab, e |-> {"M"}]
  ELSE IF tab[n].typ # STUND /\ PhaseError(tab[n], typ, val, rel) THEN [tab |-> tab, e |-> {"P"}]
  ELSE [tab |-> [tab EXCEPT ![n] = [tab[n] EXCEPT !.typ = typ, !.val = val, !.rel = rel, !.dp2 = @ \/ pass2]],
        e |-> {}]
Labelled(val, rel) == Assign(Look(symtab, {st.lab}), st.lab, STLAB, val, rel)

Syms(x) == {p.s : p \in {q \in {x.x, x.y} : q.k = "sym"}}
Value(val, rel, of, e) == [val |-> val, rel |-> rel, of |-> of, e |-> e]

Primary(tab, p, loc) ==
  CASE p.k = "con" -> Value(p.v, RBABS, NoName, {})
    [] p.k = "here" -> Value(loc, cursec, NoName, {})
    [] p.k = "sym" ->
         LET s == tab[p.s] IN
         CASE s.typ = STSEC -> Value(0, RBABS, NoName, {"E"})
           [] s.typ = STUND \/ s.rel = RBUND \/ (s.typ = STVAR /\ pass2 /\ ~s.dp2) ->
                Value(0, RBABS, NoName, {"U"})
           [] OTHER -> Value(s.val, s.rel, p.s, {})

(* An expression of at most one operator, with $ standing for loc.         *)
Expression(tab, x, loc) ==
  LET l == Primary(tab, x.x, loc)
      r == Primary(tab, x.y, loc)
      e == l.e \cup r.e \cup
           (IF \/ x.f = "add" /\ l.rel # RBABS /\ r.rel # RBABS
               \/ x.f = "sub" /\ l.rel # r.rel /\ r.rel # RBABS THEN {"E"} ELSE {})
      base == IF x.f = "add" /\ l.rel = RBABS THEN r ELSE l
  IN  IF "E" \in e THEN Value(0, RBABS, NoName, e)
      ELSE CASE x.f = "add" -> Value(l.val + r.val, base.rel, base.of, e)
             [] x.f = "sub" -> IF l.rel = r.rel THEN Value(l.val - r.val, RBABS, NoName, e)
                               ELSE Value(l.val - r.val, l.rel, l.of, e)
             [] x.f = "eq" -> Value(IF l.val = r.val /\ l.rel = r.rel THEN -1 ELSE 0, RBABS, NoName, e)
             [] OTHER -> l
Operand(tab, x, loc) ==
  LET t == Look(tab, Syms(x)) IN [tab |-> t, v |-> Expression(t, x, loc)]
-----------------------------------------------------------------------------
(* Statements: what they have in common.                                   *)
Reading == apc = "pass" /\ line <= Len(cmd.src)
Assembling(ops) == Reading /\ condlev <= truelev /\ st.op \in ops

NextLine == line' = line + 1 /\ argn' = 0
Errors(es) == errs' = IF pass2 THEN errs \cup {<<line, c>> : c \in es} ELSE errs

ReachTo(loc) == high' = IF pass2 THEN [high EXCEPT ![cursec] = IF loc > @ THEN loc ELSE @] ELSE high
Stood(loc, sec) ==
  defs' = IF pass2 /\ st.lab # NoName THEN defs \cup {[name |-> st.lab, val |-> loc, sec |-> sec]}
          ELSE defs

(* Bytes put out from loc on, and a change of loc that the object file     *)
(* must follow.                                                            *)
Emit(loc, bs) ==
  /\ curloc' = loc + Len(bs) /\ ReachTo(loc + Len(bs))
  /\ out' = IF pass2 THEN EmitAll(out, cursec, loc, bs) ELSE out
  /\ want' = IF pass2
             THEN want \o [i \in DOMAIN bs |->
                            [val |-> bs[i].val, rel |-> bs[i].rel, sec |-> cursec, loc |-> loc + i - 1]]
             ELSE want
Move(loc) ==
  /\ curloc' = loc /\ ReachTo(loc)
  /\ out' = IF pass2 THEN Setorg(out, cursec, loc) ELSE out

(* The bytes of an operand x; act is what its relocation is to do.         *)
Rel(act, x) == IF x.rel = RBABS THEN NoRel ELSE [act |-> act, base |-> x.rel, of |-> x.of]
Byte(v, rel) == [val |-> v % 256, rel |-> rel]
Word(v, rel) == <<Byte(v \div 256, rel), Byte(v, NoRel)>>
Long(v, rel) == Word(v \div 65536, rel) \o Word(v, NoRel)
ShortRef(x) == IF x.rel > 127 THEN 127 ELSE x.rel
LongSeg(x) == Word((128 + ShortRef(x)) * 256, Rel("RAZLS", x)) \o Word(x.val, NoRel)
ShortSeg(x) == Word(ShortRef(x) * 256 + (x.val % 256), Rel("RAZSS", x))
Field(kind, x) ==
  CASE kind = "byte" -> <<Byte(x.val, Rel("RAA8", x))>>
    [] kind = "imm8" -> <<Byte(x.val, Rel("RAA8", x)), Byte(x.val, Rel("RAA8", x))>>
    [] kind \in {"word", "imm16"} -> Word(x.val, Rel(IF cmd.segflg THEN "RAZOF" ELSE "RAA16M", x))
    [] kind \in {"long", "imm32"} -> IF cmd.segflg /\ x.rel # RBABS THEN LongSeg(x)
                                     ELSE Long(x.val, Rel("RAA32M", x))
    [] kind = "addr"  -> IF cmd.segflg THEN LongSeg(x) ELSE Word(x.val, Rel("RAA16M", x))
    [] kind = "saddr" -> IF cmd.segflg THEN ShortSeg(x) ELSE Word(x.val, Rel("RAA16M", x))
-----------------------------------------------------------------------------
(* Statements.                                                             *)
Label ==
  /\ Assembling({"label"})
  /\ LET a == Labelled(curloc, cursec) IN symtab' = a.tab /\ Errors(a.e)
  /\ Stood(curloc, cursec) /\ NextLine
  /\ UNCHANGED <<cmd, apc, pass2, places, levels, out, want, high>>

Even(loc) == loc + (loc % 2)

(* .byte, .word and .long: the label and the first operand, or another.    *)
Data ==
  /\ Assembling({"byte", "word", "long"})
  /\ LET loc == IF argn = 0 /\ st.op # "byte" THEN Even(curloc) ELSE curloc
         a == IF argn = 0 THEN Labelled(loc, cursec) ELSE [tab |-> symtab, e |-> {}]
         x == Operand(a.tab, st.args[argn + 1], loc)
     IN  /\ Emit(loc, Field(st.op, x.v))
         /\ symtab' = x.tab /\ Errors(a.e \cup x.v.e)
         /\ IF argn = 0 THEN Stood(loc, cursec) ELSE UNCHANGED defs
  /\ IF argn + 1 < Len(st.args) THEN argn' = argn + 1 /\ UNCHANGED line ELSE NextLine
  /\ UNCHANGED <<cmd, apc, pass2, cursec, sectab, secct, levels>>

(* instr(): two bytes that need no relocation, and a field of the kind     *)
(* that the operand asks for; "rel8" is a branch within the section.       *)
Instr ==
  /\ Assembling({"instr"})
  /\ LET loc == Even(curloc)
         a == Labelled(loc, cursec)
         x == Operand(a.tab, st.args[1], loc)
         dist == x.v.val - loc - 2
         far == x.v.rel # cursec \/ dist % 2 # 0 \/ dist \notin -256 .. 255
     IN  /\ Emit(loc, IF st.kind = "rel8"
                      THEN <<Byte(0, NoRel), Byte(dist \div 2, NoRel)>>
                      ELSE <<Byte(0, NoRel), Byte(0, NoRel)>> \o Field(st.kind, x.v))
         /\ symtab' = x.tab
         /\ Errors(a.e \cup x.v.e \cup (IF st.kind = "rel8" /\ far THEN {"E"} ELSE {}))
         /\ Stood(loc, cursec)
  /\ NextLine
  /\ UNCHANGED <<cmd, apc, pass2, cursec, sectab, secct, levels>>

PowerOf2[i \in 0 .. 32] == IF i = 0 THEN 1 ELSE 2 * PowerOf2[i - 1]

Align ==
  /\ Assembling({"align"})
  /\ LET x == Operand(Look(symtab, {st.lab}), st.args[1], curloc)
         ok == x.v.rel = RBABS /\ x.v.val \in 0 .. 32
         loc == IF ok THEN -((-curloc) \div PowerOf2[x.v.val]) * PowerOf2[x.v.val] ELSE curloc
         a == Assign(x.tab, st.lab, STLAB, loc, cursec)
     IN  /\ IF ok THEN Move(loc) ELSE UNCHANGED <<curloc, out, high>>
         /\ symtab' = a.tab /\ Errors(a.e \cup x.v.e \cup (IF ok THEN {} ELSE {"E"}))
         /\ Stood(loc, cursec)
  /\ NextLine
  /\ UNCHANGED <<cmd, apc, pass2, cursec, sectab, secct, levels, want>>

Block ==
  /\ Assembling({"block"})
  /\ LET a == Labelled(curloc, cursec)
         x == Operand(a.tab, st.args[1], curloc)
         ok == x.v.rel = RBABS
     IN  /\ IF ok THEN Move(curloc + x.v.val) ELSE UNCHANGED <<curloc, out, high>>
         /\ symtab' = x.tab /\ Errors(a.e \cup x.v.e \cup (IF ok THEN {} ELSE {"E"}))
         /\ Stood(curloc, cursec)
  /\ NextLine
  /\ UNCHANGED <<cmd, apc, pass2, cursec, sectab, secct, levels, want>>

Org ==
  /\ Assembling({"org"})
  /\ LET x == Operand(Look(symtab, {st.lab}), st.args[1], curloc)
         ok == x.v.rel = cursec
         a == IF ok THEN Assign(x.tab, st.lab, STLAB, x.v.val, cursec) ELSE [tab |-> x.tab, e |-> {}]
     IN  /\ IF ok THEN Move(x.v.val) /\ Stood(x.v.val, cursec) ELSE UNCHANGED <<curloc, out, high, defs>>
         /\ symtab' = a.tab /\ Errors(a.e \cup x.v.e \cup (IF ok THEN {} ELSE {"E"}))
  /\ NextLine
  /\ UNCHANGED <<cmd, apc, pass2, cursec, sectab, secct, levels, want>>

(* setsec(): where the old section stands is kept, and the new one goes on *)
(* where it stood.                                                         *)
SetSec(sec) ==
  /\ sectab' = [sectab EXCEPT ![cursec].loc = curloc]
  /\ cursec' = sec /\ curloc' = sectab'[sec].loc

Abs ==
  /\ Assembling({"abs"})
  /\ SetSec(0)
  /\ LET a == Labelled(curloc', 0) IN symtab' = a.tab /\ Errors(a.e)
  /\ Stood(curloc', 0) /\ NextLine
  /\ UNCHANGED <<cmd, apc, pass2, secct, levels, out, want, high>>

SectNoLabel ==
  /\ Assembling({"sect"}) /\ st.lab = NoName
  /\ Errors({"L"}) /\ NextLine
  /\ UNCHANGED <<cmd, apc, pass2, places, levels, symtab, out, history>>

OldSectionAlways(n) == symtab[n].typ = STSEC      \* mutant: also before pass 2 has met it
OldSection(n) == symtab[n].typ = STSEC /\ (pass2 => symtab[n].dp2)

SectOld ==                      \* .sect and .common
  /\ Assembling({"sect"}) /\ st.lab # NoName /\ OldSection(st.lab)
  /\ SetSec(symtab[st.lab].rel) /\ NextLine
  /\ UNCHANGED <<cmd, apc, pass2, secct, levels, symtab, out, errs, history>>

NewSec(tab, n) ==               \* newsec()
  LET a == Assign(tab, n, STSEC, 0, secct) IN
  /\ symtab' = a.tab /\ Errors(a.e)
  /\ sectab' = [sectab EXCEPT ![cursec].loc = curloc, ![secct].sym = n]
  /\ cursec' = secct /\ secct' = secct + 1 /\ curloc' = 0

TooMany == secct >= SECSIZ

SectNew ==
  /\ Assembling({"sect"}) /\ st.lab # NoName /\ ~OldSection(st.lab)
  /\ IF TooMany
     THEN apc' = "exit" /\ UNCHANGED <<places, symtab, errs, line, argn>>
     ELSE NewSec(Look(symtab, {st.lab}), st.lab) /\ NextLine /\ UNCHANGED apc
  /\ UNCHANGED <<cmd, pass2, levels, out, history>>

Global ==
  /\ Assembling({"global"})
  /\ symtab' = [n \in Names |->
                 LET s == Look(symtab, Range(st.args) \cup {st.lab})[n] IN
                 IF n \in Range(st.args) THEN [s EXCEPT !.glo = TRUE] ELSE s]
  /\ NextLine
  /\ UNCHANGED <<cmd, apc, pass2, places, levels, out, errs, history>>

Equ ==                          \* .equ and .set
  /\ Assembling({"equ", "set"})
  /\ LET x == Operand(Look(symtab, {st.lab}), st.args[1], curloc)
         a == IF x.v.e = {} \/ pass2
              THEN Assign(x.tab, st.lab, IF st.op = "equ" THEN STLAB ELSE STVAR, x.v.val, x.v.rel)
              ELSE [tab |-> x.tab, e |-> {}]
     IN  /\ symtab' = a.tab
         /\ Errors(a.e \cup x.v.e \cup (IF st.lab = NoName THEN {"L"} ELSE {}))
  /\ NextLine
  /\ UNCHANGED <<cmd, apc, pass2, places, levels, out, history>>
-----------------------------------------------------------------------------
(* Conditional assembly.  condlev is the number of open .ifs, truelev the  *)
(* number of those, from the outermost, whose text is assembled.           *)
If ==
  /\ Assembling({"if"})
  /\ LET x == Operand(Look(symtab, {st.lab}), st.args[1], curloc)
         cond == x.v.rel = RBABS /\ x.v.val # 0
     IN  /\ condlev' = condlev + 1
         /\ truelev' = IF cond THEN truelev + 1 ELSE truelev
         /\ nest' = Append(nest, cond)
         /\ symtab' = x.tab
         /\ Errors(x.v.e \cup (IF x.v.rel # RBABS THEN {"E"} ELSE {}))
  /\ NextLine
  /\ UNCHANGED <<cmd, apc, pass2, places, out, history>>

Flip(s) == [s EXCEPT ![Len(s)] = ~@]

Else ==
  /\ Assembling({"else"})
  /\ IF truelev > 0
     THEN truelev' = truelev - 1 /\ nest' = Flip(nest) /\ Errors({})
     ELSE Errors({"C"}) /\ UNCHANGED <<truelev, nest>>
  /\ symtab' = Look(symtab, {st.lab}) /\ NextLine
  /\ UNCHANGED <<cmd, apc, pass2, places, condlev, out, history>>

Endif ==
  /\ Assembling({"endif"})
  /\ IF condlev > 0
     THEN condlev' = condlev - 1 /\ truelev' = truelev - 1 /\ nest' = Front(nest) /\ Errors({})
     ELSE Errors({"C"}) /\ UNCHANGED levels
  /\ symtab' = Look(symtab, {st.lab}) /\ NextLine
  /\ UNCHANGED <<cmd, apc, pass2, places, out, history>>

ElseTurns == truelev = condlev - 1

Skip ==                         \* skip1()
  /\ Reading /\ condlev > truelev
  /\ CASE st.op = "if" -> condlev' = condlev + 1 /\ nest' = Append(nest, FALSE) /\ UNCHANGED truelev
       [] st.op = "else" -> /\ truelev' = IF ElseTurns THEN truelev + 1 ELSE truelev
                            /\ nest' = Flip(nest) /\ UNCHANGED condlev
       [] st.op = "endif" -> condlev' = condlev - 1 /\ nest' = Front(nest) /\ UNCHANGED truelev
       [] OTHER -> UNCHANGED levels
  /\ NextLine
  /\ UNCHANGED <<cmd, apc, pass2, places, symtab, out, errs, history>>
-----------------------------------------------------------------------------
(* The passes.                                                             *)
StartPass ==                    \* dopass(), up to its loop
  /\ apc = "start" /\ apc' = "pass"
  /\ line' = 1 /\ argn' = 0 /\ condlev' = 0 /\ truelev' = 0 /\ nest' = <<>>
  /\ LET a == Assign(Look(symtab, {"__text"}), "__text", STSEC, 0, 1) IN symtab' = a.tab
  /\ sectab' = [sectab EXCEPT ![0].loc = 0, ![1].sym = "__text"]
  /\ cursec' = 1 /\ curloc' = 0 /\ secct' = 2
  /\ UNCHANGED <<cmd, pass2, out, errs, history>>

(* .end: a transfer address, if there is one, and no more statements.      *)
End ==
  /\ Assembling({"end"})
  /\ LET t == Look(symtab, {st.lab}) IN
     IF st.args = <<>> THEN symtab' = t /\ UNCHANGED <<out, errs>>
     ELSE LET x == Operand(t, st.args[1], curloc) IN
          /\ symtab' = x.tab /\ Errors(x.v.e)
          /\ out' = IF pass2 THEN [Oflush(out) EXCEPT
                                     !.cur = [typ |-> "OBTRA", val |-> x.v.val, rel |-> x.v.rel],
                                     !.used = 6]
                    ELSE out
  /\ line' = Len(cmd.src) + 1 /\ argn' = 0
  /\ UNCHANGED <<cmd, apc, pass2, places, levels, history>>

EndPass ==
  /\ apc = "pass" /\ line > Len(cmd.src)
  /\ SetSec(0)
  /\ IF pass2
     THEN /\ apc' = "ended"
          /\ out' = Oflush([Oflush(out) EXCEPT !.cur = [typ |-> "OBOND"]])
     ELSE apc' = "interlude" /\ UNCHANGED out
  /\ UNCHANGED <<cmd, pass2, line, argn, secct, symtab, levels, errs, history>>

(* The interlude: sections, then the symbols in the order of the chains;   *)
(* those undefined and global become the externals, RBEXT, RBEXT + 1, ...  *)
NumberedAll(n) == symtab[n].typ = STUND      \* mutant: locals too
Numbered(n) == symtab[n].typ = STUND /\ (symtab[n].glo \/ cmd.uext)
Position(n) == CHOOSE i \in DOMAIN HashOrder : HashOrder[i] = n
Number(n) == RBEXT + Cardinality({i \in 1 .. Position(n) - 1 : Numbered(HashOrder[i])})
SymBlock(n) == IF symtab[n].glo \/ (cmd.uext /\ symtab[n].typ = STUND) THEN "OBGLO" ELSE "OBLOC"
SymItem(n) ==
  IF symtab[n].typ = STUND THEN [name |-> n, val |-> 0, sec |-> RBUND]
  ELSE [name |-> n, val |-> symtab[n].val, sec |-> symtab[n].rel]
SectionList == [r \in 1 .. secct - 1 |-> [typ |-> "OBSEC", item |-> sectab[r].sym]]
SymbolList ==
  [i \in DOMAIN HashOrder |->
     LET n == HashOrder[i] IN
     IF symtab[n].typ \in {STNEW, STSEC} THEN None ELSE [typ |-> SymBlock(n), item |-> SymItem(n)]]

Interlude ==
  /\ apc = "interlude" /\ apc' = "start" /\ pass2' = TRUE
  /\ out' = PutAll(Oflush([out EXCEPT !.cur = [typ |-> "OBOST"]]), SectionList \o SymbolList)
  /\ symtab' = [n \in Names |->
       IF Numbered(n)
       THEN [symtab[n] EXCEPT !.typ = STLAB, !.glo = TRUE, !.val = 0, !.rel = Number(n)]
       ELSE symtab[n]]
  /\ UNCHANGED <<cmd, line, argn, places, levels, errs, history>>

Assemble ==
  \/ StartPass \/ Interlude \/ EndPass \/ End
  \/ Label \/ Data \/ Instr \/ Align \/ Block \/ Org
  \/ Abs \/ SectNoLabel \/ SectOld \/ SectNew \/ Global \/ Equ
  \/ If \/ Else \/ Endif \/ Skip
-----------------------------------------------------------------------------
(* What should hold.                                                       *)

(* A program without .if, whose .org, .block, .align, .equ and .set have   *)
(* operands that do not depend on a symbol, and whose variables are only   *)
(* variables, has no phase error but where an operand is an error too: the *)
(* restart of the sections and the SADP2 flags make pass 2 see every label *)
(* where pass 1 saw it.  (.equ of an operand in error assigns in pass 2    *)
(* and not in pass 1, when its name may have become an external.)          *)
Settled(s) ==
  /\ s.op # "if"
  /\ s.op \in {"org", "block", "align", "equ", "set"} => Syms(s.args[1]) = {}
  /\ s.op = "set" => \A t \in Range(cmd.src) : t.lab \in {s.lab} \ {NoName} => t.op = "set"
NoPhaseError ==
  (\A s \in Range(cmd.src) : Settled(s)) =>
    \A e \in errs : e[2] = "P" => <<e[1], "E">> \in errs

Items(typ) == FlattenSeq([i \in DOMAIN out.blks |-> IF out.blks[i].typ = typ THEN out.blks[i].items ELSE <<>>])

(* If there was no error, pass 2 had no section that the object file does  *)
(* not list.  (It may: .if can take another branch when an external has    *)
(* got its number.)                                                        *)
SectionsListed == apc = "ended" /\ errs = {} => secct - 1 <= Len(Items("OBSEC"))

(* What pass 2 has defined was defined or a section in pass 1 already.  It *)
(* need not be, and no error tells: where .if takes the other branch, a    *)
(* name that pass 1 did not meet, or left undefined and local, is as good  *)
(* as new.                                                                 *)
KnownInPass1 ==
  /\ \A r \in 1 .. secct - 1 : sectab[r].sym \in Range(Items("OBSEC"))
  /\ \A d \in defs : \A i \in DOMAIN Items("OBLOC") :
       Items("OBLOC")[i].name = d.name => Items("OBLOC")[i].sec # RBUND

(* What the interlude wrote between the passes is then true of pass 2, if  *)
(* there was no error: a section has in the object file the number that    *)
(* its text blocks carry, and a symbol the value that its label had.       *)
ListsHold ==
  apc = "ended" /\ errs = {} /\ KnownInPass1 =>
    /\ \A r \in 1 .. secct - 1 : r \in DOMAIN Items("OBSEC") /\ Items("OBSEC")[r] = sectab[r].sym
    /\ \A typ \in {"OBGLO", "OBLOC"} : \A i \in DOMAIN Items(typ) : \A d \in defs :
         Items(typ)[i].name = d.name => Items(typ)[i] = d

(* A block is no longer than the buffer that asz8k fills and the one into  *)
(* which xcon reads it, and a relocatable item is in one block.            *)
Width(act) == CASE act = "RAA8" -> 1 [] act \in {"RAA32M", "RAZLS"} -> 4 [] OTHER -> 2
BlocksWhole ==
  \A b \in Range(out.blks) \cup {out.cur} : b.typ = "OBTXT" =>
    /\ 6 + Len(b.txt) + 3 * Len(b.rel) <= OBJSIZ
    /\ \A r \in Range(b.rel) : r.pos + Width(r.act) <= 6 + Len(b.txt)

(* However .if, .else and .endif are nested, and whatever of it is skipped *)
(* (skip1() and dircom() share the two counters), a statement is assembled *)
(* exactly if every branch it stands in is the one taken.                  *)
OnlyTaken ==
  /\ condlev = Len(nest)
  /\ truelev = Max({k \in 0 .. Len(nest) : \A i \in 1 .. k : nest[i]})

(* Only statements in branches taken emit; the blocks that hold what they  *)
(* emit are whole; and read back at the end, the text blocks are the bytes *)
(* that pass 2 emitted, each with its section, its address and its         *)
(* relocation, in the order they came.                                     *)
RelAt(b, i) ==
  LET rs == {r \in Range(b.rel) : r.pos = i + 5} IN
  IF rs = {} THEN NoRel ELSE LET r == CHOOSE q \in rs : TRUE IN [act |-> r.act, base |-> r.base, of |-> r.of]
ReadBack(b) ==
  IF b.typ # "OBTXT" THEN <<>>
  ELSE [i \in DOMAIN b.txt |-> [val |-> b.txt[i], rel |-> RelAt(b, i), sec |-> b.sec, loc |-> b.adr + i - 1]]
ObjectFaithful ==
  /\ OnlyTaken /\ BlocksWhole
  /\ apc = "ended" => FlattenSeq([i \in DOMAIN out.blks |-> ReadBack(out.blks[i])]) = want
=============================================================================
