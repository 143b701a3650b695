------------------------------- MODULE Macros -------------------------------
(***************************************************************************)
(* How asz8k reads its source: the input stack with frames of files, macro *)
(* calls, arguments and repeats (asz8k/ainput.c, agetline() of amisc.c),   *)
(* the recording of macros and repeats in virtual memory and the calls of  *)
(* macros (def1(), rpt1() and macro() of aascom.c, the directives of       *)
(* adirec.c).  The cells of a text are those of MacroText.  What an        *)
(* ordinary statement does is in Asz8k; here it is only noted, and its     *)
(* symbols take their place in virtual memory.                             *)
(***************************************************************************)
EXTENDS MacroText

CONSTANTS
  Programs,    \* the sources: main, files, the symbols syms, and -x (xflag)
  Opcodes,     \* the names that may be instructions or macros
  Instructions,
  INSIZ,       \* the room on the input stack, in cells
  HDR, BUF,    \* of which a frame's header and a file's buffer take these
  SLINSIZ      \* the length of a line

ASSUME MacrosAssumption ==
  /\ Instructions \subseteq Opcodes /\ {INSIZ, HDR, BUF, SLINSIZ} \subseteq Nat \ {0}

VARIABLES
  prog, pass2,
  pc,          \* "start", "read", "statement", "ended", "done", or how the program
               \* fails: "exit", "runaway" (it records to no end), "wild"
  reading,     \* no .end yet
  stk,         \* the frames, the first file first
  sline,       \* the line so far
  joined, lost,\* the lines it continues; how much of that is forgotten
  octab,       \* opcodes: the type, the highest argument and where the body is
  vm,          \* virtual memory: its cells, and where the symbols are
  deflev, curdef, rptlev, rptct, rptstr,
  condlev, truelev, mexct,
  out, errs,   \* history: the statements assembled, and errors, of this pass
  known,       \* the labels that have a value
  bodies,      \* history: the bodies as they were recorded
  odd          \* history: a line is cut, goes on behind the end of a frame's text,
               \* or loses its beginning when it is recorded

input == <<stk, sline, joined, lost>>
recording == <<deflev, curdef, rptlev, rptct, rptstr, octab, bodies>>
conditions == <<condlev, truelev>>
vars == <<prog, pass2, pc, reading, input, vm, recording, conditions, mexct, out, errs, known, odd>>

NUL == "NUL"

Init ==
  /\ prog \in Programs /\ pass2 = FALSE /\ pc = "start" /\ reading = TRUE
  /\ stk = <<>> /\ sline = <<>> /\ joined = <<>> /\ lost = 0
  /\ octab = [o \in Opcodes |-> [typ |-> IF o \in Instructions THEN "ins" ELSE "und", arg |-> 0, val |-> 0]]
  /\ vm = [cells |-> <<>>, adr |-> <<>>]
  /\ deflev = 0 /\ curdef = "-" /\ rptlev = 0 /\ rptct = 0 /\ rptstr = 0
  /\ condlev = 0 /\ truelev = 0 /\ mexct = 0
  /\ out = <<>> /\ errs = <<>> /\ known = {} /\ bodies = <<>> /\ odd = FALSE
-----------------------------------------------------------------------------
(* Frames.  in_cnt is what is left of text.                                *)
Frame(typ, text, size) == [typ |-> typ, text |-> text, at |-> 1, rpt |-> 0, args |-> <<>>, size |-> HDR + size]
FileFrame(name) == Frame("file", prog.files[name], BUF)

Top == stk[Len(stk)]
Used(s) == FoldSeq(LAMBDA f, n : n + f.size, 0, s)
Overflow(f) == Used(stk) + f.size > INSIZ      \* iovck()

(* The new frame f becomes the source of input.                            *)
Push(f) ==
  /\ stk' = Append(stk, f)
  /\ IF Overflow(f) THEN pc' = "exit" ELSE pc' = "read"

(* agetline(): one turn of its loop.                                       *)
AtEnd == Top.at > Len(Top.text)

Again(f) == f.rpt # 0
RewoundOnly(f) == [f EXCEPT !.at = 1]          \* mutant: the count stays
Rewound(f) == [f EXCEPT !.at = 1, !.rpt = @ - 1]
Rewind ==                       \* fillin(): a repeat starts again
  /\ pc = "read" /\ stk # <<>> /\ AtEnd /\ Top.typ = "rpt" /\ Again(Top)
  /\ stk' = [stk EXCEPT ![Len(stk)] = Rewound(@)]
  /\ odd' = (odd \/ joined \o sline # <<>>)
  /\ UNCHANGED <<prog, pass2, pc, reading, sline, joined, lost, vm, recording, conditions, mexct, out, errs, known>>

(* Inside a call, which has a frame of its own above this one already.     *)
Calling == Len(joined) > 2 /\ deflev = 0 /\ rptlev = 0 /\ condlev <= truelev
           /\ reading /\ joined[2] \in Opcodes /\ octab[joined[2]].typ = "macro"

Pop ==                          \* fillin(), popin()
  /\ pc = "read" /\ stk # <<>> /\ AtEnd /\ ~(Top.typ = "rpt" /\ Again(Top))
  /\ stk' = Front(stk)
  /\ pc' = IF Calling /\ Top.typ # "arg" THEN "wild" ELSE pc
  /\ odd' = (odd \/ (Top.typ # "arg" /\ joined \o sline # <<>>))
  /\ UNCHANGED <<prog, pass2, reading, sline, joined, lost, vm, recording, conditions, mexct, out, errs, known>>

Macarg ==                       \* macarg(): an argument in a macro's body
  /\ pc = "read" /\ stk # <<>> /\ ~AtEnd /\ Top.typ = "mac" /\ Top.text[Top.at] \in DOMAIN Top.args
  /\ LET f == Frame("arg", Top.args[Top.text[Top.at]], 0) IN
     /\ stk' = Append([stk EXCEPT ![Len(stk)].at = @ + 1], f)
     \* pushin() aligns insp and popin() does not take that back
     /\ pc' = IF Overflow(f) THEN "exit" ELSE IF Calling THEN "wild" ELSE pc
  /\ UNCHANGED <<prog, pass2, reading, sline, joined, lost, vm, recording, conditions, mexct, out, errs, known, odd>>

Character ==
  /\ pc = "read" /\ stk # <<>> /\ ~AtEnd /\ ~(Top.typ = "mac" /\ Top.text[Top.at] \in DOMAIN Top.args)
  /\ LET c == Top.text[Top.at]
         go == c = "NL" /\ sline # <<>> /\ Last(sline) = "\\"      \* xscanc(): a continuation
     IN  /\ stk' = [stk EXCEPT ![Len(stk)].at = @ + 1]
         /\ CASE go -> joined' = joined \o Front(sline) /\ sline' = <<>> /\ UNCHANGED pc
              [] c = "NL" /\ ~go -> pc' = "statement" /\ UNCHANGED <<sline, joined>>
              [] OTHER -> sline' = (IF Len(sline) < SLINSIZ THEN Append(sline, c) ELSE sline)
                          /\ UNCHANGED <<pc, joined>>
         \* laboc() has read the line up to here, and sline is overwritten
         /\ lost' = IF go /\ Len(joined') <= 2 THEN Len(joined') ELSE lost
         /\ odd' = (odd \/ (c # "NL" /\ Len(sline) = SLINSIZ))
  /\ UNCHANGED <<prog, pass2, reading, vm, recording, conditions, mexct, out, errs, known>>
-----------------------------------------------------------------------------
(* Statements.                                                             *)
line == joined \o sline
lab == Label(line)
op == Opcode(line)
Directives == {".macro", ".endm", ".repeat", ".endr", ".exit", ".if", ".endif", ".input", ".end"}

NextLine == sline' = <<>> /\ joined' = <<>> /\ lost' = 0
Errors(es) == errs' = IF pass2 THEN errs \o es ELSE errs

Defining == deflev > 0
Repeating == ~Defining /\ rptlev > 0
Skipping == ~Defining /\ ~Repeating /\ condlev > truelev
Assembling == pc = "statement" /\ reading /\ ~Defining /\ ~Repeating /\ ~Skipping
Assembles(o) == Assembling /\ op = o

Virtop(v) == Len(v.cells) + 1
Vmalloc(v, cs) == [v EXCEPT !.cells = @ \o cs]

(* sylook() and xref(): a new symbol, and with -x a note of every use.     *)
Sylook(v, s) == IF s = "-" \/ s \in DOMAIN v.adr THEN v
                ELSE [Vmalloc(v, <<s>>) EXCEPT !.adr = @ @@ (s :> Virtop(v))]
Xref(v, s) == IF s # "-" /\ prog.xflag /\ pass2 THEN Vmalloc(v, <<"xref">>) ELSE v
Uses(v, cs) == FoldLeft(LAMBDA w, s : Xref(Sylook(w, s), s), v, SelectSeq(cs, LAMBDA c : c \in prog.syms))

(* The cells from a up to the end of a recorded text.                      *)
Recorded(v, a) ==
  SubSeq(v.cells, a, TheFirst({i \in a .. Len(v.cells) : v.cells[i] = NUL}) - 1)

(* def1(): a body as it is recorded, with marks in place of ?0 and so on.  *)
Mark(c) == "arg" \o c
Marks == {Mark(c) : c \in DOMAIN Params \cup {"?#", "??"}}
RECURSIVE Marked(_)
Marked(t) ==
  CASE t = <<>> -> <<>>
    [] t[1] = "\\" -> <<t[2]>> \o Marked(From(t, 3))
    [] Mark(t[1]) \in Marks -> <<Mark(t[1])>> \o Marked(Tail(t))
    [] OTHER -> <<t[1]>> \o Marked(Tail(t))
HighestMark(cs, n) ==
  LET s == {n} \cup {Params[c] : c \in {p \in DOMAIN Params : Mark(p) \in Range(cs)}}
  IN  CHOOSE m \in s : \A k \in s : k <= m

Level(n, up, down) == IF op = up THEN n + 1 ELSE IF op = down THEN n - 1 ELSE n

Def1 ==
  /\ pc = "statement" /\ reading /\ Defining
  /\ deflev' = Level(deflev, ".macro", ".endm")
  /\ LET new == IF deflev' > 0 THEN Append(Marked(From(line, lost + 1)), "NL") ELSE <<NUL>> IN
     /\ vm' = Vmalloc(vm, new)
     /\ octab' = [octab EXCEPT ![curdef].arg = HighestMark(new, @)]
     /\ bodies' = IF deflev' > 0 THEN [bodies EXCEPT ![curdef] = @ \o new] ELSE bodies
  /\ odd' = (odd \/ lost > 0)
  /\ pc' = "read" /\ NextLine
  /\ UNCHANGED <<prog, pass2, reading, stk, curdef, rptlev, rptct, rptstr, conditions, mexct, out, errs, known>>

Rpt1 ==
  /\ pc = "statement" /\ reading /\ Repeating
  /\ rptlev' = Level(rptlev, ".repeat", ".endr")
  /\ IF rptlev' > 0
     THEN vm' = Vmalloc(vm, Append(From(line, lost + 1), "NL")) /\ pc' = "read" /\ UNCHANGED stk
     ELSE LET text == Recorded(Vmalloc(vm, <<NUL>>), rptstr)
              f == [Frame("rpt", text, Len(text)) EXCEPT !.at = Len(text) + 1, !.rpt = rptct]
          IN  /\ Push(f)
              /\ vm' = [vm EXCEPT !.cells = SubSeq(@, 1, rptstr - 1)]
  /\ odd' = (odd \/ lost > 0) /\ NextLine
  /\ UNCHANGED <<prog, pass2, reading, deflev, curdef, rptct, rptstr, octab, bodies, conditions, mexct, out, errs, known>>

Skip1 ==
  /\ pc = "statement" /\ reading /\ Skipping
  /\ condlev' = Level(condlev, ".if", ".endif")
  /\ pc' = "read" /\ NextLine
  /\ UNCHANGED <<prog, pass2, reading, stk, vm, recording, truelev, mexct, out, errs, known, odd>>

Drain ==                        \* behind .end
  /\ pc = "statement" /\ ~reading
  /\ pc' = "read" /\ NextLine
  /\ UNCHANGED <<prog, pass2, reading, stk, vm, recording, conditions, mexct, out, errs, known, odd>>

Ordinary ==                     \* an instruction, or a label or nothing by itself
  /\ Assembling /\ (op = "-" \/ (op \in Opcodes /\ octab[op].typ = "ins"))
  /\ vm' = Uses(Xref(Sylook(vm, lab), lab), Rest(line))
  /\ known' = known \cup ({lab} \ {"-"})
  /\ out' = IF op = "-" /\ lab = "-" THEN out ELSE Append(out, IF op = "-" THEN <<lab>> ELSE line)
  /\ pc' = "read" /\ NextLine
  /\ UNCHANGED <<prog, pass2, reading, stk, recording, conditions, mexct, errs, odd>>

Undefined ==                    \* no such opcode, and .endm and .endr by themselves
  /\ Assembling /\ op # "-"
  /\ (IF op \in Opcodes THEN octab[op].typ = "und" ELSE op \in {".endm", ".endr"} \/ op \notin Directives)
  /\ vm' = (IF op \in Directives THEN Sylook(vm, lab) ELSE vm)
  /\ Errors(<<"O">>) /\ pc' = "read" /\ NextLine
  /\ UNCHANGED <<prog, pass2, reading, stk, recording, conditions, mexct, out, known, odd>>

MacroDef ==                     \* .macro
  /\ Assembles(".macro")
  /\ IF lab = "-" THEN Errors(<<"L">>) /\ UNCHANGED <<deflev, curdef, octab, bodies>>
     ELSE /\ octab' = [octab EXCEPT ![lab] = [typ |-> "macro", arg |-> 0, val |-> Virtop(vm)]]
          /\ deflev' = deflev + 1 /\ curdef' = lab
          /\ bodies' = (lab :> <<>>) @@ bodies
          /\ UNCHANGED errs
  /\ pc' = "read" /\ NextLine
  /\ UNCHANGED <<prog, pass2, reading, stk, vm, rptlev, rptct, rptstr, conditions, mexct, out, known, odd>>

(* The operand of .repeat and .if: a number, a label or an unknown symbol. *)
Operand ==
  CASE Rest(line) = <<>> -> [val |-> 0, err |-> <<"S">>]
    [] Rest(line)[1] \in Range(Digits) ->
         [val |-> (CHOOSE k \in 1 .. 10 : Digits[k] = Rest(line)[1]) - 1, err |-> <<>>]
    [] Rest(line)[1] \in known -> [val |-> 0, err |-> <<"E">>]
    [] OTHER -> [val |-> 0, err |-> <<"U">>]

RptstrEarly(before, after) == Virtop(before)   \* mutant: the start is not set again
Rptstr(before, after) == Virtop(after)
Repeat ==                       \* .repeat
  /\ Assembles(".repeat")
  /\ rptlev' = rptlev + 1
  /\ rptct' = IF Operand.err \in {<<"E">>, <<"S">>} THEN 1 ELSE Operand.val
  /\ LET v == Sylook(vm, lab) IN
     /\ vm' = Uses(v, Rest(line))
     /\ rptstr' = Rptstr(v, vm')
  /\ Errors(Operand.err) /\ pc' = "read" /\ NextLine
  /\ UNCHANGED <<prog, pass2, reading, stk, deflev, curdef, octab, bodies, conditions, mexct, out, known, odd>>

ExitsMac == {"mac"}             \* mutant: not out of a repeat
Exits == {"mac", "rpt"}
Exit ==                         \* .exit
  /\ Assembles(".exit")
  /\ IF stk # <<>> /\ Top.typ \in Exits THEN stk' = Front(stk) /\ UNCHANGED errs
     ELSE Errors(<<"O">>) /\ UNCHANGED stk
  /\ vm' = Sylook(vm, lab) /\ pc' = "read" /\ NextLine
  /\ UNCHANGED <<prog, pass2, reading, recording, conditions, mexct, out, known, odd>>

If ==                           \* .if
  /\ Assembles(".if")
  /\ condlev' = condlev + 1 /\ truelev' = truelev + (IF Operand.val # 0 THEN 1 ELSE 0)
  /\ vm' = Uses(Sylook(vm, lab), Rest(line))
  /\ Errors(Operand.err) /\ pc' = "read" /\ NextLine
  /\ UNCHANGED <<prog, pass2, reading, stk, recording, mexct, out, known, odd>>

Endif ==                        \* .endif
  /\ Assembles(".endif")
  /\ IF condlev > 0 THEN condlev' = condlev - 1 /\ truelev' = truelev - 1 /\ UNCHANGED errs
     ELSE Errors(<<"C">>) /\ UNCHANGED conditions
  /\ vm' = Sylook(vm, lab) /\ pc' = "read" /\ NextLine
  /\ UNCHANGED <<prog, pass2, reading, stk, recording, mexct, out, known, odd>>

Input ==                        \* .input
  /\ Assembles(".input")
  /\ IF Rest(line)[1] \in DOMAIN prog.files THEN Push(FileFrame(Rest(line)[1])) /\ UNCHANGED errs
     ELSE Errors(<<"E">>) /\ pc' = "read" /\ UNCHANGED stk
  /\ vm' = Sylook(vm, lab) /\ NextLine
  /\ UNCHANGED <<prog, pass2, reading, recording, conditions, mexct, out, known, odd>>

End ==                          \* .end
  /\ Assembles(".end") /\ reading' = FALSE
  /\ vm' = Sylook(vm, lab) /\ pc' = "read" /\ NextLine
  /\ UNCHANGED <<prog, pass2, stk, recording, conditions, mexct, out, errs, known, odd>>

(* macro(): an operand and what follows it, r being what is left of the    *)
(* line.  In braces, brlev of which are open, an escape is taken off.      *)
RECURSIVE Braced(_, _), Operands(_, _, _)
Braced(r, brlev) ==
  IF r = <<>> THEN <<<<>>, r>>
  ELSE LET lev == CASE r[1] = "{" -> brlev + 1 [] r[1] = "}" -> brlev - 1 [] OTHER -> brlev
           k == IF r[1] = "\\" /\ Len(r) > 1 THEN 2 ELSE 1
       IN  IF lev <= 0 THEN <<<<>>, Tail(r)>>
           ELSE The({<<<<r[k]>> \o x[1], x[2]>> : x \in {Braced(From(r, k + 1), lev)}})
Bare(r) ==
  LET e == TheFirst({i \in 1 .. Len(r) + 1 : i > Len(r) \/ r[i] = ","}) IN <<SubSeq(r, 1, e - 1), From(r, e)>>
Operand1(r) ==
  The({<<x[1], IF x[2] # <<>> /\ x[2][1] = "," THEN Tail(x[2]) ELSE x[2]>> :
         x \in {IF r # <<>> /\ r[1] = "{" THEN Braced(Tail(r), 1) ELSE Bare(r)}})

(* The arguments i and on, n of which the macro expects; the others are    *)
(* put together in one, in braces.                                         *)
WithExtra(arg, extra) == <<"{">> \o arg \o <<"}">> \o (IF extra = <<>> THEN <<>> ELSE <<",">> \o extra)
Operands(r, i, n) ==
  IF i > n /\ r = <<>> THEN [args |-> <<>>, extra |-> <<>>]
  ELSE The({IF i <= n THEN [y[2] EXCEPT !.args = ("arg?" \o Digits[i + 1] :> y[1]) @@ @]
            ELSE [y[2] EXCEPT !.extra = WithExtra(y[1], @)] :
              y \in {<<x[1], Operands(x[2], i + 1, n)>> : x \in {Operand1(r)}}})

Call ==
  /\ Assembling /\ op \in Opcodes /\ octab[op].typ = "macro"
  /\ mexct' = mexct + 1
  /\ LET o == Operands(Rest(line), 1, octab[op].arg)
         args == o.args @@ ("arg?#" :> <<ToString(mexct')>>) @@ ("arg??" :> o.extra)
                        @@ ("arg?0" :> IF lab = "-" THEN <<>> ELSE <<lab>>)
         text == Recorded(vm, octab[op].val)
         size == octab[op].arg + 3 + Len(text) + FoldSet(LAMBDA a, n : n + Len(args[a]) + 1, 0, DOMAIN args)
     IN  Push([Frame("mac", text, size) EXCEPT !.args = args])
  /\ NextLine
  /\ UNCHANGED <<prog, pass2, reading, vm, recording, conditions, out, errs, known, odd>>
-----------------------------------------------------------------------------
(* The passes.                                                             *)
StartPass ==                    \* dopass()
  /\ pc = "start"
  /\ Push(FileFrame(prog.main))
  /\ reading' = TRUE /\ deflev' = 0 /\ rptlev' = 0 /\ condlev' = 0 /\ truelev' = 0 /\ mexct' = 0
  /\ out' = <<>> /\ errs' = <<>>
  /\ UNCHANGED <<prog, pass2, sline, joined, lost, vm, curdef, rptct, rptstr, octab, bodies, known, odd>>

(* The end of the input: agetline() drops a line that has no end.  def1()  *)
(* and rpt1() look for the end of a line that never comes.                 *)
EndOfInput ==
  /\ pc = "read" /\ stk = <<>>
  /\ pc' = IF reading /\ (Defining \/ Repeating) THEN "runaway" ELSE "ended"
  /\ NextLine
  /\ UNCHANGED <<prog, pass2, reading, stk, vm, recording, conditions, mexct, out, errs, known, odd>>

NextPass ==                     \* main()
  /\ pc = "ended"
  /\ IF pass2 THEN pc' = "done" /\ UNCHANGED pass2 ELSE pc' = "start" /\ pass2' = TRUE
  /\ UNCHANGED <<prog, reading, input, vm, recording, conditions, mexct, out, errs, known, odd>>

Read == Rewind \/ Pop \/ Macarg \/ Character \/ EndOfInput
Statement ==
  \/ Def1 \/ Rpt1 \/ Skip1 \/ Drain \/ Ordinary \/ Undefined \/ MacroDef \/ Repeat
  \/ Exit \/ If \/ Endif \/ Input \/ End \/ Call
Next == StartPass \/ Read \/ Statement \/ NextPass

Spec == Init /\ [][Next]_vars /\ WF_vars(Next)
-----------------------------------------------------------------------------
(* Properties.                                                             *)

(* Each pass assembles the statements that the text stands for: calls,     *)
(* with their arguments, repeats and included files are expanded in their  *)
(* place, however they are nested, .exit leaves the innermost of them, and *)
(* pass 2 finds the errors.  The passes may differ where a macro is used   *)
(* before it is defined or is defined twice.                               *)
ExpandsRight ==
  pc = "ended" /\ ~odd =>
    LET m == Expand(prog.files, Fresh([o \in Opcodes |-> [typ |-> IF o \in Instructions THEN "ins" ELSE "und", body |-> <<>>]]),
                    prog.files[prog.main], "file", INSIZ \div HDR + 2)
    IN  ~pass2 \/ ~m.unclear => out = m.out /\ (pass2 => errs = m.errs)

(* What lies in virtual memory stays there: every macro's body is found as *)
(* it was recorded and every symbol where it was put, although a repeat    *)
(* gives its room back while symbols and notes of their uses are added.    *)
BodiesKept ==
  /\ \A s \in DOMAIN vm.adr : vm.adr[s] < Virtop(vm) /\ vm.cells[vm.adr[s]] = s
  /\ \A m \in DOMAIN bodies :
       ~(Defining /\ m = curdef) => Recorded(vm, octab[m].val) = bodies[m]

(* The assembler comes to an end: repeats run out, and a macro or a file   *)
(* that comes up in itself fills the input stack.                          *)
ComesToAnEnd == <>(pc \in {"done", "exit", "runaway", "wild"})
=============================================================================
