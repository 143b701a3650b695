----------------------------- MODULE MacroText -----------------------------
(***************************************************************************)
(* What a source text with macros, repeats and included files means to     *)
(* asz8k: the statements that are assembled, in their order.  Texts are    *)
(* expanded by recursion; there is no input stack, no recorded form of a   *)
(* body and one pass only.                                                 *)
(*                                                                         *)
(* A text is a sequence of cells, which stand for words and signs; "NL"    *)
(* ends a line, "-" is the white space in front of a line without a label, *)
(* and "\\" in front of "NL" continues the line.                           *)
(***************************************************************************)
EXTENDS Integers, SequencesExt, TLC

Digits == <<"0", "1", "2", "3", "4", "5", "6", "7", "8", "9">>
Params == [c \in {"?0", "?1", "?2", "?3"} |-> CHOOSE k \in 0 .. 3 : c = "?" \o Digits[k + 1]]

TheFirst(S) == CHOOSE i \in S : \A j \in S : i <= j
From(t, i) == SubSeq(t, i, Len(t))
Label(l) == IF l = <<>> \/ l[1] = "-" THEN "-" ELSE l[1]
Opcode(l) == IF Len(l) < 2 THEN "-" ELSE l[2]
Rest(l) == From(l, 3)

The(S) == CHOOSE x \in S : TRUE      \* of a set of one: an expression is evaluated once

RECURSIVE Lines(_)
Lines(t) ==                     \* the lines of t, continued ones joined
  LET ends == {i \in DOMAIN t : t[i] = "NL" /\ (i = 1 \/ t[i - 1] # "\\")}
      e == IF ends = {} THEN Len(t) + 1 ELSE TheFirst(ends)
      IsBreak(i) == t[i] = "NL" \/ (t[i] = "\\" /\ i + 1 < e /\ t[i + 1] = "NL")
  IN  IF t = <<>> THEN <<>>
      ELSE <<[k \in 1 .. Len(SelectSeq([i \in 1 .. e - 1 |-> i], LAMBDA i : ~IsBreak(i))) |->
                t[SelectSeq([i \in 1 .. e - 1 |-> i], LAMBDA i : ~IsBreak(i))[k]]]>>
             \o Lines(From(t, e + 1))

Escaped(t, i) ==                \* a cell behind a "\\" that is not escaped
  LET run == {j \in 1 .. i : \A k \in j .. i - 1 : t[k] = "\\"} IN (i - TheFirst(run)) % 2 = 1

(* The arguments of a call: each is a text up to the next comma, or one in *)
(* braces, without them and without the escapes in it.                     *)
RECURSIVE Arguments(_)
Arguments(r) ==
  LET depth(i) == LET live == {j \in 1 .. i : ~Escaped(r, j)}
                  IN  Cardinality({j \in live : r[j] = "{"}) - Cardinality({j \in live : r[j] = "}"})
      close == {i \in DOMAIN r : depth(i) = 0}
      comma == {i \in DOMAIN r : r[i] = ","}
      braced == r # <<>> /\ r[1] = "{"
      e == LET s == IF braced THEN close ELSE comma IN IF s = {} THEN Len(r) + 1 ELSE TheFirst(s)
      inner == IF braced THEN SelectSeq([i \in 1 .. e - 1 |-> i],
                                        LAMBDA i : i > 1 /\ ~(r[i] = "\\" /\ ~Escaped(r, i)))
               ELSE [i \in 1 .. e - 1 |-> i]
      next == IF braced /\ e + 1 \in comma THEN e + 2 ELSE e + 1
  IN  IF r = <<>> THEN <<>>
      ELSE <<[k \in DOMAIN inner |-> r[inner[k]]]>> \o Arguments(From(r, next))

Live(body) == {i \in DOMAIN body : ~Escaped(body, i)}
Highest(body) == LET s == {Params[body[i]] : i \in {j \in Live(body) : body[j] \in DOMAIN Params}}
                 IN  IF s = {} THEN 0 ELSE CHOOSE m \in s : \A k \in s : k <= m

(* The text of a call: the body with the arguments in place, ?# the number *)
(* of the call, ?0 its label and ?? the arguments beyond the highest that  *)
(* the body names, in braces.                                              *)
Instance(body, count, lab, args) ==
  LET arg(k) == CASE k = 0 -> IF lab = "-" THEN <<>> ELSE <<lab>>
                  [] k > Len(args) -> <<>>
                  [] OTHER -> args[k]
      extra == From(args, Highest(body) + 1)
      all == FlattenSeq([i \in DOMAIN extra |->
                           (IF i = 1 THEN <<"{">> ELSE <<",", "{">>) \o extra[i] \o <<"}">>])
  IN  FlattenSeq([i \in DOMAIN body |->
        CASE ~Escaped(body, i) /\ body[i] = "\\" -> <<>>
          [] Escaped(body, i) -> <<body[i]>>
          [] body[i] = "?#" -> <<ToString(count)>>
          [] body[i] = "??" -> all
          [] body[i] \in DOMAIN Params -> arg(Params[body[i]])
          [] OTHER -> <<body[i]>>])
-----------------------------------------------------------------------------
(* Expansion.  e.rec is the definition that is being read, if there is     *)
(* one; e.unclear is set where the two passes may differ.                  *)
NoRec == [kind |-> "none"]
Fresh(ops) == [ops |-> ops, rec |-> NoRec, open |-> 0, true |-> 0, count |-> 0, known |-> {},
               out |-> <<>>, errs |-> <<>>, ended |-> FALSE, left |-> FALSE, unclear |-> FALSE]

Err(e, c) == [e EXCEPT !.errs = Append(@, c)]

RECURSIVE Expand(_, _, _, _, _), Times(_, _, _, _, _)

(* A definition: the lines up to the directive that closes it, with those  *)
(* of the same kind in between paired.                                     *)
Define(files, e, l, n) ==
  LET r == e.rec
      d == r.depth + (IF Opcode(l) = r.opens THEN 1 ELSE 0) - (IF Opcode(l) = r.closes THEN 1 ELSE 0)
  IN  CASE d > 0 -> [e EXCEPT !.rec.depth = d, !.rec.body = @ \o l \o <<"NL">>]
        [] r.kind = "macro" ->
             [e EXCEPT !.rec = NoRec, !.ops = [@ EXCEPT ![r.name] = [typ |-> "macro", body |-> r.body]],
                       !.unclear = @ \/ e.ops[r.name].typ # "und"]
        [] OTHER -> Times(files, [e EXCEPT !.rec = NoRec], r.body, r.times, n)

Number(e, r) ==                 \* an operand: a digit, or a symbol
  CASE r = <<>> -> [val |-> 0, err |-> "S"]
    [] r[1] \in Range(Digits) -> [val |-> (CHOOSE k \in 1 .. 10 : Digits[k] = r[1]) - 1, err |-> "-"]
    [] r[1] \in e.known -> [val |-> 0, err |-> "E"]
    [] OTHER -> [val |-> 0, err |-> "U"]

Assemble(files, e, l, kind, n) ==
  LET lab == Label(l)
      op == Opcode(l)
      v == Number(e, Rest(l))
      w == [(IF v.err = "-" THEN e ELSE Err(e, v.err)) EXCEPT !.unclear = @ \/ v.err = "U"]
  IN CASE op = "-" -> IF lab = "-" THEN e ELSE [e EXCEPT !.out = Append(@, <<lab>>), !.known = @ \cup {lab}]
       [] op = ".macro" ->
            IF lab = "-" THEN Err(e, "L")
            ELSE [e EXCEPT !.rec = [kind |-> "macro", name |-> lab, opens |-> ".macro",
                                    closes |-> ".endm", depth |-> 1, body |-> <<>>]]
       [] op = ".repeat" ->
            [w EXCEPT !.rec = [kind |-> "repeat", times |-> IF v.err \in {"E", "S"} THEN 1 ELSE v.val,
                               opens |-> ".repeat", closes |-> ".endr", depth |-> 1, body |-> <<>>]]
       [] op = ".if" -> [w EXCEPT !.open = @ + 1, !.true = @ + (IF v.val # 0 THEN 1 ELSE 0)]
       [] op = ".endif" -> IF e.open = 0 THEN Err(e, "C") ELSE [e EXCEPT !.open = @ - 1, !.true = @ - 1]
       [] op = ".exit" -> IF kind = "file" THEN Err(e, "O") ELSE [e EXCEPT !.left = TRUE]
       [] op = ".end" -> [e EXCEPT !.ended = TRUE]
       [] op = ".input" -> IF Rest(l)[1] \in DOMAIN files
                           THEN Expand(files, e, files[Rest(l)[1]], "file", n - 1) ELSE Err(e, "E")
       [] op \notin DOMAIN e.ops -> Err(e, "O")
       [] e.ops[op].typ = "ins" ->
            [e EXCEPT !.out = Append(@, l), !.known = IF lab = "-" THEN @ ELSE @ \cup {lab}]
       [] e.ops[op].typ = "macro" ->
            LET t == Instance(e.ops[op].body, e.count + 1, lab, Arguments(Rest(l)))
            IN  The({[d EXCEPT !.left = FALSE] :
                       d \in {Expand(files, [e EXCEPT !.count = @ + 1], t, "macro", n - 1)}})
       [] OTHER -> [Err(e, "O") EXCEPT !.unclear = TRUE]

Line(files, e, l, kind, n) ==
  CASE e.ended \/ e.left -> e
    [] e.rec # NoRec -> Define(files, e, l, n)
    [] e.open > e.true -> [e EXCEPT !.open = @ + (CASE Opcode(l) = ".if" -> 1 [] Opcode(l) = ".endif" -> -1
                                                   [] OTHER -> 0)]
    [] OTHER -> Assemble(files, e, l, kind, n)

Expand(files, e, t, kind, n) ==
  IF n <= 0 THEN e
  ELSE LET ls == Lines(t)
           f[i \in 0 .. Len(ls)] ==
             IF i = 0 THEN e ELSE The({Line(files, d, ls[i], kind, n) : d \in {f[i - 1]}})
       IN  f[Len(ls)]

Times(files, e, t, k, n) ==     \* a repeat; .exit leaves all the rest of it
  IF k = 0 \/ e.left \/ e.ended THEN [e EXCEPT !.left = FALSE]
  ELSE The({Times(files, d, t, k - 1, n) : d \in {Expand(files, e, t, "repeat", n - 1)}})
=============================================================================
