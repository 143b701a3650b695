-------------------------------- MODULE Cpp --------------------------------
(***************************************************************************)
(* cpp68, the preprocessor (src/cpp/macro.c, lex.c).  domacro() calls      *)
(* getaline() for one output line at a time.  getaline() obeys the         *)
(* directives and copies text; a macro is expanded by pushing its body     *)
(* back in front of the input, where gettok() finds it again.              *)
(*                                                                         *)
(* Characters are abstracted to tokens: an identifier, a number, or a      *)
(* punctuation character ("ws" a blank, "nl" a newline, "q" a quote that   *)
(* nothing closes).  Two identifiers never touch, so that pushing text     *)
(* back cannot glue them.  A quoted file name is one token.                *)
(*                                                                         *)
(* A program is a set of files, each a sequence of lines.                  *)
(***************************************************************************)
EXTENDS CppMeaning

CONSTANTS
    Programs,       \* the inputs: functions from file names to sequences of lines
    Main,           \* the file on the command line
    MaxDepth,       \* expansions without reading the file (100)
    MaxArgs,        \* MAXARGS
    PbSize,         \* PBSIZE
    CStkSize,       \* CSTKSIZE
    FStack          \* FSTACK

VARIABLES
    program,    \* the files
    in,         \* the reader, the line being built, and the output
    defs,       \* symtab[]: the macros, each its count byte and its text
    labels,     \* clabel and nlabel
    skip,       \* the count skip
    cstk,       \* cstack[]
    infile,     \* the parameter of getaline(), for __FILE__
    pc          \* "start", "dir", "text", "end", "done" or "exit"

vars == <<program, in, defs, labels, skip, cstk, infile, pc>>

-----------------------------------------------------------------------------
(* The reader: the open files, the push back buffer, the output position.  *)

File(r) == Last(r.frames)
Error(r, what) == [r EXCEPT !.errs = @ \cup {what}]
ToLine(r, toks) == [r EXCEPT !.line = @ \o toks]        \* ppputl()
BumpLine(r) == [r EXCEPT !.frames[Len(r.frames)].lineno = @ + 1]

\* history: the counts that the code has just lost, "lineno" of the file or
\* "shown" of the output, or "lines" if one line of a file becomes two
Loses(r, what) == [r EXCEPT !.lost = @ \cup what]

\* putid(): the next output line is line n of file f
Putid(r, f, n) == [r EXCEPT !.shown = [file |-> f, line |-> n],
                            !.litNum = IF r.literal THEN n ELSE @,
                            !.lost = IF "lineno" \in @ THEN @ \cup {"shown"} ELSE @ \ {"shown"}]

PutBack(r, toks) == [r EXCEPT !.pb = toks \o @]

\* mutant: the #include line itself is not counted
LeaveUncounted(r) == LET s == [r EXCEPT !.frames = Front(@)]
                     IN  Putid(s, File(s).name, File(s).lineno)

\* at the end of an include file, back to the file that included it
LeaveFile(r) == LET s == BumpLine([r EXCEPT !.frames = Front(@)])
                IN  Putid(s, File(s).name, File(s).lineno)

RECURSIVE Ngetch(_)
Ngetch(r) ==
    LET f == File(r)
        c == Head(f.rest)
    IN  IF r.pb # <<>> THEN [r EXCEPT !.tok = Head(r.pb), !.pb = Tail(@)]
        ELSE IF f.rest # <<>>
             THEN [r EXCEPT !.flag = 0, !.tok = c,
                            !.frames[Len(r.frames)] =
                                [@ EXCEPT !.rest = Tail(@),
                                          !.at = IF c = "nl" THEN @ + 1 ELSE @]]
        ELSE IF Len(r.frames) = 1 THEN [r EXCEPT !.flag = 0, !.tok = "eof"]
        ELSE Ngetch(LeaveFile(r))

\* a newline inside a comment is counted in the main file only
HiddenNewline(r) ==
    IF Len(r.frames) = 1 /\ r.pb = <<>> THEN BumpLine(r) ELSE Loses(r, {"lineno"})

RECURSIVE Comment(_)
Comment(s) ==                       \* s: the token before
    CASE s.tok = "*/" -> s
      [] s.tok = "eof" -> Error(s, "no */")
      [] s.tok = "nl" -> Comment(Ngetch([HiddenNewline(s) EXCEPT !.shown.line = @ + 1]))
      [] OTHER -> Comment(Ngetch(s))

RECURSIVE RestOfLine(_)
RestOfLine(s) == IF s.tok \in {"nl", "eof"} THEN s ELSE RestOfLine(Ngetch(s))

\* getstr(): a quote without an end is put on the output line as it is
RECURSIVE OpenQuote(_)
OpenQuote(s) == IF s.tok \in {"nl", "eof"} THEN [s EXCEPT !.tok = "nl"]
                ELSE OpenQuote(Ngetch(ToLine(s, <<s.tok>>)))

\* the blank for a comment; without an end it leaves the lines uncounted
CommentDone(c, lineno) ==
    [c EXCEPT !.tok = "ws", !.frames[1].lineno = IF c.tok = "eof" THEN lineno ELSE @]

\* the character behind a word is looked at
WordDone(next, word) == [PutBack(next, <<next.tok>>) EXCEPT !.tok = word]

Token(s) ==
    CASE IsWord(s.tok) -> WordDone(Ngetch(s), s.tok)
      [] s.tok = "/*" -> CommentDone(Comment(Ngetch(s)), s.frames[1].lineno)
      [] s.tok = "//" -> [RestOfLine(Ngetch(s)) EXCEPT !.tok = "nl"]
      [] s.tok = "q" -> OpenQuote(s)
      [] OTHER -> s

Gettok(r) == Token(Ngetch(r))

RECURSIVE NoBlank(_)
NoBlank(s) == IF s.tok = "ws" THEN NoBlank(Gettok(s)) ELSE s

Getntok(r) == NoBlank(Gettok(r))

RECURSIVE EatupFrom(_)
EatupFrom(s) == IF s.tok \in {"nl", "eof"} THEN s ELSE EatupFrom(Gettok(s))

Eatup(r) == EatupFrom(Gettok(r))

\* pbtok() of the last token: the end of the file has no characters
Unget(r) == IF r.tok = "eof" THEN r ELSE PutBack(r, <<r.tok>>)

-----------------------------------------------------------------------------
(* Macros.  The text of a macro begins with its count byte; an argument    *)
(* in it is one of Formal.                                                 *)

Formal == <<"@1", "@2", "@3">>
Count == <<"#0", "#1", "#2", "#3">>
NumberIn(arg) == IF arg # <<>> /\ arg[1] \in Numbers THEN ValueOf[arg[1]] ELSE 0

\* getaarg(): an actual argument, up to "," or ")" outside parentheses; s
\* holds the token to look at.  A newline goes to the output, uncounted.
RECURSIVE Getaarg(_, _, _)
Getaarg(s, level, arg) ==
    LET t == s.tok
        deeper == CASE t = "(" -> level + 1 [] t = ")" -> level - 1 [] OTHER -> level
    IN  IF t \in {",", ")"} /\ level = 0
        THEN [r |-> s, arg |-> arg, more |-> t = "," /\ arg # <<>>, empty |-> arg = <<>>]
        ELSE IF t = "eof"
             THEN [r |-> [Error(s, "unexpected EOF") EXCEPT !.exit = TRUE],
                   arg |-> arg, more |-> FALSE, empty |-> TRUE]
        ELSE IF t = "nl" THEN Getaarg(Gettok(Loses(ToLine(s, <<"nl">>), {"lineno"})), level, arg)
        ELSE Getaarg(Gettok(s), deeper, Append(arg, t))

\* an empty argument ends the list: getaarg() returns CEOF for it
RECURSIVE Actuals(_, _)
Actuals(a, args) ==
    IF a.empty THEN [r |-> a.r, args |-> args, ok |-> TRUE]
    ELSE IF Len(args) >= MaxArgs
         THEN [r |-> Error(a.r, "too many arguments"), args |-> args, ok |-> FALSE]
    ELSE IF a.more THEN Actuals(Getaarg(Gettok(a.r), 0, <<>>), Append(args, a.arg))
    ELSE [r |-> a.r, args |-> Append(args, a.arg), ok |-> TRUE]

\* the arguments of a macro that takes them; what follows the name decides
Follows(s) == IF s.tok = "(" THEN Actuals(Getaarg(Gettok(s), 0, <<>>), <<>>)
              ELSE [r |-> Unget(s), args |-> <<>>, ok |-> TRUE]

Collect(r, text) ==
    IF text[1] = "NOARGS" THEN [r |-> r, args |-> <<>>, ok |-> TRUE] ELSE Follows(Getntok(r))

Substitute(text, args) ==
    LET Arg(t) == CHOOSE k \in DOMAIN Formal : Formal[k] = t
        Part(t) == IF t \notin Range(Formal) THEN <<t>>
                   ELSE IF Arg(t) <= Len(args) THEN args[Arg(t)] ELSE <<>>
    IN  FlattenSeq([k \in DOMAIN text |-> Part(text[k])])

\* mutant: the text goes behind what was pushed back before
PushBehind(r, toks) == [r EXCEPT !.pb = @ \o toks]

PushText(r, toks) ==
    IF Len(r.pb) + Len(toks) > PbSize
    THEN [Error(r, "too many characters pushed back") EXCEPT !.exit = TRUE]
    ELSE PutBack(r, toks)

\* mutant: the expansions are not counted
NotCounted(r) == r

\* pbflag++
Counted(r) == [r EXCEPT !.flag = @ + 1]

\* history: the newline of a continued macro ends a line of the output, which
\* in an include file is counted as one of the file
Doubled(r) == Loses(r, {"lines", "shown"} \cup (IF Len(r.frames) > 1 THEN {"lineno"} ELSE {}))

\* expand(), with the arguments c: the result is the reader and the labels
ExpandWith(c, text, labs) ==
    LET n == IF c.args = <<>> THEN 0 ELSE NumberIn(c.args[1])
    IN  IF ~c.ok \/ c.r.exit THEN [r |-> c.r, labels |-> labs]
        ELSE IF text[1] = "NEWLABEL"
             THEN [r |-> c.r, labels |-> [c |-> labs.n,
                                          n |-> labs.n + (IF c.args = <<>> THEN 1 ELSE n)]]
        ELSE IF text[1] = "LABEL"
             THEN [r |-> PushText(c.r, <<"_L" \o ToString(labs.c + n)>>), labels |-> labs]
        ELSE [r |-> PushText(IF "nl" \in Range(text) THEN Doubled(c.r) ELSE c.r,
                             Substitute(Tail(text), c.args)),
              labels |-> labs]

Expand(r, ds, labs, name) ==
    IF r.flag > MaxDepth THEN [r |-> Error(Counted(r), "define recursion"), labels |-> labs]
    ELSE IF ds[name] = <<name>> THEN [r |-> ToLine(Counted(r), <<name>>), labels |-> labs]
    ELSE ExpandWith(Collect(Counted(r), ds[name]), ds[name], labs)

-----------------------------------------------------------------------------
(* #define.                                                                *)

\* getfarg(): the next name between the parentheses, behind a comma or not
Checked(s, comma) ==
    IF ~IsId(s.tok) /\ (comma \/ s.tok # ")") THEN Error(s, "bad argument") ELSE s
FormalAt(s) == IF s.tok = "," THEN Checked(Getntok(s), TRUE) ELSE Checked(s, FALSE)
Getfarg(r) == FormalAt(Getntok(r))

RECURSIVE Formals(_, _)
Formals(s, names) ==
    IF s.tok = ")" THEN [r |-> s, names |-> names]
    ELSE IF Len(names) >= MaxArgs THEN [r |-> Error(s, "too many arguments"), names |-> names]
    ELSE Formals(Getfarg(s), Append(names, s.tok))

\* trymatch(): a formal argument becomes its number
Marked(t, names) ==
    LET at == {k \in DOMAIN names : names[k] = t}
    IN  IF at = {} THEN t ELSE Formal[CHOOSE k \in at : \A j \in at : k <= j]

\* the rest of the line is the text; a backslash takes the next character along
RECURSIVE DefineText(_, _, _)
DefineText(r, names, text) ==
    LET c == Ngetch(r)
        after == IF c.tok # "nl" THEN c
                 ELSE IF Len(c.frames) = 1 /\ c.pb = <<>>
                      THEN [BumpLine(c) EXCEPT !.shown.line = @ + 1]
                 ELSE Loses(c, {"lineno", "shown"})
    IN  IF r.tok \in {"nl", "eof"} THEN [r |-> Unget(r), text |-> text]
        ELSE IF r.tok = "\\" THEN DefineText(Gettok(after), names, Append(text, c.tok))
        ELSE DefineText(Gettok(r), names, Append(text, Marked(r.tok, names)))

\* dodefine(), from the end: the reader and the macros afterwards
Dotext(name, count, d, ds) == [r |-> d.r, defs |-> (name :> <<count>> \o d.text) @@ ds]

Doformals(name, f, ds) ==
    Dotext(name, Count[Len(f.names) + 1], DefineText(Getntok(f.r), f.names, <<>>), ds)

Doname(name, s, ds) ==
    IF s.tok = "(" THEN Doformals(name, Formals(Getfarg(s), <<>>), ds)
    ELSE Dotext(name, "NOARGS", DefineText(Getntok(Unget(s)), <<>>, <<>>), ds)

Dodefine(s, ds) ==
    IF IsId(s.tok) THEN Doname(s.tok, Gettok(s), ds)
    ELSE [r |-> Error(s, "bad define name"), defs |-> ds]

-----------------------------------------------------------------------------
(* The steps of getaline().                                                *)

Init ==
    /\ program \in Programs
    /\ in = [frames |-> <<[name |-> Main, rest |-> FlattenSeq(program[Main]),
                           at |-> 1, lineno |-> 1]>>,
             pb |-> <<>>, flag |-> 0, tok |-> "nl", line |-> <<>>,
             shown |-> [file |-> Main, line |-> 1], literal |-> FALSE, litNum |-> 0,
             out |-> <<>>, errs |-> {}, exit |-> FALSE, lost |-> {}]
    /\ defs = ("Newlabel" :> <<"NEWLABEL">>) @@ ("Label" :> <<"LABEL">>)
    /\ labels = [c |-> 1000, n |-> 1001]
    /\ skip = 0 /\ cstk = <<>> /\ infile = Main /\ pc = "start"

\* the reader after the step; a fatal error ends the program
Continue(r, where) == in' = r /\ pc' = IF r.exit THEN "exit" ELSE where

\* initl() and the first token of the line
First == Gettok([in EXCEPT !.line = <<>>])

\* the file ends: domacro() looks for a conditional left open
Finish ==
    /\ pc = "start" /\ First.tok = "eof"
    /\ in' = IF cstk = <<>> THEN First ELSE Error(First, "unmatched conditional")
    /\ pc' = "done"
    /\ UNCHANGED <<program, defs, labels, skip, cstk, infile>>

\* "#" alone is an empty line, otherwise a directive follows
StartDirective ==
    /\ pc = "start" /\ First.tok = "#"
    /\ LET s == Getntok(First) IN Continue(s, IF s.tok = "nl" THEN "end" ELSE "dir")
    /\ UNCHANGED <<program, defs, labels, skip, cstk, infile>>

StartText ==
    /\ pc = "start" /\ First.tok \notin {"eof", "#"} /\ (skip = 0 \/ First.tok = "nl")
    /\ Continue(First, "text")
    /\ UNCHANGED <<program, defs, labels, skip, cstk, infile>>

SkipText ==
    /\ pc = "start" /\ First.tok \notin {"eof", "#", "nl"} /\ skip > 0
    /\ Continue(Eatup(First), "end")
    /\ UNCHANGED <<program, defs, labels, skip, cstk, infile>>

ExpandWord ==
    /\ pc = "text" /\ in.tok \in DOMAIN defs
    /\ \E e \in {Expand(in, defs, labels, in.tok)} :
          /\ Continue(IF e.r.exit THEN e.r ELSE Gettok(e.r), "text")
          /\ labels' = e.labels
    /\ UNCHANGED <<program, defs, skip, cstk, infile>>

\* special()
LineNumber == ToString(IF in.literal THEN in.litNum ELSE File(in).lineno)
Shown(t) == CASE t = "__LINE__" -> LineNumber
              [] t = "__FILE__" -> infile
              [] OTHER -> t

CopyWord ==
    /\ pc = "text" /\ in.tok \notin DOMAIN defs \cup {"nl", "eof"}
    /\ Continue(Gettok(ToLine(in, <<Shown(in.tok)>>)), "text")
    /\ UNCHANGED <<program, defs, labels, skip, cstk, infile>>

TextEnds ==
    /\ pc = "text" /\ in.tok \in {"nl", "eof"}
    /\ pc' = "end"
    /\ UNCHANGED <<program, in, defs, labels, skip, cstk, infile>>

\* the loop of domacro(): the line is counted and written
EndLine ==
    /\ pc = "end"
    /\ LET c == IF Len(in.frames) > 1 \/ in.pb = <<>> THEN BumpLine(in) ELSE in
           w == [c EXCEPT !.shown.line = @ + 1 + Len(SelectSeq(in.line, LAMBDA t : t = "nl")),
                          !.out = IF in.line = <<>> THEN @ ELSE Append(@, in.line),
                          !.line = <<>>]
           b == BumpLine(w)
       IN  in' = IF in.literal
                 THEN [Putid(b, File(b).name, File(b).lineno) EXCEPT !.literal = FALSE]
                 ELSE w
    /\ infile' = Main /\ pc' = "start"
    /\ UNCHANGED <<program, defs, labels, skip, cstk>>

-----------------------------------------------------------------------------
(* The directives.  in.tok is the keyword; eatup() drops what is left of   *)
(* the line.                                                               *)

Directive(word) == pc = "dir" /\ in.tok = word

\* push(), and the count of the conditions that skip
PushCondition(r, take) ==
    /\ cstk' = IF Len(cstk) < CStkSize THEN Append(cstk, take) ELSE cstk
    /\ skip' = IF Len(cstk) < CStkSize /\ ~take THEN skip + 1 ELSE skip
    /\ Continue(IF Len(cstk) < CStkSize THEN Eatup(r)
                ELSE [Error(r, "condition stack overflow") EXCEPT !.exit = TRUE], "end")

Takes(word, name) == skip = 0 /\ (name.tok \in DOMAIN defs) = (word = "ifdef")

IfDefined(word) ==
    /\ Directive(word)
    /\ LET name == Getntok(in)
       IN  PushCondition(IF skip = 0 THEN name ELSE in, Takes(word, name))
    /\ UNCHANGED <<program, defs, labels, infile>>

\* cexpr() fed by getctok(): macros are expanded, unknown names are 0
Fed(e, s) == CASE s.tok \in Numbers -> Operand(e, ValueOf[s.tok])
               [] IsId(s.tok) -> Operand(e, 0)
               [] s.tok \in {"nl", "eof"} -> Feed(e, "end")
               [] OTHER -> Feed(e, s.tok)

CexprOver(s, labs, f) ==
    LET back == IF s.tok = "nl" \/ f.status = "done" THEN PutBack(s, <<"nl">>) ELSE s
    IN  CASE f.status = "done" -> [r |-> back, labels |-> labs, v |-> f.opn[1]]
          [] f.status = "syntax" -> [r |-> Error(back, "expression syntax"), labels |-> labs, v |-> 0]
          [] OTHER -> [r |-> [Error(s, f.status) EXCEPT !.exit = TRUE], labels |-> labs, v |-> 0]

RECURSIVE CexprAt(_, _, _)
CexprMacro(x, e) == IF x.r.exit THEN [r |-> x.r, labels |-> x.labels, v |-> 0]
                    ELSE CexprAt(Getntok(x.r), x.labels, e)
CexprFed(s, labs, f) == IF f.status = "run" THEN CexprAt(Getntok(s), labs, f) ELSE CexprOver(s, labs, f)
CexprAt(s, labs, e) == IF s.tok \in DOMAIN defs THEN CexprMacro(Expand(s, defs, labs, s.tok), e)
                       ELSE CexprFed(s, labs, Fed(e, s))

If ==
    /\ Directive("if")
    /\ IF skip > 0 THEN PushCondition(in, FALSE) /\ UNCHANGED labels
       ELSE \E c \in {CexprAt(Getntok(in), labels, Cexpr0)} :
               /\ IF c.r.exit THEN Continue(c.r, "exit") /\ UNCHANGED <<skip, cstk>>
                  ELSE PushCondition(c.r, c.v # 0)
               /\ labels' = c.labels
    /\ UNCHANGED <<program, defs, infile>>

ElseSkip == IF Last(cstk) THEN skip + 1 ELSE skip - 1

Else ==
    /\ Directive("else")
    /\ IF cstk = <<>>
       THEN Continue(Eatup(Error(in, "invalid #else")), "end") /\ UNCHANGED <<skip, cstk>>
       ELSE /\ cstk' = Append(Front(cstk), ~Last(cstk))
            /\ skip' = ElseSkip
            /\ Continue(Eatup(in), "end")
    /\ UNCHANGED <<program, defs, labels, infile>>

Endif ==
    /\ Directive("endif")
    /\ IF cstk = <<>>
       THEN Continue(Eatup(Error(in, "invalid #endif")), "end") /\ UNCHANGED <<skip, cstk>>
       ELSE /\ cstk' = Front(cstk)
            /\ skip' = IF Last(cstk) THEN skip ELSE skip - 1
            /\ Continue(Eatup(in), "end")
    /\ UNCHANGED <<program, defs, labels, infile>>

Define ==
    /\ Directive("define")
    /\ IF skip > 0 THEN Continue(Eatup(in), "end") /\ UNCHANGED defs
       ELSE \E d \in {Dodefine(Getntok(in), defs)} : Continue(Eatup(d.r), "end") /\ defs' = d.defs
    /\ UNCHANGED <<program, labels, skip, cstk, infile>>

Undef ==
    /\ Directive("undef")
    /\ LET n == Getntok(in)
       IN  IF skip > 0 THEN Continue(Eatup(in), "end") /\ UNCHANGED defs
           ELSE /\ Continue(Eatup(n), "end")
                /\ defs' = [w \in DOMAIN defs \ {n.tok} |-> defs[w]]
    /\ UNCHANGED <<program, labels, skip, cstk, infile>>

\* doinclude(); the next line, of whichever file it is, is read at once
Opened(n, e) ==
    IF n.tok \notin FileNames \cup {"missing"} THEN Error(n, "bad include file")
    ELSE IF Len(e.frames) - 1 >= FStack THEN Error(e, "includes nested too deeply")
    ELSE IF n.tok \notin FileNames THEN Error(e, "can't open include file")
    ELSE [Putid(e, n.tok, 1) EXCEPT !.frames =
            Append(@, [name |-> n.tok, rest |-> FlattenSeq(program[n.tok]), at |-> 1, lineno |-> 1])]

Include ==
    /\ Directive("include") /\ skip = 0
    /\ \E n \in {Getntok(in)} : in' = Opened(n, Eatup(n))
    /\ infile' = IF Len(in'.frames) > 1 THEN File(in').name ELSE infile
    /\ pc' = "start"
    /\ UNCHANGED <<program, defs, labels, skip, cstk>>

\* doline(): the next line is to count as line n, of the file named if one is
NextIsLine(c, n) ==
    IF c.tok \in {"nl", "eof"} THEN Putid(c, File(c).name, n) ELSE RestOfLine(Ngetch(Putid(c, c.tok, n)))

Line ==
    /\ Directive("line") /\ skip = 0
    /\ \E n \in {Getntok(in)} :
          in' = IF n.tok \notin Numbers THEN Error(n, "invalid #line args")
                ELSE NextIsLine(Getntok([n EXCEPT !.literal = TRUE]), ValueOf[n.tok])
    /\ pc' = "start"
    /\ UNCHANGED <<program, defs, labels, skip, cstk, infile>>

Keywords == {"ifdef", "ifndef", "if", "else", "endif", "define", "undef", "include", "line"}

SkippedDirective ==
    /\ pc = "dir" /\ in.tok \in {"include", "line"} /\ skip > 0
    /\ Continue(Eatup(in), "end")
    /\ UNCHANGED <<program, defs, labels, skip, cstk, infile>>

BadDirective ==
    /\ pc = "dir" /\ in.tok \notin Keywords
    /\ Continue(Eatup(Error(in, "invalid preprocessor command")), "end")
    /\ UNCHANGED <<program, defs, labels, skip, cstk, infile>>

Next == \/ Finish \/ StartDirective \/ StartText \/ SkipText
        \/ ExpandWord \/ CopyWord \/ TextEnds \/ EndLine
        \/ IfDefined("ifdef") \/ IfDefined("ifndef") \/ If \/ Else \/ Endif
        \/ Define \/ Undef \/ Include \/ Line \/ SkippedDirective \/ BadDirective

\* One thread of control that goes on until the input is used up: weak
\* fairness of Next, which some step of it can be taken of until then,
\* written without ENABLED, which takes TLC too long here.
GoesOn == []<>(pc \in {"done", "exit"}) \/ []<><<TRUE>>_vars

Spec == Init /\ [][Next]_vars /\ GoesOn

-----------------------------------------------------------------------------
(* What must hold.                                                         *)

\* When a line is finished, the line number that the output claims for it
\* (counted on from the last line marker) is the line of the file where it
\* ended: through comments, continued definitions, skipped lines and include
\* files, and through the arguments of a call on several lines.  #line
\* overrides it for one line, and a directive that fails after it has taken
\* its line is never counted.
\*
\* Not claimed once the code has lost count ("shown" in in.lost).  The output
\* is ahead from the use of a continued macro on, whose newline macro.c:1007
\* puts back to end a second output line, and behind from a continued
\* definition in an include file on (331), until the next line marker.  But
\* lineno misses the lines of a call (599), those of a comment or a definition
\* in an include file (lex.c:425), and counts those of a continued macro
\* there (846): the line markers (lex.c:250, 254, macro.c:856, 860) then pass
\* that on.
Uncounted == {"bad include file", "can't open include file", "includes nested too deeply",
              "invalid #line args"}
LinesTrue ==
    pc = "end" /\ in.tok = "nl" /\ ~in.literal /\ in.errs \cap Uncounted = {} /\ "shown" \notin in.lost =>
        /\ in.shown.file = File(in).name
        /\ in.shown.line + Newlines(in.line) = File(in).at - 1

\* The output is what the program means: the text of exactly the lines whose
\* conditionals choose them, with every macro of that place expanded,
\* although the code expands from the left by rescanning what it pushed back.
\* Not claimed for malformed definitions and calls, macros that contain
\* themselves, and the built-in label counter.  Nor where a continued macro
\* is used: macro.c:1007 makes two output lines of one, and ends an #if early.
\* __LINE__ (143) is lineno: nothing is claimed of a program that asks for it
\* and in which lineno has missed lines (599, 331, lex.c:425).
LineTold(L) == "lineno" \notin in.lost \/ \A k \in DOMAIN L : "__LINE__" \notin Range(L[k].words)
Malformed == {"bad define name", "bad argument", "too many arguments", "no */"}
OutputRight ==
    pc = "done" /\ in.errs \cap Malformed = {} /\ labels.n = 1001 /\ "lines" \notin in.lost =>
        \A L \in {Flat(program, Main, FStack)} :
            WellNested(L) /\ ~Circular(L) /\ LineTold(L) =>
                Meant(L) = SelectSeq([k \in DOMAIN in.out |-> Words(in.out[k])],
                                     LAMBDA t : t # <<>>)

\* __FILE__ is the "current file name" of the comment on special().
FileNameTrue == pc = "text" /\ in.tok = "__FILE__" => infile = File(in).name

\* A macro defined as itself, which expand() says it checks for, is no define
\* recursion.
SelfNamed ==
    "define recursion" \in in.errs =>
        \E name \in DOMAIN defs \ {"Newlabel", "Label"} : Tail(defs[name]) # <<name>>

\* The preprocessor comes to an end on every input, also when a macro comes
\* up again in its own expansion: the count of expansions since the file was
\* last read stops it.
ComesToAnEnd == <>(pc \in {"done", "exit"})
=============================================================================
