----------------------------- MODULE CppMeaning -----------------------------
(***************************************************************************)
(* What a program means to a preprocessor, from its lines.  There is no    *)
(* stack, count or push back buffer: conditionals are matched in the text, *)
(* included files stand where their #include does, and macros are replaced *)
(* from the right, innermost first, until none is left.                    *)
(*                                                                         *)
(* A program is a function from file names to sequences of lines, a line a *)
(* sequence of tokens that ends with "nl".  Tokens are identifiers,        *)
(* numbers, punctuation characters ("ws" a blank, "q" a quote that nothing *)
(* closes) and quoted file names.                                          *)
(***************************************************************************)
EXTENDS CppExpr, TLC

CONSTANT FileNames      \* the files that exist

Punctuation == {"ws", "nl", "eof", "#", ",", "q", "/*", "*/", "//", "\\", "="} \cup Operators
ValueOf == ("0" :> 0) @@ ("1" :> 1) @@ ("2" :> 2) @@ ("3" :> 3) @@ ("7" :> 7)
Numbers == DOMAIN ValueOf
IsId(t) == t \notin Punctuation \cup Numbers \cup FileNames
IsWord(t) == IsId(t) \/ t \in Numbers

IsWs(t) == t \in {"ws", "nl", "\\"}
CommentAt(toks, k) == \E i \in 1..k : /\ toks[i] = "/*"
                                      /\ \A j \in (i + 1)..(k - 1) : toks[j] # "*/"
SlashAt(toks, k) == \E i \in 1..k : toks[i] = "//"
Words(toks) == LET kept == SelectSeq([k \in DOMAIN toks |-> k],
                                     LAMBDA k : /\ ~IsWs(toks[k])
                                                /\ ~CommentAt(toks, k) /\ ~SlashAt(toks, k))
               IN  [k \in DOMAIN kept |-> toks[kept[k]]]

Newlines(toks) == Cardinality({k \in DOMAIN toks : toks[k] = "nl"})

\* the lines as they are read when every conditional is true
RECURSIVE Flat(_, _, _)
Flat(program, f, depth) ==
    LET Line1(k) == [words |-> Words(program[f][k]), raw |-> program[f][k], file |-> f,
                     n |-> Newlines(FlattenSeq(SubSeq(program[f], 1, k)))]
        Included(k) == LET w == Line1(k).words
                       IN  IF Len(w) > 2 /\ w[2] = "include" /\ w[3] \in FileNames /\ depth > 0
                           THEN Flat(program, w[3], depth - 1) ELSE <<>>
    IN  FlattenSeq([k \in DOMAIN program[f] |-> <<Line1(k)>> \o Included(k)])

Kind(l) == IF Len(l.words) > 1 /\ l.words[1] = "#" THEN l.words[2]
           ELSE IF l.words # <<>> /\ l.words[1] = "#" THEN "null" ELSE "text"
Opening == {"if", "ifdef", "ifndef"}
Depth(L, k) == Cardinality({i \in 1..(k - 1) : Kind(L[i]) \in Opening})
                 - Cardinality({i \in 1..(k - 1) : Kind(L[i]) = "endif"})
\* line k lies in the conditional that line i opens
Encloses(L, i, k) == /\ i < k /\ Kind(L[i]) \in Opening
                     /\ \A j \in (i + 1)..k : Depth(L, j) > Depth(L, i)
\* the #else lines of that conditional before line k
Elses(L, i, k) == {j \in (i + 1)..(k - 1) : /\ Kind(L[j]) = "else"
                                            /\ Depth(L, j) = Depth(L, i) + 1}
WellNested(L) == \A k \in DOMAIN L : Kind(L[k]) \in {"else", "endif"} => Depth(L, k) > 0

\* a #define line: its parameters, if a parenthesis follows the name at once
Parsed(l) ==
    LET w == l.words
        nameAt == CHOOSE k \in DOMAIN l.raw : l.raw[k] = w[3]
        fn == l.raw[nameAt + 1] = "("
        close == IF fn THEN CHOOSE k \in DOMAIN w : w[k] = ")" /\ \A j \in 1..(k - 1) : w[j] # ")"
                 ELSE 3
    IN  [name |-> w[3], fn |-> fn,
         params |-> SelectSeq(SubSeq(w, 5, close - 1), LAMBDA t : t # ","),
         body |-> SubSeq(w, close + 1, Len(w))]

\* where the parenthesis opened at k closes, and the commas of its own level
Closing(t, k) == CHOOSE j \in k..Len(t) :
                    /\ t[j] = ")" /\ Nesting(t, j) = Nesting(t, k) + 1
                    /\ \A i \in (k + 1)..(j - 1) : t[i] = ")" => Nesting(t, i) # Nesting(t, k) + 1

ArgsAt(t, k) ==
    LET c == Closing(t, k)
        own == SetToSortSeq({j \in (k + 1)..(c - 1) :
                                t[j] = "," /\ Nesting(t, j) = Nesting(t, k) + 1} \cup {k, c}, <)
    IN  [j \in 1..(Len(own) - 1) |-> SubSeq(t, own[j] + 1, own[j + 1] - 1)]

RECURSIVE Expanded(_, _)
Expanded(t, macros) ==
    LET at == {k \in DOMAIN t : \E m \in macros : m.name = t[k]}
        k == CHOOSE i \in at : \A j \in at : j <= i
        m == CHOOSE d \in macros : d.name = t[k]
        called == m.fn /\ k < Len(t) /\ t[k + 1] = "("
        args == IF called THEN ArgsAt(t, k + 1) ELSE <<>>
        Part(p) == LET at1 == {i \in DOMAIN m.params : m.params[i] = p}
                       i == CHOOSE i \in at1 : TRUE
                   IN  IF at1 = {} THEN <<p>> ELSE IF i <= Len(args) THEN args[i] ELSE <<>>
        text == FlattenSeq([j \in DOMAIN m.body |-> Part(m.body[j])])
        behind == SubSeq(t, IF called THEN Closing(t, k + 1) + 1 ELSE k + 1, Len(t))
    IN  IF at = {} THEN t
        ELSE Expanded(SubSeq(t, 1, k - 1) \o text \o behind, macros)

Without(macros, name) == {m \in macros : m.name # name}

\* the macros behind the line l, a line that is chosen
MacrosAfter(macros, l) ==
    CASE Kind(l) = "define" -> Without(macros, l.words[3]) \cup {Parsed(l)}
      [] Kind(l) = "undef" -> Without(macros, l.words[3])
      [] OTHER -> macros

NotZero(v) == ~v.wrong /\ v.v # 0
IfHolds(t) == NotZero(Meaning(t, ValueOf @@ [w \in {w \in Range(t) : IsId(w)} |-> 0]))
Holds(l, macros) ==
    CASE Kind(l) = "ifdef" -> \E m \in macros : m.name = l.words[3]
      [] Kind(l) = "ifndef" -> ~\E m \in macros : m.name = l.words[3]
      [] Kind(l) = "if" -> IfHolds(Expanded(SubSeq(l.words, 3, Len(l.words)), macros))
      [] OTHER -> TRUE

\* What is known of line k from what is known of the lines before: the
\* macros defined there, whether the line's own condition holds, and whether
\* it is chosen: every conditional around it chooses the branch it is in.
KnownOf(L, k, macros, before) ==
    [macros |-> macros, holds |-> Holds(L[k], macros),
     chosen |-> \A i \in 1..(k - 1) :
                   Encloses(L, i, k) => before[i].holds = (Cardinality(Elses(L, i, k)) % 2 = 0)]

Known(L) ==
    LET more(before, k) ==
            Append(before,
                   KnownOf(L, k, IF k = 1 THEN {}
                                 ELSE IF before[k - 1].chosen THEN MacrosAfter(before[k - 1].macros, L[k - 1])
                                 ELSE before[k - 1].macros, before))
    IN  FoldLeftDomain(more, <<>>, L)

Valued(t, l, number) ==
    [j \in DOMAIN t |-> CASE t[j] = "__LINE__" -> ToString(number)
                          [] t[j] = "__FILE__" -> l.file
                          [] OTHER -> t[j]]

\* nothing is replaced behind a quote; line k counts as number
LineText(L, k, macros) ==
    LET w == L[k].words
        quotes == {j \in DOMAIN w : w[j] = "q"}
        q == IF quotes = {} THEN Len(w) + 1 ELSE CHOOSE j \in quotes : \A i \in quotes : j <= i
        number == IF k > 1 /\ Kind(L[k - 1]) = "line" THEN ValueOf[L[k - 1].words[3]] ELSE L[k].n
    IN  Valued(Expanded(SubSeq(w, 1, q - 1), macros), L[k], number) \o SubSeq(w, q, Len(w))

TextOf(L, known) ==
    LET text(k) == IF Kind(L[k]) = "text" /\ known[k].chosen THEN LineText(L, k, known[k].macros) ELSE <<>>
    IN  SelectSeq([k \in DOMAIN L |-> text(k)], LAMBDA t : t # <<>>)

Meant(L) == TextOf(L, Known(L))

\* a macro that comes up again in its own expansion has no meaning
Circular(L) ==
    LET D == {Parsed(L[k]) : k \in {k \in DOMAIN L : Kind(L[k]) = "define"}}
        direct == {e \in {<<c.name, d.name>> : c \in D, d \in D} :
                      \E d \in D : d.name = e[1] /\ e[2] \in Range(d.body)}
    IN  \/ \E e \in direct : e[1] = e[2]
        \/ \E e \in direct : <<e[2], e[1]>> \in direct
=============================================================================
