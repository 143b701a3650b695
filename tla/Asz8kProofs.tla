---------------------------- MODULE Asz8kProofs ----------------------------
(***************************************************************************)
(* Proofs about the assembler, for every program, table size and block     *)
(* size: what pass 2 emits is what the object file holds, and (second      *)
(* part) the two passes agree on every label.                              *)
(***************************************************************************)
EXTENDS Xcon, InductionLemmas, FiniteSetTheorems, SequenceTheorems, TLAPS

(* The values the variables take.                                          *)
Sections == 0 .. SECSIZ - 1
SymTypes == {STNEW, STUND, STSEC, STLAB, STVAR}
Symbols == [typ : SymTypes, val : Int, rel : Int, glo : BOOLEAN, dp2 : BOOLEAN]
Tables == {t \in [Names -> Symbols] : \A n \in Names : t[n].typ = STSEC => t[n].rel \in Sections}
Values == [val : Int, rel : Int, of : Labels, e : SUBSET {"E", "U"}]
Acts == {"RAA8", "RAA16M", "RAA32M", "RAZOF", "RAZLS", "RAZSS"}
Relocs == [act : Acts, base : Int, of : Labels]
Bytes == [val : 0 .. 255, rel : {NoRel} \cup Relocs]
-----------------------------------------------------------------------------
(* The recursion of FlattenSeq: it has a solution, and two sequences that  *)
(* begin alike have solutions that begin alike.                            *)
LEMMA FlattenExists ==
  ASSUME NEW S, NEW ss \in Seq(Seq(S))
  PROVE  \E f \in [1 .. Len(ss) -> Seq(S)] :
           f = [i \in 1 .. Len(ss) |-> IF i = 1 THEN ss[i] ELSE f[i - 1] \o ss[i]]
<1> DEFINE Good(n) == \E f \in [1 .. n -> Seq(S)] :
                        f = [i \in 1 .. n |-> IF i = 1 THEN ss[i] ELSE f[i - 1] \o ss[i]]
           T == {n \in Nat : n <= Len(ss) => Good(n)}
<1> HIDE DEF Good
<1>0. Len(ss) \in Nat /\ \A i \in 1 .. Len(ss) : ss[i] \in Seq(S)
  OBVIOUS
<1>1. 0 \in T
  <2> DEFINE f == [i \in 1 .. 0 |-> <<>>]
  <2>1. f \in [1 .. 0 -> Seq(S)]
    OBVIOUS
  <2>2. f = [i \in 1 .. 0 |-> IF i = 1 THEN ss[i] ELSE f[i - 1] \o ss[i]]
    OBVIOUS
  <2> HIDE DEF f
  <2> QED
    BY <2>1, <2>2 DEF Good
<1>2. ASSUME NEW n \in Nat, n \in T PROVE n + 1 \in T
  <2> SUFFICES ASSUME n + 1 <= Len(ss) PROVE Good(n + 1)
    OBVIOUS
  <2>1. PICK f \in [1 .. n -> Seq(S)] :
          f = [i \in 1 .. n |-> IF i = 1 THEN ss[i] ELSE f[i - 1] \o ss[i]]
    <3>1. Good(n)
      BY <1>0, <1>2
    <3> QED
      BY <3>1 DEF Good
  <2> DEFINE new == IF n + 1 = 1 THEN ss[n + 1] ELSE f[n] \o ss[n + 1]
             g == [i \in 1 .. n + 1 |-> IF i <= n THEN f[i] ELSE new]
  <2>2. ss[n + 1] \in Seq(S)
    BY <1>0
  <2>3. new \in Seq(S)
    <3>1. CASE n = 0
      BY <2>2, <3>1
    <3>2. CASE n # 0
      <4>1. f[n] \in Seq(S)
        BY <3>2
      <4> QED
        BY <2>2, <3>2, <4>1, ConcatProperties
    <3> QED
      BY <3>1, <3>2
  <2>4. g \in [1 .. n + 1 -> Seq(S)]
    BY <2>3
  <2>5. g[n + 1] = new /\ \A i \in 1 .. n : g[i] = f[i]
    <3> HIDE DEF new
    <3> QED
      OBVIOUS
  <2>6. ASSUME NEW i \in 1 .. n + 1
        PROVE  g[i] = IF i = 1 THEN ss[i] ELSE g[i - 1] \o ss[i]
    <3>1. CASE i = n + 1
      <4>1. i # 1 => g[i - 1] = f[n]
        BY <2>5, <3>1
      <4> QED
        BY <2>5, <3>1, <4>1
    <3>2. CASE i # n + 1
      <4>1. i \in 1 .. n /\ (i # 1 => i - 1 \in 1 .. n)
        BY <3>2
      <4>2. f[i] = IF i = 1 THEN ss[i] ELSE f[i - 1] \o ss[i]
        BY <2>1, <4>1
      <4> QED
        BY <2>5, <4>1, <4>2
    <3> QED
      BY <3>1, <3>2
  <2> HIDE DEF g, new
  <2>7. g = [i \in 1 .. n + 1 |-> IF i = 1 THEN ss[i] ELSE g[i - 1] \o ss[i]]
    BY <2>4, <2>6
  <2> QED
    BY <2>4, <2>7 DEF Good
<1>3. Nat \subseteq T
  <2> HIDE DEF T
  <2> QED
    BY <1>1, <1>2, NatSetInduction
<1>4. Good(Len(ss))
  BY <1>0, <1>3
<1> QED
  BY <1>4 DEF Good

LEMMA FlattenAppend ==
  ASSUME NEW S, NEW ss \in Seq(Seq(S)), NEW s \in Seq(S)
  PROVE  /\ FlattenSeq(ss) \in Seq(S)
         /\ FlattenSeq(Append(ss, s)) = FlattenSeq(ss) \o s
<1> DEFINE tt == Append(ss, s)
           n == Len(ss)
           IsFlat(f, rr) == f = [i \in 1 .. Len(rr) |-> IF i = 1 THEN rr[i] ELSE f[i - 1] \o rr[i]]
<1>1. /\ tt \in Seq(Seq(S)) /\ n \in Nat /\ Len(tt) = n + 1
      /\ \A i \in 1 .. n : tt[i] = ss[i]
      /\ tt[n + 1] = s
  BY AppendProperties
<1> HIDE DEF tt
<1> DEFINE f == CHOOSE f : IsFlat(f, ss)
           g == CHOOSE g : IsFlat(g, tt)
<1>2. FlattenSeq(ss) = (IF n = 0 THEN ss ELSE f[n]) /\ FlattenSeq(tt) = g[n + 1]
  BY <1>1 DEF FlattenSeq
<1>3. \E x \in [1 .. n -> Seq(S)] : IsFlat(x, ss)
  BY FlattenExists
<1>4. \E x \in [1 .. Len(tt) -> Seq(S)] : IsFlat(x, tt)
  BY <1>1, FlattenExists
<1>5. IsFlat(f, ss) /\ IsFlat(g, tt)
  <2> HIDE DEF IsFlat
  <2> QED
    BY <1>3, <1>4
<1>6. /\ \A i \in 1 .. n : f[i] = IF i = 1 THEN ss[i] ELSE f[i - 1] \o ss[i]
      /\ \A i \in 1 .. n + 1 : g[i] = IF i = 1 THEN tt[i] ELSE g[i - 1] \o tt[i]
  <2> HIDE DEF f, g
  <2> QED
    BY <1>1, <1>5
<1> HIDE DEF f, g, IsFlat
<1> DEFINE T == {k \in Nat : k \in 1 .. n => f[k] = g[k] /\ f[k] \in Seq(S)}
<1>7. 0 \in T
  OBVIOUS
<1>8. ASSUME NEW k \in Nat, k \in T PROVE k + 1 \in T
  <2> SUFFICES ASSUME k + 1 <= n PROVE f[k + 1] = g[k + 1] /\ f[k + 1] \in Seq(S)
    OBVIOUS
  <2>1. k + 1 \in 1 .. n /\ k + 1 \in 1 .. n + 1 /\ ss[k + 1] \in Seq(S) /\ tt[k + 1] = ss[k + 1]
    BY <1>1
  <2>2. CASE k = 0
    BY <1>6, <2>1, <2>2
  <2>3. CASE k # 0
    <3>1. f[k] = g[k] /\ f[k] \in Seq(S)
      BY <1>8, <2>3
    <3>2. f[k + 1] = f[k] \o ss[k + 1] /\ g[k + 1] = g[k] \o tt[k + 1]
      <4>1. (k + 1) - 1 = k /\ k + 1 # 1
        BY <2>3
      <4> QED
        BY <1>6, <2>1, <4>1
    <3> QED
      BY <2>1, <3>1, <3>2, ConcatProperties
  <2> QED
    BY <2>2, <2>3
<1>9. Nat \subseteq T
  <2> HIDE DEF T
  <2> QED
    BY <1>7, <1>8, NatSetInduction
<1>10. CASE n = 0
  <2>1. ss = <<>> /\ FlattenSeq(ss) = <<>>
    BY <1>2, <1>10
  <2>2. g[1] = s
    BY <1>1, <1>6, <1>10
  <2>3. <<>> \o s = s /\ <<>> \in Seq(S)
    BY ConcatEmptySeq
  <2> QED
    BY <1>2, <1>10, <2>1, <2>2, <2>3 DEF tt
<1>11. CASE n # 0
  <2>1. f[n] = g[n] /\ f[n] \in Seq(S)
    BY <1>1, <1>9, <1>11
  <2>2. g[n + 1] = g[n] \o s
    <3>1. (n + 1) - 1 = n /\ n + 1 # 1 /\ n + 1 \in 1 .. n + 1
      BY <1>1, <1>11
    <3> QED
      BY <1>1, <1>6, <3>1
  <2> QED
    BY <1>2, <1>11, <2>1, <2>2 DEF tt
<1> QED
  BY <1>10, <1>11
-----------------------------------------------------------------------------
(* Symbols and expressions.                                                *)

LEMMA LookType ==
  ASSUME NEW tab \in Tables, NEW ns
  PROVE  Look(tab, ns) \in Tables
<1>1. tab \in [Names -> Symbols]
  BY DEF Tables
<1>2. ASSUME NEW n \in Names PROVE [tab[n] EXCEPT !.typ = STUND] \in Symbols
  BY <1>1 DEF Symbols, SymTypes
<1>3. Look(tab, ns) \in [Names -> Symbols]
  BY <1>1, <1>2 DEF Look
<1>4. ASSUME NEW n \in Names, Look(tab, ns)[n].typ = STSEC
      PROVE  Look(tab, ns)[n].rel \in Sections
  <2>1. tab[n] \in Symbols
    BY <1>1
  <2>2. [tab[n] EXCEPT !.typ = STUND].typ = STUND
    BY <2>1 DEF Symbols
  <2>3. Look(tab, ns)[n] = tab[n]
    BY <1>4, <2>2 DEF Look, STUND, STSEC
  <2> QED
    BY <1>4, <2>3 DEF Tables
<1> QED
  BY <1>3, <1>4 DEF Tables

LEMMA AssignType ==
  ASSUME NEW tab \in Tables, NEW n \in Labels, NEW typ \in SymTypes, NEW val \in Int, NEW rel \in Int,
         typ = STSEC => rel \in Sections
  PROVE  Assign(tab, n, typ, val, rel).tab \in Tables
<1>1. CASE n = NoName \/ Redefined(tab[n]) \/ (tab[n].typ # STUND /\ PhaseError(tab[n], typ, val, rel))
  BY <1>1 DEF Assign
<1>2. CASE ~(n = NoName \/ Redefined(tab[n]) \/ (tab[n].typ # STUND /\ PhaseError(tab[n], typ, val, rel)))
  <2> DEFINE new == [tab[n] EXCEPT !.typ = typ, !.val = val, !.rel = rel, !.dp2 = @ \/ pass2]
  <2>1. n \in Names
    BY <1>2 DEF Labels
  <2>2. tab \in [Names -> Symbols] /\ tab[n] \in Symbols
    BY <2>1 DEF Tables
  <2>3. (tab[n].dp2 \/ pass2) \in BOOLEAN
    OBVIOUS
  <2>4. new \in Symbols /\ new.typ = typ /\ new.rel = rel
    BY <2>2, <2>3 DEF Symbols
  <2>5. Assign(tab, n, typ, val, rel).tab = [tab EXCEPT ![n] = new]
    BY <1>2 DEF Assign
  <2> HIDE DEF new
  <2>6. [tab EXCEPT ![n] = new] \in Tables
    BY <2>1, <2>2, <2>4 DEF Tables
  <2> QED
    BY <2>5, <2>6
<1> QED
  BY <1>1, <1>2

LEMMA PrimaryType ==
  ASSUME NEW tab \in Tables, NEW p \in Primaries, NEW loc \in Int, cursec \in Int
  PROVE  Primary(tab, p, loc) \in Values
<1>1. CASE p \in [k : {"con"}, v : Int]
  BY <1>1 DEF Primary, Value, Values, RBABS, Labels
<1>2. CASE p \in [k : {"sym"}, s : Names]
  <2>1. p.k = "sym" /\ p.s \in Names
    BY <1>2
  <2>2. tab[p.s].val \in Int /\ tab[p.s].rel \in Int
    BY <2>1 DEF Tables, Symbols
  <2>3. Value(0, RBABS, NoName, {"E"}) \in Values /\ Value(0, RBABS, NoName, {"U"}) \in Values
        /\ Value(tab[p.s].val, tab[p.s].rel, p.s, {}) \in Values
    BY <2>1, <2>2 DEF Value, Values, RBABS, Labels
  <2> QED
    BY <2>1, <2>3 DEF Primary
<1>3. CASE p \in [k : {"here"}]
  BY <1>3 DEF Primary, Value, Values, Labels
<1> QED
  BY <1>1, <1>2, <1>3 DEF Primaries

LEMMA ExpressionType ==
  ASSUME NEW tab \in Tables, NEW x \in Operands, NEW loc \in Int, cursec \in Int
  PROVE  Expression(tab, x, loc) \in Values
<1> DEFINE l == Primary(tab, x.x, loc)
           r == Primary(tab, x.y, loc)
           e == l.e \cup r.e \cup
                (IF \/ x.f = "add" /\ l.rel # RBABS /\ r.rel # RBABS
                    \/ x.f = "sub" /\ l.rel # r.rel /\ r.rel # RBABS THEN {"E"} ELSE {})
           base == IF x.f = "add" /\ l.rel = RBABS THEN r ELSE l
<1>1. x.x \in Primaries /\ x.y \in Primaries /\ x.f \in {"pri", "add", "sub", "eq"}
  BY DEF Operands
<1>2. l \in Values /\ r \in Values
  BY <1>1, PrimaryType
<1>3. e \in SUBSET {"E", "U"} /\ base \in Values
  BY <1>2 DEF Values
<1>4. Expression(tab, x, loc) =
        IF "E" \in e THEN Value(0, RBABS, NoName, e)
        ELSE CASE x.f = "add" -> Value(l.val + r.val, base.rel, base.of, e)
               [] x.f = "sub" -> IF l.rel = r.rel THEN Value(l.val - r.val, RBABS, NoName, e)
                                 ELSE Value(l.val - r.val, l.rel, l.of, e)
               [] x.f = "eq" -> Value(IF l.val = r.val /\ l.rel = r.rel THEN -1 ELSE 0, RBABS, NoName, e)
               [] OTHER -> l
  BY DEF Expression
<1> HIDE DEF l, r, e, base
<1>5. Value(0, RBABS, NoName, e) \in Values /\ Value(l.val + r.val, base.rel, base.of, e) \in Values
      /\ Value(l.val - r.val, RBABS, NoName, e) \in Values /\ Value(l.val - r.val, l.rel, l.of, e) \in Values
      /\ Value(IF l.val = r.val /\ l.rel = r.rel THEN -1 ELSE 0, RBABS, NoName, e) \in Values
  BY <1>2, <1>3 DEF Values, Value, Labels, RBABS
<1>6. CASE "E" \in e
  BY <1>4, <1>5, <1>6
<1>7. CASE "E" \notin e
  BY <1>1, <1>2, <1>4, <1>5, <1>7
<1> QED
  BY <1>6, <1>7

LEMMA OperandType ==
  ASSUME NEW tab \in Tables, NEW x \in Operands, NEW loc \in Int, cursec \in Int
  PROVE  Operand(tab, x, loc).tab \in Tables /\ Operand(tab, x, loc).v \in Values
  BY LookType, ExpressionType DEF Operand

-----------------------------------------------------------------------------
(* The bytes of an operand.                                                *)

(* A relocatable item is all there, and no other begins in it.             *)
ItemsWhole(bs) ==
  \A i \in 1 .. Len(bs) : bs[i].rel # NoRel =>
    /\ i + Width(bs[i].rel.act) - 1 <= Len(bs)
    /\ \A j \in i + 1 .. i + Width(bs[i].rel.act) - 1 : bs[j].rel = NoRel
Emittable(bs) == bs \in Seq(Bytes) /\ ItemsWhole(bs)

LEMMA WidthRange ==
  ASSUME NEW act \in Acts
  PROVE  Width(act) \in 1 .. 4
  BY DEF Acts, Width

LEMMA RelocType ==
  ASSUME NEW x \in Values, NEW act \in Acts
  PROVE  /\ Rel(act, x) \in {NoRel} \cup Relocs
         /\ Rel(act, x) # NoRel => Rel(act, x).act = act
<1>1. CASE x.rel = RBABS
  BY <1>1 DEF Rel
<1>2. CASE x.rel # RBABS
  <2>1. Rel(act, x) = [act |-> act, base |-> x.rel, of |-> x.of]
    BY <1>2 DEF Rel
  <2>2. x.rel \in Int /\ x.of \in Labels
    BY DEF Values
  <2>3. Rel(act, x) \in Relocs /\ Rel(act, x).act = act
    BY <2>1, <2>2 DEF Relocs
  <2> QED
    BY <2>3
<1> QED
  BY <1>1, <1>2

LEMMA RelocIsOne ==
  ASSUME NEW r \in Relocs
  PROVE  r # NoRel
<1>1. r.act \in Acts
  BY DEF Relocs
<1>2. NoRel.act \notin Acts
  BY DEF NoRel, Acts
<1> QED
  BY <1>1, <1>2

LEMMA ByteType ==
  ASSUME NEW v \in Int, NEW r \in {NoRel} \cup Relocs
  PROVE  Byte(v, r) \in Bytes /\ Byte(v, r).rel = r
  BY DEF Byte, Bytes

LEMMA OneByte ==
  ASSUME NEW v \in Int, NEW r \in {NoRel} \cup Relocs, r # NoRel => Width(r.act) = 1
  PROVE  Emittable(<<Byte(v, r)>>) /\ Emittable(<<Byte(v, r), Byte(v, r)>>)
<1> DEFINE b == Byte(v, r)
<1>1. b \in Bytes /\ b.rel = r
  BY ByteType
<1> HIDE DEF b
<1>2. ItemsWhole(<<b>>) /\ ItemsWhole(<<b, b>>)
  BY <1>1 DEF ItemsWhole
<1>3. <<b>> \in Seq(Bytes) /\ <<b, b>> \in Seq(Bytes)
  BY <1>1
<1> QED
  BY <1>2, <1>3 DEF Emittable, b

LEMMA WordBytes ==
  ASSUME NEW v \in Int, NEW r \in {NoRel} \cup Relocs
  PROVE  /\ Word(v, r) \in Seq(Bytes) /\ Len(Word(v, r)) = 2
         /\ Word(v, r)[1].rel = r /\ Word(v, r)[2].rel = NoRel
<1> DEFINE b == Byte(v \div 256, r)
           c == Byte(v, NoRel)
<1>1. v \div 256 \in Int
  OBVIOUS
<1>2. b \in Bytes /\ b.rel = r /\ c \in Bytes /\ c.rel = NoRel
  BY <1>1, ByteType
<1>3. Word(v, r) = <<b, c>>
  BY DEF Word
<1> HIDE DEF b, c
<1> QED
  BY <1>2, <1>3

LEMMA OneWord ==
  ASSUME NEW v \in Int, NEW r \in {NoRel} \cup Relocs, r # NoRel => Width(r.act) = 2
  PROVE  Emittable(Word(v, r))
<1> DEFINE w == Word(v, r)
<1>1. w \in Seq(Bytes) /\ Len(w) = 2 /\ w[1].rel = r /\ w[2].rel = NoRel
  BY WordBytes
<1> HIDE DEF w
<1>2. \A i \in 1 .. Len(w) : w[i].rel # NoRel => i = 1
  BY <1>1
<1>3. ItemsWhole(w)
  BY <1>1, <1>2 DEF ItemsWhole
<1> QED
  BY <1>1, <1>3 DEF Emittable, w

LEMMA TwoWords ==
  ASSUME NEW v \in Int, NEW u \in Int, NEW r \in {NoRel} \cup Relocs, r # NoRel => Width(r.act) = 4
  PROVE  Emittable(Word(v, r) \o Word(u, NoRel))
<1> DEFINE w == Word(v, r)
           z == Word(u, NoRel)
           bs == w \o z
<1>1. w \in Seq(Bytes) /\ Len(w) = 2 /\ w[1].rel = r /\ w[2].rel = NoRel
  BY WordBytes
<1>2. z \in Seq(Bytes) /\ Len(z) = 2 /\ z[1].rel = NoRel /\ z[2].rel = NoRel
  BY WordBytes
<1> HIDE DEF w, z
<1>3. /\ bs \in Seq(Bytes) /\ Len(bs) = Len(w) + Len(z)
      /\ \A i \in 1 .. Len(w) + Len(z) : bs[i] = IF i <= Len(w) THEN w[i] ELSE z[i - Len(w)]
  BY <1>1, <1>2, ConcatProperties
<1>4. Len(bs) = 4 /\ bs[1] = w[1] /\ bs[2] = w[2] /\ bs[3] = z[1] /\ bs[4] = z[2]
  BY <1>1, <1>2, <1>3
<1> HIDE DEF bs
<1>5. bs[1].rel = r /\ \A i \in 1 .. 4 : i # 1 => bs[i].rel = NoRel
  BY <1>1, <1>2, <1>4
<1>6. ItemsWhole(bs)
  <2>1. \A i \in 1 .. Len(bs) : bs[i].rel # NoRel => i = 1 /\ Width(bs[i].rel.act) = 4
    BY <1>4, <1>5
  <2> QED
    BY <1>4, <1>5, <2>1 DEF ItemsWhole
<1> QED
  BY <1>3, <1>6 DEF Emittable, bs, w, z

LEMMA FieldType ==
  ASSUME NEW kind \in {"byte", "word", "long"} \cup (Kinds \ {"rel8"}), NEW x \in Values
  PROVE  Emittable(Field(kind, x))
<1>1. x.val \in Int /\ x.rel \in Int
  BY DEF Values
<1>2. Emittable(<<Byte(x.val, Rel("RAA8", x))>>)
      /\ Emittable(<<Byte(x.val, Rel("RAA8", x)), Byte(x.val, Rel("RAA8", x))>>)
  <2>1. "RAA8" \in Acts /\ Width("RAA8") = 1
    BY DEF Acts, Width
  <2> DEFINE r == Rel("RAA8", x)
  <2>2. r \in {NoRel} \cup Relocs /\ (r # NoRel => r.act = "RAA8")
    BY <2>1, RelocType
  <2> HIDE DEF r
  <2>3. Emittable(<<Byte(x.val, r)>>) /\ Emittable(<<Byte(x.val, r), Byte(x.val, r)>>)
    BY <1>1, <2>1, <2>2, OneByte
  <2> QED
    BY <2>3 DEF r
<1>3. \A act \in {"RAZOF", "RAA16M", "RAZSS"} : \A v \in Int : Emittable(Word(v, Rel(act, x)))
  <2>1. \A act \in {"RAZOF", "RAA16M", "RAZSS"} : act \in Acts /\ Width(act) = 2
    BY DEF Acts, Width
  <2>2. ASSUME NEW act \in {"RAZOF", "RAA16M", "RAZSS"}, NEW v \in Int
        PROVE  Emittable(Word(v, Rel(act, x)))
    <3> DEFINE r == Rel(act, x)
    <3>1. r \in {NoRel} \cup Relocs /\ (r # NoRel => r.act = act)
      BY <2>1, RelocType
    <3> HIDE DEF r
    <3>2. Emittable(Word(v, r))
      BY <2>1, <3>1, OneWord
    <3> QED
      BY <3>2 DEF r
  <2> QED
    BY <2>2
<1>4. \A act \in {"RAZLS", "RAA32M"} : \A v, u \in Int :
        Emittable(Word(v, Rel(act, x)) \o Word(u, NoRel))
  <2>1. \A act \in {"RAZLS", "RAA32M"} : act \in Acts /\ Width(act) = 4
    BY DEF Acts, Width
  <2>2. ASSUME NEW act \in {"RAZLS", "RAA32M"}, NEW v \in Int, NEW u \in Int
        PROVE  Emittable(Word(v, Rel(act, x)) \o Word(u, NoRel))
    <3> DEFINE r == Rel(act, x)
    <3>1. r \in {NoRel} \cup Relocs /\ (r # NoRel => r.act = act)
      BY <2>1, RelocType
    <3> HIDE DEF r
    <3>2. Emittable(Word(v, r) \o Word(u, NoRel))
      BY <2>1, <3>1, TwoWords
    <3> QED
      BY <3>2 DEF r
  <2> QED
    BY <2>2
<1>5. ShortRef(x) \in Int
  BY <1>1 DEF ShortRef
<1>6. (128 + ShortRef(x)) * 256 \in Int /\ ShortRef(x) * 256 + (x.val % 256) \in Int /\ x.val \div 65536 \in Int
  BY <1>1, <1>5
<1>7. Emittable(LongSeg(x))
  BY <1>1, <1>4, <1>6 DEF LongSeg
<1>8. Emittable(ShortSeg(x))
  BY <1>3, <1>6 DEF ShortSeg
<1>9. Emittable(Long(x.val, Rel("RAA32M", x)))
  BY <1>1, <1>4, <1>6 DEF Long
<1>10. Emittable(Word(x.val, Rel(IF cmd.segflg THEN "RAZOF" ELSE "RAA16M", x)))
       /\ Emittable(Word(x.val, Rel("RAA16M", x)))
  BY <1>1, <1>3
<1>11. CASE kind = "byte"
  BY <1>2, <1>11 DEF Field
<1>12. CASE kind = "imm8"
  BY <1>2, <1>12 DEF Field
<1>13. CASE kind \in {"word", "imm16"}
  BY <1>10, <1>13 DEF Field
<1>14. CASE kind \in {"long", "imm32"}
  BY <1>7, <1>9, <1>14 DEF Field
<1>15. CASE kind = "addr"
  BY <1>7, <1>10, <1>15 DEF Field
<1>16. CASE kind = "saddr"
  BY <1>8, <1>10, <1>16 DEF Field
<1> QED
  BY <1>11, <1>12, <1>13, <1>14, <1>15, <1>16 DEF Kinds

(* The two bytes of an instruction before its field.                       *)
LEMMA InstrBytes ==
  ASSUME NEW v \in Int, NEW fs, Emittable(fs)
  PROVE  /\ Emittable(<<Byte(0, NoRel), Byte(v, NoRel)>>)
         /\ Emittable(<<Byte(0, NoRel), Byte(0, NoRel)>> \o fs)
<1>1. \A u \in Int : Byte(u, NoRel) \in Bytes /\ Byte(u, NoRel).rel = NoRel
  BY ByteType
<1>2. \A u \in Int : <<Byte(0, NoRel), Byte(u, NoRel)>> \in Seq(Bytes)
  BY <1>1
<1>3. Emittable(<<Byte(0, NoRel), Byte(v, NoRel)>>)
  <2> DEFINE w == <<Byte(0, NoRel), Byte(v, NoRel)>>
  <2>1. Len(w) = 2 /\ \A i \in 1 .. 2 : w[i].rel = NoRel
    BY <1>1
  <2> QED
    BY <1>2, <2>1 DEF Emittable, ItemsWhole
<1>4. Emittable(<<Byte(0, NoRel), Byte(0, NoRel)>> \o fs)
  <2> DEFINE z == <<Byte(0, NoRel), Byte(0, NoRel)>>
             bs == z \o fs
  <2>1. z \in Seq(Bytes) /\ Len(z) = 2 /\ \A i \in 1 .. 2 : z[i].rel = NoRel
    BY <1>1, <1>2
  <2>2. fs \in Seq(Bytes) /\ Len(fs) \in Nat
    BY DEF Emittable
  <2> HIDE DEF z
  <2>0. /\ bs \in Seq(Bytes) /\ Len(bs) = Len(z) + Len(fs)
        /\ \A i \in 1 .. Len(z) + Len(fs) : bs[i] = IF i <= Len(z) THEN z[i] ELSE fs[i - Len(z)]
    BY <2>1, <2>2, ConcatProperties
  <2>3. bs \in Seq(Bytes) /\ Len(bs) = Len(fs) + 2
    BY <2>0, <2>1, <2>2
  <2>4. /\ \A i \in 1 .. 2 : bs[i] = z[i]
        /\ \A i \in 1 .. Len(fs) : bs[i + 2] = fs[i]
    BY <2>0, <2>1, <2>2
  <2> HIDE DEF bs
  <2>5. ASSUME NEW i \in 1 .. Len(bs), bs[i].rel # NoRel
        PROVE  /\ i + Width(bs[i].rel.act) - 1 <= Len(bs)
               /\ \A j \in i + 1 .. i + Width(bs[i].rel.act) - 1 : bs[j].rel = NoRel
    <3>1. i \notin 1 .. 2
      BY <2>1, <2>4, <2>5
    <3>2. PICK k \in 1 .. Len(fs) : i = k + 2
      <4>1. i - 2 \in 1 .. Len(fs)
        BY <2>2, <2>3, <3>1
      <4> QED
        BY <4>1
    <3>3. bs[i] = fs[k]
      BY <2>4, <3>2
    <3>4. Width(fs[k].rel.act) \in 1 .. 4
      <4>1. fs[k] \in Bytes
        BY <2>2
      <4>2. fs[k].rel \in Relocs
        BY <2>5, <3>3, <4>1 DEF Bytes
      <4> QED
        BY <4>2, WidthRange DEF Relocs
    <3>5. k + Width(fs[k].rel.act) - 1 <= Len(fs)
          /\ \A j \in k + 1 .. k + Width(fs[k].rel.act) - 1 : fs[j].rel = NoRel
      BY <2>5, <3>3 DEF Emittable, ItemsWhole
    <3>6. ASSUME NEW j \in i + 1 .. i + Width(fs[k].rel.act) - 1
          PROVE  bs[j].rel = NoRel
      <4>1. j - 2 \in k + 1 .. k + Width(fs[k].rel.act) - 1 /\ j - 2 \in 1 .. Len(fs)
        BY <2>2, <3>2, <3>4, <3>5
      <4>2. bs[j] = fs[j - 2]
        BY <2>4, <4>1
      <4> QED
        BY <3>5, <4>1, <4>2
    <3> QED
      BY <2>2, <2>3, <3>2, <3>3, <3>4, <3>5, <3>6
  <2> QED
    BY <2>3, <2>5 DEF Emittable, ItemsWhole, bs, z
<1> QED
  BY <1>3, <1>4

-----------------------------------------------------------------------------
(* The object file: blocks, and how they are read.                         *)
PlacedRelocs == [act : Acts, base : Int, of : Labels, pos : Nat]
TextBlocks == [typ : {"OBTXT"}, adr : Int, sec : Sections, txt : Seq(0 .. 255), rel : Seq(PlacedRelocs)]
ListItems == Labels \cup [name : Names, val : Int, sec : Int]
ListBlocks == [typ : {"OBSEC", "OBGLO", "OBLOC"}, items : Seq(ListItems)]
OtherBlocks == [typ : {"OBTRA"}, val : Int, rel : Int] \cup {[typ |-> "OBOST"], [typ |-> "OBOND"]}
Blocks == TextBlocks \cup ListBlocks \cup OtherBlocks
Objects == [blks : Seq(Blocks), cur : Blocks \cup {None}, used : Int, nxtloc : Int, nxtsec : Sections]
Entries == [val : 0 .. 255, rel : {NoRel} \cup Relocs, sec : Sections, loc : Int]

ReadBlocks(bs) == FlattenSeq([i \in DOMAIN bs |-> ReadBack(bs[i])])
TextOf(o) == ReadBlocks(o.blks) \o ReadBack(o.cur)

(* The items of the blocks of one type, and those of two objects compared. *)
ItemsOf(b, typ) == IF b.typ = typ THEN b.items ELSE <<>>
ItemsIn(bs, typ) == FlattenSeq([i \in DOMAIN bs |-> ItemsOf(bs[i], typ)])
Listed(o, typ) == ItemsIn(o.blks, typ) \o ItemsOf(o.cur, typ)
ListTypes == {"OBSEC", "OBGLO", "OBLOC"}
SameLists(n, o) == \A typ \in ListTypes : Listed(n, typ) = Listed(o, typ)

(* The relocations of a block, the last one first.                         *)
Descending(rel) ==
  \A i \in 1 .. Len(rel) : rel[i].pos >= 6 /\ \A j \in 1 .. i - 1 : rel[j].pos > rel[i].pos

(* A block is within its bounds, and but for `owed` bytes that are still   *)
(* to come each of its relocatable items is all there.                     *)
TextGood(b, owed) ==
  /\ Descending(b.rel)
  /\ 6 + Len(b.txt) + 3 * Len(b.rel) + owed <= OBJSIZ
  /\ \A i \in 1 .. Len(b.rel) :
       /\ b.rel[i].pos <= 5 + Len(b.txt)
       /\ b.rel[i].pos + Width(b.rel[i].act) <= 6 + Len(b.txt) + owed

Good(o, owed) ==
  /\ o \in Objects
  /\ \A i \in 1 .. Len(o.blks) : o.blks[i].typ = "OBTXT" => TextGood(o.blks[i], 0)
  /\ o.cur.typ = "OBTXT" =>
       /\ TextGood(o.cur, owed)
       /\ o.used = 6 + Len(o.cur.txt) + 3 * Len(o.cur.rel)
       /\ o.nxtloc = o.cur.adr + Len(o.cur.txt) /\ o.nxtsec = o.cur.sec

LEMMA TypeTells ==
  ASSUME NEW b \in Blocks \cup {None}
  PROVE  /\ b.typ = "OBTXT" <=> b \in TextBlocks
         /\ b.typ \in {"OBSEC", "OBGLO", "OBLOC"} <=> b \in ListBlocks
<1>1. CASE b \in TextBlocks
  <2>1. b.typ = "OBTXT"
    BY <1>1 DEF TextBlocks
  <2>2. b \in ListBlocks => b.typ \in {"OBSEC", "OBGLO", "OBLOC"}
    BY DEF ListBlocks
  <2> QED
    BY <1>1, <2>1, <2>2
<1>2. CASE b \in ListBlocks
  <2>1. b.typ \in {"OBSEC", "OBGLO", "OBLOC"}
    BY <1>2 DEF ListBlocks
  <2>2. b \in TextBlocks => b.typ = "OBTXT"
    BY DEF TextBlocks
  <2> QED
    BY <1>2, <2>1, <2>2
<1>3. CASE b \in OtherBlocks \cup {None}
  <2>1. b.typ \in {"OBTRA", "OBOST", "OBOND", "none"}
    BY <1>3 DEF OtherBlocks, None
  <2>2. b \in TextBlocks => b.typ = "OBTXT"
    BY DEF TextBlocks
  <2>3. b \in ListBlocks => b.typ \in {"OBSEC", "OBGLO", "OBLOC"}
    BY DEF ListBlocks
  <2> QED
    BY <2>1, <2>2, <2>3
<1> QED
  BY <1>1, <1>2, <1>3 DEF Blocks

LEMMA RelAtType ==
  ASSUME NEW b \in TextBlocks, NEW i \in Int
  PROVE  RelAt(b, i) \in {NoRel} \cup Relocs
<1> DEFINE rs == {r \in Range(b.rel) : r.pos = i + 5}
           q == CHOOSE r \in rs : TRUE
<1>1. b.rel \in Seq(PlacedRelocs)
  BY DEF TextBlocks
<1>2. Range(b.rel) \subseteq PlacedRelocs
  BY <1>1 DEF Range
<1>3. CASE rs = {}
  BY <1>3 DEF RelAt
<1>4. CASE rs # {}
  <2>1. q \in rs
    BY <1>4
  <2>2. q \in PlacedRelocs
    BY <1>2, <2>1
  <2>3. RelAt(b, i) = [act |-> q.act, base |-> q.base, of |-> q.of]
    BY <1>4 DEF RelAt
  <2> HIDE DEF q
  <2> QED
    BY <2>2, <2>3 DEF PlacedRelocs, Relocs
<1> QED
  BY <1>3, <1>4

LEMMA ReadBackType ==
  ASSUME NEW b \in Blocks \cup {None}
  PROVE  /\ ReadBack(b) \in Seq(Entries)
         /\ b.typ # "OBTXT" => ReadBack(b) = <<>>
         /\ b \in TextBlocks =>
              ReadBack(b) = [i \in 1 .. Len(b.txt) |->
                               [val |-> b.txt[i], rel |-> RelAt(b, i), sec |-> b.sec, loc |-> b.adr + i - 1]]
<1>1. CASE b.typ # "OBTXT"
  BY <1>1, TypeTells DEF ReadBack
<1>2. CASE b.typ = "OBTXT"
  <2>1. b \in TextBlocks
    BY <1>2, TypeTells
  <2>2. b.txt \in Seq(0 .. 255) /\ b.sec \in Sections /\ b.adr \in Int
    BY <2>1 DEF TextBlocks
  <2>3. DOMAIN b.txt = 1 .. Len(b.txt) /\ Len(b.txt) \in Nat
    BY <2>2
  <2>4. ReadBack(b) = [i \in 1 .. Len(b.txt) |->
                         [val |-> b.txt[i], rel |-> RelAt(b, i), sec |-> b.sec, loc |-> b.adr + i - 1]]
    BY <1>2, <2>3 DEF ReadBack
  <2>5. ASSUME NEW i \in 1 .. Len(b.txt)
        PROVE  [val |-> b.txt[i], rel |-> RelAt(b, i), sec |-> b.sec, loc |-> b.adr + i - 1] \in Entries
    <3>1. b.txt[i] \in 0 .. 255 /\ b.adr + i - 1 \in Int
      <4>1. i \in Int
        BY <2>3
      <4>2. b.txt[i] \in 0 .. 255
        BY <2>2, ElementOfSeq
      <4> QED
        BY <2>2, <4>1, <4>2
    <3>2. RelAt(b, i) \in {NoRel} \cup Relocs
      BY <2>1, RelAtType
    <3> QED
      BY <2>2, <3>1, <3>2 DEF Entries
  <2>6. ReadBack(b) \in [1 .. Len(b.txt) -> Entries]
    BY <2>4, <2>5
  <2>7. ReadBack(b) \in Seq(Entries)
    BY <2>3, <2>6, SeqDef
  <2> QED
    BY <1>2, <2>4, <2>7
<1> QED
  BY <1>1, <1>2

(* The blocks, each taken for a sequence, and one block more.              *)
LEMMA FlattenMap ==
  ASSUME NEW S, NEW f \in [Blocks -> Seq(S)], NEW bs \in Seq(Blocks), NEW b \in Blocks
  PROVE  /\ FlattenSeq([i \in DOMAIN bs |-> f[bs[i]]]) \in Seq(S)
         /\ FlattenSeq([i \in DOMAIN Append(bs, b) |-> f[Append(bs, b)[i]]])
              = FlattenSeq([i \in DOMAIN bs |-> f[bs[i]]]) \o f[b]
<1> DEFINE ss == [i \in DOMAIN bs |-> f[bs[i]]]
           new == Append(bs, b)
<1>1. Len(bs) \in Nat /\ DOMAIN bs = 1 .. Len(bs) /\ \A i \in 1 .. Len(bs) : bs[i] \in Blocks
  BY LenProperties
<1>2. \A x \in Blocks : f[x] \in Seq(S)
  OBVIOUS
<1>3. ss \in Seq(Seq(S)) /\ Len(ss) = Len(bs)
  <2> DEFINE T == Seq(S)
             L == Len(bs)
  <2>1. ss \in [1 .. L -> T] /\ L \in Nat
    BY <1>1, <1>2
  <2> HIDE DEF ss, T, L
  <2>2. ss \in Seq(T) /\ Len(ss) = L
    BY <2>1
  <2> QED
    BY <2>2 DEF T, L
<1>4. /\ new \in Seq(Blocks) /\ Len(new) = Len(bs) + 1
      /\ \A i \in 1 .. Len(bs) : new[i] = bs[i]
      /\ new[Len(bs) + 1] = b
  BY AppendProperties
<1>5. DOMAIN new = 1 .. Len(bs) + 1
  BY <1>4, LenProperties
<1> DEFINE tt == [i \in DOMAIN new |-> f[new[i]]]
<1> HIDE DEF new
<1>6. Append(ss, f[b]) = tt
  <2> DEFINE uu == Append(ss, f[b])
  <2>1. /\ uu \in Seq(Seq(S)) /\ Len(uu) = Len(ss) + 1
        /\ \A i \in 1 .. Len(ss) : uu[i] = ss[i]
        /\ uu[Len(ss) + 1] = f[b]
    <3>1. f[b] \in Seq(S)
      BY <1>2
    <3> HIDE DEF ss
    <3> QED
      BY <1>3, <3>1, AppendProperties
  <2>2. uu = [i \in 1 .. Len(bs) + 1 |-> uu[i]]
    <3>1. DOMAIN uu = 1 .. Len(uu) /\ uu \in [1 .. Len(uu) -> Seq(S)]
      BY <2>1, LenProperties
    <3> HIDE DEF uu, ss
    <3> QED
      BY <1>3, <2>1, <3>1
  <2>3. ASSUME NEW i \in 1 .. Len(bs) + 1 PROVE uu[i] = f[new[i]]
    <3>1. CASE i = Len(bs) + 1
      BY <1>3, <1>4, <2>1, <3>1
    <3>2. CASE i # Len(bs) + 1
      <4>1. i \in 1 .. Len(bs)
        BY <1>1, <3>2
      <4>2. uu[i] = ss[i] /\ ss[i] = f[bs[i]]
        BY <1>1, <1>3, <2>1, <4>1
      <4> QED
        BY <1>4, <4>1, <4>2
    <3> QED
      BY <3>1, <3>2
  <2>4. tt = [i \in 1 .. Len(bs) + 1 |-> f[new[i]]]
    BY <1>5
  <2> HIDE DEF uu, ss, tt
  <2> QED
    BY <2>2, <2>3, <2>4 DEF uu
<1>8. FlattenSeq(ss) \in Seq(S)
      /\ FlattenSeq(Append(ss, f[b])) = FlattenSeq(ss) \o f[b]
  <2>1. f[b] \in Seq(S)
    BY <1>2
  <2> HIDE DEF ss
  <2> QED
    BY <1>3, <2>1, FlattenAppend
<1> QED
  BY <1>6, <1>8 DEF new

LEMMA ReadBlocksAppend ==
  ASSUME NEW bs \in Seq(Blocks), NEW b \in Blocks
  PROVE  /\ ReadBlocks(bs) \in Seq(Entries) /\ ReadBlocks(<<>>) = <<>>
         /\ ReadBlocks(Append(bs, b)) = ReadBlocks(bs) \o ReadBack(b)
<1> DEFINE f == [x \in Blocks |-> ReadBack(x)]
           new == Append(bs, b)
<1>1. f \in [Blocks -> Seq(Entries)]
  BY ReadBackType
<1>2. /\ FlattenSeq([i \in DOMAIN bs |-> f[bs[i]]]) \in Seq(Entries)
      /\ FlattenSeq([i \in DOMAIN new |-> f[new[i]]]) = FlattenSeq([i \in DOMAIN bs |-> f[bs[i]]]) \o f[b]
  <2> HIDE DEF f
  <2> QED
    BY <1>1, FlattenMap
<1>3. new \in Seq(Blocks) /\ (\A i \in DOMAIN bs : bs[i] \in Blocks) /\ (\A i \in DOMAIN new : new[i] \in Blocks)
  <2>1. new \in Seq(Blocks)
    BY AppendProperties
  <2> HIDE DEF new
  <2> QED
    BY <2>1
<1> HIDE DEF new
<1>4. /\ [i \in DOMAIN bs |-> f[bs[i]]] = [i \in DOMAIN bs |-> ReadBack(bs[i])]
      /\ [i \in DOMAIN new |-> f[new[i]]] = [i \in DOMAIN new |-> ReadBack(new[i])]
      /\ f[b] = ReadBack(b)
  BY <1>3
<1>5. ReadBlocks(<<>>) = <<>>
  BY DEF ReadBlocks, FlattenSeq
<1> HIDE DEF f
<1> QED
  BY <1>2, <1>4, <1>5 DEF ReadBlocks, new

LEMMA ItemsInAppend ==
  ASSUME NEW bs \in Seq(Blocks), NEW b \in Blocks, NEW typ \in ListTypes
  PROVE  /\ ItemsIn(bs, typ) \in Seq(ListItems) /\ ItemsIn(<<>>, typ) = <<>>
         /\ ItemsOf(b, typ) \in Seq(ListItems)
         /\ ItemsIn(Append(bs, b), typ) = ItemsIn(bs, typ) \o ItemsOf(b, typ)
<1> DEFINE f == [x \in Blocks |-> ItemsOf(x, typ)]
           new == Append(bs, b)
<1>1. \A x \in Blocks : ItemsOf(x, typ) \in Seq(ListItems)
  <2> SUFFICES ASSUME NEW x \in Blocks, x.typ = typ PROVE x.items \in Seq(ListItems)
    BY DEF ItemsOf
  <2>1. x \in ListBlocks
    BY TypeTells DEF ListTypes
  <2> QED
    BY <2>1 DEF ListBlocks
<1>2. /\ FlattenSeq([i \in DOMAIN bs |-> f[bs[i]]]) \in Seq(ListItems)
      /\ FlattenSeq([i \in DOMAIN new |-> f[new[i]]]) = FlattenSeq([i \in DOMAIN bs |-> f[bs[i]]]) \o f[b]
  <2>1. f \in [Blocks -> Seq(ListItems)]
    BY <1>1
  <2> HIDE DEF f
  <2> QED
    BY <2>1, FlattenMap
<1>3. new \in Seq(Blocks) /\ (\A i \in DOMAIN bs : bs[i] \in Blocks) /\ (\A i \in DOMAIN new : new[i] \in Blocks)
  <2>1. new \in Seq(Blocks)
    BY AppendProperties
  <2> HIDE DEF new
  <2> QED
    BY <2>1
<1> HIDE DEF new
<1>4. /\ [i \in DOMAIN bs |-> f[bs[i]]] = [i \in DOMAIN bs |-> ItemsOf(bs[i], typ)]
      /\ [i \in DOMAIN new |-> f[new[i]]] = [i \in DOMAIN new |-> ItemsOf(new[i], typ)]
      /\ f[b] = ItemsOf(b, typ)
  BY <1>3
<1>5. ItemsIn(<<>>, typ) = <<>>
  BY DEF ItemsIn, FlattenSeq
<1> HIDE DEF f
<1> QED
  BY <1>1, <1>2, <1>4, <1>5 DEF ItemsIn, new

LEMMA ListedType ==
  ASSUME NEW o \in Objects, NEW typ \in ListTypes
  PROVE  /\ ItemsIn(o.blks, typ) \in Seq(ListItems) /\ ItemsOf(o.cur, typ) \in Seq(ListItems)
         /\ Listed(o, typ) \in Seq(ListItems)
         /\ o.cur = None => Listed(o, typ) = ItemsIn(o.blks, typ)
<1>1. o.blks \in Seq(Blocks) /\ o.cur \in Blocks \cup {None}
  BY DEF Objects
<1>2. ItemsOf(None, typ) = <<>>
  BY DEF ItemsOf, None, ListTypes
<1>3. [typ |-> "OBOST"] \in Blocks
  BY DEF Blocks, OtherBlocks
<1>4. ItemsIn(o.blks, typ) \in Seq(ListItems) /\ ItemsOf(o.cur, typ) \in Seq(ListItems)
  <2>1. ItemsIn(o.blks, typ) \in Seq(ListItems)
    BY <1>1, <1>3, ItemsInAppend
  <2>2. CASE o.cur = None
    BY <1>2, <2>1, <2>2
  <2>3. CASE o.cur \in Blocks
    BY <1>1, <2>1, <2>3, ItemsInAppend
  <2> QED
    BY <1>1, <2>2, <2>3
<1> QED
  BY <1>2, <1>4, ConcatProperties, ConcatEmptySeq DEF Listed

LEMMA TextType ==
  ASSUME NEW o \in Objects
  PROVE  TextOf(o) \in Seq(Entries)
<1>1. o.blks \in Seq(Blocks) /\ o.cur \in Blocks \cup {None}
  BY DEF Objects
<1>2. ReadBlocks(o.blks) \in Seq(Entries) /\ ReadBack(o.cur) \in Seq(Entries)
  <2>1. [typ |-> "OBOST"] \in Blocks
    BY DEF Blocks, OtherBlocks
  <2> QED
    BY <1>1, <2>1, ReadBlocksAppend, ReadBackType
<1> QED
  BY <1>2, ConcatProperties DEF TextOf

(* Oflush(): the block that is being filled becomes the last one.          *)
LEMMA OflushGood ==
  ASSUME NEW o, Good(o, 0)
  PROVE  /\ Good(Oflush(o), 0) /\ Oflush(o).cur = None
         /\ TextOf(o) \in Seq(Entries) /\ TextOf(Oflush(o)) = TextOf(o)
         /\ SameLists(Oflush(o), o)
<1>1. o \in Objects /\ o.blks \in Seq(Blocks) /\ o.cur \in Blocks \cup {None}
  BY DEF Good, Objects
<1>3. TextOf(o) \in Seq(Entries)
  BY <1>1, TextType
<1>4. None.typ = "none" /\ ReadBack(None) = <<>>
  BY DEF None, ReadBack
<1>5. CASE o.cur = None
  BY <1>3, <1>5 DEF Oflush, SameLists
<1>6. CASE o.cur # None
  <2> DEFINE n == [o EXCEPT !.blks = Append(@, o.cur), !.cur = None, !.used = 0]
  <2>1. Oflush(o) = n
    BY <1>6 DEF Oflush
  <2>2. o.cur \in Blocks
    BY <1>1, <1>6
  <2>3. /\ Append(o.blks, o.cur) \in Seq(Blocks) /\ Len(Append(o.blks, o.cur)) = Len(o.blks) + 1
        /\ \A i \in 1 .. Len(o.blks) : Append(o.blks, o.cur)[i] = o.blks[i]
        /\ Append(o.blks, o.cur)[Len(o.blks) + 1] = o.cur
    BY <1>1, <2>2, AppendProperties
  <2>4. n \in Objects /\ n.cur = None /\ n.blks = Append(o.blks, o.cur)
    <3>1. Append(o.blks, o.cur) \in Seq(Blocks)
      BY <2>3
    <3> DEFINE bs == Append(o.blks, o.cur)
    <3> HIDE DEF bs
    <3>2. n = [o EXCEPT !.blks = bs, !.cur = None, !.used = 0]
      BY <1>1 DEF Objects, bs
    <3> HIDE DEF n
    <3>3. n = [blks |-> bs, cur |-> None, used |-> 0, nxtloc |-> o.nxtloc, nxtsec |-> o.nxtsec]
      BY <1>1, <3>2 DEF Objects
    <3>4. bs \in Seq(Blocks) /\ o.nxtloc \in Int /\ o.nxtsec \in Sections
      BY <1>1, <3>1 DEF Objects, bs
    <3>5. n \in Objects /\ n.cur = None /\ n.blks = bs
      BY <3>3, <3>4 DEF Objects
    <3> QED
      BY <3>5 DEF bs
  <2>5. ASSUME NEW i \in 1 .. Len(n.blks), n.blks[i].typ = "OBTXT" PROVE TextGood(n.blks[i], 0)
    <3> HIDE DEF n
    <3>0. Len(o.blks) \in Nat
      BY <1>1
    <3>1. CASE i = Len(o.blks) + 1
      BY <2>3, <2>4, <2>5, <3>1 DEF Good
    <3>2. CASE i # Len(o.blks) + 1
      <4>1. i \in 1 .. Len(o.blks)
        BY <2>3, <2>4, <3>0, <3>2
      <4> QED
        BY <2>3, <2>4, <2>5, <4>1 DEF Good
    <3> QED
      BY <3>1, <3>2
  <2>6. Good(n, 0)
    <3> HIDE DEF n
    <3> QED
      BY <1>4, <2>4, <2>5 DEF Good
  <2>7. TextOf(n) = TextOf(o)
    <3> HIDE DEF n
    <3>1. ReadBlocks(n.blks) = TextOf(o)
      BY <1>1, <2>2, <2>4, ReadBlocksAppend DEF TextOf
    <3>2. TextOf(n) = TextOf(o) \o <<>>
      BY <1>4, <2>4, <3>1 DEF TextOf
    <3> QED
      BY <1>3, <3>2, ConcatEmptySeq
  <2>8. SameLists(n, o)
    <3> SUFFICES ASSUME NEW typ \in ListTypes PROVE Listed(n, typ) = Listed(o, typ)
      BY DEF SameLists
    <3> HIDE DEF n
    <3>1. Listed(n, typ) = ItemsIn(n.blks, typ)
      BY <2>4, ListedType
    <3>2. ItemsIn(n.blks, typ) = ItemsIn(o.blks, typ) \o ItemsOf(o.cur, typ)
      BY <1>1, <2>2, <2>4, ItemsInAppend
    <3> QED
      BY <3>1, <3>2 DEF Listed
  <2> QED
    BY <1>3, <2>1, <2>4, <2>6, <2>7, <2>8
<1> QED
  BY <1>5, <1>6

(* Setorg(): the block goes on, if the place follows on it.                *)
LEMMA SetorgGood ==
  ASSUME NEW o, NEW owed \in Nat, Good(o, owed), NEW sec \in Sections, NEW loc \in Int,
         owed > 0 => o.cur.typ = "OBTXT" /\ o.nxtloc = loc /\ o.nxtsec = sec
  PROVE  LET n == Setorg(o, sec, loc) IN
         /\ Good(n, owed) /\ n.cur.typ = "OBTXT" /\ n.nxtloc = loc /\ n.nxtsec = sec
         /\ TextOf(n) = TextOf(o) /\ (n = o \/ n.used = 6) /\ SameLists(n, o)
<1>1. CASE o.cur.typ = "OBTXT" /\ o.nxtloc = loc /\ o.nxtsec = sec
  BY <1>1 DEF Setorg, SameLists
<1>2. CASE ~(o.cur.typ = "OBTXT" /\ o.nxtloc = loc /\ o.nxtsec = sec)
  <2> DEFINE f == Oflush(o)
             b == [typ |-> "OBTXT", adr |-> loc, sec |-> sec, txt |-> <<>>, rel |-> <<>>]
             n == [f EXCEPT !.cur = b, !.used = 6, !.nxtloc = loc, !.nxtsec = sec]
  <2>0. owed = 0
    BY <1>2
  <2>1. Setorg(o, sec, loc) = n
    BY <1>2 DEF Setorg
  <2>2. Good(f, 0) /\ f.cur = None /\ TextOf(f) = TextOf(o) /\ TextOf(f) \in Seq(Entries) /\ SameLists(f, o)
    BY <2>0, OflushGood
  <2> HIDE DEF f
  <2>3. b \in TextBlocks /\ Len(b.txt) = 0 /\ Len(b.rel) = 0 /\ b.typ = "OBTXT" /\ b.adr = loc /\ b.sec = sec
    BY DEF TextBlocks
  <2>4. TextGood(b, 0)
    <3> HIDE DEF b
    <3>1. Descending(b.rel)
      BY <2>3 DEF Descending
    <3> QED
      BY <2>3, <3>1, AsmAssumption DEF TextGood
  <2>5. ReadBack(b) = <<>>
    <3>1. b \in Blocks
      BY <2>3 DEF Blocks
    <3>2. ReadBack(b) \in Seq(Entries) /\ ReadBack(b) = [i \in 1 .. Len(b.txt) |->
            [val |-> b.txt[i], rel |-> RelAt(b, i), sec |-> b.sec, loc |-> b.adr + i - 1]]
      BY <2>3, <3>1, ReadBackType
    <3>3. DOMAIN ReadBack(b) = 1 .. 0
      BY <2>3, <3>2
    <3> HIDE DEF b
    <3>4. Len(ReadBack(b)) = 0
      BY <3>2, <3>3
    <3> QED
      BY <3>2, <3>4
  <2> HIDE DEF b
  <2>6. f \in Objects
    BY <2>2 DEF Good
  <2>7. n \in Objects /\ n.cur = b /\ n.blks = f.blks /\ n.used = 6 /\ n.nxtloc = loc /\ n.nxtsec = sec
    <3>1. b \in Blocks
      BY <2>3 DEF Blocks
    <3>2. n = [f EXCEPT !.cur = b, !.used = 6, !.nxtloc = loc, !.nxtsec = sec]
      OBVIOUS
    <3> HIDE DEF n
    <3>3. n = [blks |-> f.blks, cur |-> b, used |-> 6, nxtloc |-> loc, nxtsec |-> sec]
      BY <2>6, <3>2 DEF Objects
    <3>4. f.blks \in Seq(Blocks)
      BY <2>6 DEF Objects
    <3> QED
      BY <3>1, <3>3, <3>4 DEF Objects
  <2> HIDE DEF n
  <2>8. Good(n, 0)
    <3>1. \A i \in 1 .. Len(n.blks) : n.blks[i].typ = "OBTXT" => TextGood(n.blks[i], 0)
      BY <2>2, <2>7 DEF Good
    <3>2. n.nxtloc = n.cur.adr + Len(n.cur.txt)
      BY <2>3, <2>7
    <3> QED
      <4>1. n.cur = b /\ n.used = 6 + Len(b.txt) + 3 * Len(b.rel) /\ n.nxtsec = b.sec
        BY <2>3, <2>7
      <4> QED
        BY <2>4, <2>7, <3>1, <3>2, <4>1 DEF Good
  <2>9. TextOf(n) = TextOf(f)
    <3>1. ReadBack(None) = <<>>
      BY DEF None, ReadBack
    <3> QED
      BY <2>2, <2>5, <2>7, <3>1 DEF TextOf
  <2>10. SameLists(n, o)
    <3> SUFFICES ASSUME NEW typ \in ListTypes PROVE Listed(n, typ) = Listed(o, typ)
      BY DEF SameLists
    <3>1. ItemsOf(n.cur, typ) = <<>> /\ ItemsOf(f.cur, typ) = <<>>
      BY <2>2, <2>3, <2>7 DEF ItemsOf, None, ListTypes
    <3>2. Listed(n, typ) = Listed(f, typ)
      BY <2>7, <3>1 DEF Listed
    <3> QED
      BY <2>2, <3>2 DEF SameLists
  <2> QED
    BY <2>0, <2>1, <2>2, <2>3, <2>7, <2>8, <2>9, <2>10
<1> QED
  BY <1>1, <1>2

(* What a byte adds to the block: it comes last and, if it begins a        *)
(* relocatable item, its relocation comes first.                           *)
RelsWith(b, r) ==
  IF b.rel = NoRel THEN r.rel
  ELSE <<[act |-> b.rel.act, base |-> b.rel.base, of |-> b.rel.of, pos |-> 6 + Len(r.txt)]>> \o r.rel
BlockWith(b, r) ==
  [typ |-> "OBTXT", adr |-> r.adr, sec |-> r.sec, txt |-> Append(r.txt, b.val), rel |-> RelsWith(b, r)]

(* The relocation of byte b behind the text of block r.                    *)
RelAfter(b, r) == [act |-> b.rel.act, base |-> b.rel.base, of |-> b.rel.of, pos |-> 6 + Len(r.txt)]

LEMMA RelsWithType ==
  ASSUME NEW r \in TextBlocks, NEW b \in Bytes
  PROVE  /\ RelsWith(b, r) \in Seq(PlacedRelocs)
         /\ b.rel = NoRel => RelsWith(b, r) = r.rel
         /\ b.rel # NoRel =>
              /\ RelAfter(b, r) \in PlacedRelocs
              /\ Len(RelsWith(b, r)) = Len(r.rel) + 1
              /\ RelsWith(b, r)[1] = RelAfter(b, r)
              /\ \A i \in 1 .. Len(r.rel) : RelsWith(b, r)[i + 1] = r.rel[i]
<1>1. r.rel \in Seq(PlacedRelocs) /\ Len(r.rel) \in Nat /\ Len(r.txt) \in Nat
  BY DEF TextBlocks
<1>2. CASE b.rel = NoRel
  BY <1>1, <1>2 DEF RelsWith
<1>3. CASE b.rel # NoRel
  <2> DEFINE q == [act |-> b.rel.act, base |-> b.rel.base, of |-> b.rel.of, pos |-> 6 + Len(r.txt)]
             t == <<q>> \o r.rel
  <2>0. q = RelAfter(b, r)
    BY DEF RelAfter
  <2>1. b.rel \in Relocs
    BY <1>3 DEF Bytes
  <2>2. q \in PlacedRelocs
    BY <1>1, <2>1 DEF Relocs, PlacedRelocs
  <2>3. RelsWith(b, r) = t
    BY <1>3 DEF RelsWith
  <2> HIDE DEF q
  <2>4. <<q>> \in Seq(PlacedRelocs) /\ Len(<<q>>) = 1 /\ <<q>>[1] = q
    BY <2>2
  <2>5. /\ t \in Seq(PlacedRelocs) /\ Len(t) = 1 + Len(r.rel)
        /\ \A i \in 1 .. 1 + Len(r.rel) : t[i] = IF i <= 1 THEN <<q>>[i] ELSE r.rel[i - 1]
    BY <1>1, <2>4, ConcatProperties
  <2> HIDE DEF t
  <2> DEFINE R == Len(r.rel)
  <2>6. R \in Nat /\ \A i \in 1 .. 1 + R : t[i] = IF i <= 1 THEN <<q>>[i] ELSE r.rel[i - 1]
    BY <1>1, <2>5
  <2> HIDE DEF R
  <2>7. t[1] = q
    BY <2>4, <2>6
  <2>8. ASSUME NEW i \in 1 .. R PROVE t[i + 1] = r.rel[i]
    <3>1. i + 1 \in 1 .. 1 + R /\ ~(i + 1 <= 1) /\ (i + 1) - 1 = i
      BY <2>6
    <3> QED
      BY <2>6, <3>1
  <2> QED
    BY <1>1, <1>3, <2>0, <2>2, <2>3, <2>5, <2>7, <2>8 DEF R
<1> QED
  BY <1>2, <1>3

LEMMA DescendingWith ==
  ASSUME NEW r \in TextBlocks, NEW b \in Bytes, Descending(r.rel),
         \A i \in 1 .. Len(r.rel) : r.rel[i].pos <= 5 + Len(r.txt)
  PROVE  Descending(RelsWith(b, r))
<1>1. CASE b.rel = NoRel
  BY <1>1, RelsWithType
<1>2. CASE b.rel # NoRel
  <2> DEFINE t == RelsWith(b, r)
             R == Len(r.rel)
             L == Len(r.txt)
  <2>0. RelAfter(b, r).pos = 6 + L
    BY DEF RelAfter
  <2>1. t \in Seq(PlacedRelocs) /\ Len(t) = R + 1 /\ t[1].pos = 6 + L /\ \A i \in 1 .. R : t[i + 1] = r.rel[i]
    <3>1. /\ t \in Seq(PlacedRelocs) /\ Len(t) = R + 1 /\ t[1] = RelAfter(b, r)
          /\ \A i \in 1 .. R : t[i + 1] = r.rel[i]
      BY <1>2, RelsWithType
    <3> HIDE DEF t, R, L
    <3> QED
      BY <2>0, <3>1
  <2>2. R \in Nat /\ L \in Nat /\ \A i \in 1 .. R : r.rel[i] \in PlacedRelocs
    BY DEF TextBlocks
  <2>3. \A i \in 1 .. R : r.rel[i].pos \in Nat
    BY <2>2 DEF PlacedRelocs
  <2>4. \A i \in 1 .. R : /\ r.rel[i].pos \in Nat /\ r.rel[i].pos <= 5 + L /\ r.rel[i].pos >= 6
                          /\ \A j \in 1 .. i - 1 : r.rel[j].pos > r.rel[i].pos
    BY <2>3 DEF Descending
  <2> HIDE DEF t, R, L
  <2>5. ASSUME NEW i \in 1 .. R + 1
        PROVE  t[i].pos >= 6 /\ \A j \in 1 .. i - 1 : t[j].pos > t[i].pos
    <3>1. CASE i = 1
      BY <2>1, <2>2, <3>1
    <3>2. CASE i # 1
      <4>1. i - 1 \in 1 .. R /\ (i - 1) + 1 = i
        BY <2>2, <3>2
      <4>2. t[i] = r.rel[i - 1]
        BY <2>1, <4>1
      <4>3. ASSUME NEW j \in 1 .. i - 1 PROVE t[j].pos > t[i].pos
        <5>1. CASE j = 1
          BY <2>1, <2>2, <2>4, <4>1, <4>2, <5>1
        <5>2. CASE j # 1
          <6>1. j - 1 \in 1 .. (i - 1) - 1 /\ (j - 1) + 1 = j /\ j - 1 \in 1 .. R
            BY <2>2, <5>2
          <6>2. t[j] = r.rel[j - 1]
            BY <2>1, <6>1
          <6> QED
            BY <2>4, <4>1, <4>2, <6>1, <6>2
        <5> QED
          BY <5>1, <5>2
      <4> QED
        BY <2>4, <4>1, <4>2, <4>3
    <3> QED
      BY <3>1, <3>2
  <2>6. Descending(t)
    BY <2>1, <2>5 DEF Descending
  <2> QED
    BY <2>6 DEF t
<1> QED
  BY <1>1, <1>2

LEMMA RelAtWith ==
  ASSUME NEW r \in TextBlocks, NEW b \in Bytes,
         \A i \in 1 .. Len(r.rel) : r.rel[i].pos <= 5 + Len(r.txt)
  PROVE  /\ \A i \in 1 .. Len(r.txt) : RelAt(BlockWith(b, r), i) = RelAt(r, i)
         /\ RelAt(BlockWith(b, r), Len(r.txt) + 1) = b.rel
<1> DEFINE c == BlockWith(b, r)
           q == [act |-> b.rel.act, base |-> b.rel.base, of |-> b.rel.of, pos |-> 6 + Len(r.txt)]
           At(s, i) == {x \in Range(s) : x.pos = i + 5}
           new == IF b.rel = NoRel THEN {} ELSE {q}
<1>1. c.rel = RelsWith(b, r)
  BY DEF BlockWith
<1>2. r.rel \in Seq(PlacedRelocs) /\ Len(r.rel) \in Nat /\ Len(r.txt) \in Nat /\ DOMAIN r.rel = 1 .. Len(r.rel)
  BY LenProperties DEF TextBlocks
<1>3. q.pos = 6 + Len(r.txt)
  OBVIOUS
<1>4. Range(c.rel) = Range(r.rel) \cup new
  <2>1. CASE b.rel = NoRel
    <3>1. c.rel = r.rel
      <4>1. RelsWith(b, r) = r.rel
        BY <2>1, RelsWithType
      <4> HIDE DEF c
      <4> QED
        BY <1>1, <4>1
    <3>2. new = {}
      BY <2>1
    <3> HIDE DEF c, new
    <3> QED
      BY <3>1, <3>2
  <2>2. CASE b.rel # NoRel
    <3> DEFINE t == c.rel
    <3>1. /\ t \in Seq(PlacedRelocs) /\ Len(t) = Len(r.rel) + 1 /\ t[1] = q
          /\ \A i \in 1 .. Len(r.rel) : t[i + 1] = r.rel[i]
      <4>1. /\ RelsWith(b, r) \in Seq(PlacedRelocs) /\ Len(RelsWith(b, r)) = Len(r.rel) + 1
            /\ RelsWith(b, r)[1] = RelAfter(b, r)
            /\ \A i \in 1 .. Len(r.rel) : RelsWith(b, r)[i + 1] = r.rel[i]
        BY <2>2, RelsWithType
      <4>2. RelAfter(b, r) = q
        BY DEF RelAfter
      <4>3. t = RelsWith(b, r)
        BY <1>1
      <4> HIDE DEF t, q
      <4> QED
        BY <4>1, <4>2, <4>3
    <3>2. DOMAIN t = 1 .. Len(r.rel) + 1
      BY <3>1, LenProperties
    <3> HIDE DEF t, q
    <3>3. Range(t) = {t[i] : i \in 1 .. Len(r.rel) + 1} /\ Range(r.rel) = {r.rel[i] : i \in 1 .. Len(r.rel)}
      BY <1>2, <3>2 DEF Range
    <3>4. ASSUME NEW i \in 1 .. Len(r.rel) + 1 PROVE t[i] = q \/ t[i] \in Range(r.rel)
      <4>1. CASE i = 1
        BY <3>1, <4>1
      <4>2. CASE i # 1
        <5>1. i - 1 \in 1 .. Len(r.rel) /\ (i - 1) + 1 = i
          BY <1>2, <4>2
        <5>2. t[i] = r.rel[i - 1]
          BY <3>1, <5>1
        <5> QED
          BY <3>3, <5>1, <5>2
      <4> QED
        BY <4>1, <4>2
    <3>5. ASSUME NEW i \in 1 .. Len(r.rel) PROVE r.rel[i] \in Range(t)
      <4>1. i + 1 \in 1 .. Len(r.rel) + 1 /\ t[i + 1] = r.rel[i]
        BY <1>2, <3>1
      <4> QED
        BY <3>3, <4>1
    <3>6. q \in Range(t)
      <4>1. 1 \in 1 .. Len(r.rel) + 1
        BY <1>2
      <4> QED
        BY <3>1, <3>3, <4>1
    <3>7. Range(t) = Range(r.rel) \cup {q}
      BY <3>3, <3>4, <3>5, <3>6
    <3> QED
      BY <2>2, <3>7 DEF t
  <2> QED
    BY <2>1, <2>2
<1>5. \A x \in Range(r.rel) : x \in PlacedRelocs /\ x.pos <= 5 + Len(r.txt)
  BY <1>2 DEF Range
<1>6. \A x \in PlacedRelocs : x.pos \in Nat
  BY DEF PlacedRelocs
<1>8. ASSUME NEW i \in 1 .. Len(r.txt) PROVE RelAt(c, i) = RelAt(r, i)
  <2>1. At(c.rel, i) = At(r.rel, i)
    <3> HIDE DEF q, c
    <3>1. i + 5 # 6 + Len(r.txt)
      BY <1>2
    <3> QED
      BY <1>3, <1>4, <3>1
  <2> HIDE DEF c
  <2> QED
    BY <2>1 DEF RelAt
<1>9. RelAt(c, Len(r.txt) + 1) = b.rel
  <2> DEFINE n == Len(r.txt) + 1
  <2>1. At(c.rel, n) = new
    <3> HIDE DEF q, c
    <3>1. \A x \in Range(r.rel) : x.pos # n + 5
      BY <1>2, <1>5, <1>6
    <3>2. q.pos = n + 5
      BY <1>2, <1>3
    <3> QED
      BY <1>4, <3>1, <3>2
  <2>2. CASE b.rel = NoRel
    <3> HIDE DEF c
    <3> QED
      BY <2>1, <2>2 DEF RelAt
  <2>3. CASE b.rel # NoRel
    <3>1. At(c.rel, n) = {q}
      BY <2>1, <2>3
    <3>2. RelAt(c, n) = [act |-> q.act, base |-> q.base, of |-> q.of]
      <4> HIDE DEF c, q
      <4>1. (CHOOSE x \in {q} : TRUE) = q
        OBVIOUS
      <4> QED
        BY <3>1, <4>1 DEF RelAt
    <3>3. b.rel \in Relocs
      BY <2>3 DEF Bytes
    <3>4. b.rel = [act |-> b.rel.act, base |-> b.rel.base, of |-> b.rel.of]
      BY <3>3 DEF Relocs
    <3> QED
      BY <3>2, <3>4
  <2> QED
    BY <2>2, <2>3
<1> QED
  BY <1>8, <1>9

EntryAt(b, sec, loc) == [val |-> b.val, rel |-> b.rel, sec |-> sec, loc |-> loc]

LEMMA BlockWithGood ==
  ASSUME NEW r \in TextBlocks, NEW b \in Bytes,
         \A i \in 1 .. Len(r.rel) : r.rel[i].pos <= 5 + Len(r.txt)
  PROVE  /\ BlockWith(b, r) \in TextBlocks
         /\ ReadBack(BlockWith(b, r)) = Append(ReadBack(r), EntryAt(b, r.sec, r.adr + Len(r.txt)))
<1> DEFINE c == BlockWith(b, r)
           n == Len(r.txt)
           e == EntryAt(b, r.sec, r.adr + n)
<1>1. r.txt \in Seq(0 .. 255) /\ r.adr \in Int /\ r.sec \in Sections /\ n \in Nat
  BY DEF TextBlocks
<1>2. b.val \in 0 .. 255 /\ b.rel \in {NoRel} \cup Relocs
  BY DEF Bytes
<1>3. /\ Append(r.txt, b.val) \in Seq(0 .. 255) /\ Len(Append(r.txt, b.val)) = n + 1
      /\ \A i \in 1 .. n : Append(r.txt, b.val)[i] = r.txt[i]
      /\ Append(r.txt, b.val)[n + 1] = b.val
  BY <1>1, <1>2, AppendProperties
<1>4. RelsWith(b, r) \in Seq(PlacedRelocs)
  BY RelsWithType
<1>5. /\ c.txt = Append(r.txt, b.val) /\ c.adr = r.adr /\ c.sec = r.sec
      /\ c \in TextBlocks
  <2> DEFINE t == Append(r.txt, b.val)
             s == RelsWith(b, r)
  <2>1. c = [typ |-> "OBTXT", adr |-> r.adr, sec |-> r.sec, txt |-> t, rel |-> s]
    BY DEF BlockWith
  <2>2. t \in Seq(0 .. 255) /\ s \in Seq(PlacedRelocs)
    BY <1>3, <1>4
  <2> HIDE DEF t, s, c
  <2>3. c.txt = t /\ c.adr = r.adr /\ c.sec = r.sec /\ c \in TextBlocks
    BY <1>1, <2>1, <2>2 DEF TextBlocks
  <2> QED
    BY <2>3 DEF t
<1>6. /\ \A i \in 1 .. n : RelAt(c, i) = RelAt(r, i)
      /\ RelAt(c, n + 1) = b.rel
  BY RelAtWith
<1> HIDE DEF c
<1>7. r \in Blocks \cup {None} /\ c \in Blocks \cup {None}
  BY <1>5 DEF Blocks
<1> DEFINE old == ReadBack(r)
           now == ReadBack(c)
<1>8. /\ now = [i \in 1 .. n + 1 |-> [val |-> c.txt[i], rel |-> RelAt(c, i), sec |-> c.sec, loc |-> c.adr + i - 1]]
      /\ old = [i \in 1 .. n |-> [val |-> r.txt[i], rel |-> RelAt(r, i), sec |-> r.sec, loc |-> r.adr + i - 1]]
      /\ old \in Seq(Entries)
  BY <1>3, <1>5, <1>7, ReadBackType
<1>9. e \in Entries
  <2>1. r.adr + n \in Int
    BY <1>1
  <2> QED
    BY <1>1, <1>2, <2>1 DEF EntryAt, Entries
<1>10. DOMAIN old = 1 .. n /\ Len(old) = n
  BY <1>1, <1>8
<1> DEFINE app == Append(old, e)
<1>11. /\ app \in Seq(Entries) /\ Len(app) = n + 1
       /\ \A i \in 1 .. n : app[i] = old[i]
       /\ app[n + 1] = e
  <2> HIDE DEF old, e
  <2> QED
    BY <1>8, <1>9, <1>10, AppendProperties
<1>12. app = [i \in 1 .. n + 1 |-> app[i]]
  <2> HIDE DEF app
  <2> QED
    BY <1>1, <1>11, LenProperties
<1>13. ASSUME NEW i \in 1 .. n + 1 PROVE app[i] = now[i]
  <2>1. CASE i = n + 1
    <3>1. now[i] = [val |-> b.val, rel |-> b.rel, sec |-> r.sec, loc |-> r.adr + (n + 1) - 1]
      BY <1>3, <1>5, <1>6, <1>8, <2>1
    <3>2. r.adr + (n + 1) - 1 = r.adr + n
      BY <1>1
    <3> QED
      BY <1>11, <2>1, <3>1, <3>2 DEF EntryAt
  <2>2. CASE i # n + 1
    <3>1. i \in 1 .. n
      BY <1>1, <2>2
    <3>2. now[i] = [val |-> r.txt[i], rel |-> RelAt(r, i), sec |-> r.sec, loc |-> r.adr + i - 1]
      BY <1>3, <1>5, <1>6, <1>8, <3>1
    <3>3. old[i] = [val |-> r.txt[i], rel |-> RelAt(r, i), sec |-> r.sec, loc |-> r.adr + i - 1]
      BY <1>8, <3>1
    <3> QED
      BY <1>11, <3>1, <3>2, <3>3
  <2> QED
    BY <2>1, <2>2
<1>14. now = [i \in 1 .. n + 1 |-> now[i]]
  BY <1>8
<1>15. now = app
  <2> HIDE DEF now, app
  <2> QED
    BY <1>12, <1>13, <1>14
<1> QED
  BY <1>5, <1>15 DEF c

(* Emitb(): one more byte, of `owed` that complete an item or, if none is  *)
(* owed, of a new item.                                                    *)
LEMMA BlockBounds == OBJSIZ \in Int /\ OBJSIZ >= 15
BY AsmAssumption

LEMMA EmitbGood ==
  ASSUME NEW o, NEW owed \in Nat, Good(o, owed), NEW sec \in Sections, NEW loc \in Int, NEW b \in Bytes,
         owed > 0 => o.cur.typ = "OBTXT" /\ o.nxtloc = loc /\ o.nxtsec = sec /\ b.rel = NoRel,
         NEW rest \in Nat,
         rest = IF b.rel # NoRel THEN Width(b.rel.act) - 1 ELSE IF owed > 0 THEN owed - 1 ELSE 0
  PROVE  LET n == Emitb(o, sec, loc, b) IN
         /\ Good(n, rest) /\ n.cur.typ = "OBTXT" /\ n.nxtloc = loc + 1 /\ n.nxtsec = sec
         /\ TextOf(o) \in Seq(Entries) /\ TextOf(n) = Append(TextOf(o), EntryAt(b, sec, loc))
         /\ SameLists(n, o)
<1> DEFINE f == IF Room(o) < Need(b) THEN Oflush(o) ELSE o
           p == Setorg(f, sec, loc)
           r == p.cur
           c == BlockWith(b, r)
           grow == IF b.rel = NoRel THEN 1 ELSE 4
           n == [blks |-> p.blks, cur |-> c, used |-> p.used + grow, nxtloc |-> loc + 1, nxtsec |-> p.nxtsec]
<1>1. o \in Objects /\ o.used \in Int
  BY DEF Good, Objects
<1>2. OBJSIZ \in Int /\ OBJSIZ >= 15
  BY BlockBounds
<1>3. b.rel # NoRel => Width(b.rel.act) \in 1 .. 4
  BY WidthRange DEF Bytes, Relocs
<1>4. Need(b) = IF b.rel # NoRel THEN 7 ELSE 1
  BY DEF Need
<1>5. owed > 0 => f = o /\ o.used + owed <= OBJSIZ
  <2> SUFFICES ASSUME owed > 0 PROVE f = o /\ o.used + owed <= OBJSIZ
    OBVIOUS
  <2>1. TextGood(o.cur, owed) /\ o.used = 6 + Len(o.cur.txt) + 3 * Len(o.cur.rel)
    BY DEF Good
  <2>2. o.used + owed <= OBJSIZ
    BY <2>1 DEF TextGood
  <2>3. ~(Room(o) < Need(b))
    BY <1>1, <1>2, <1>4, <2>2 DEF Room
  <2> QED
    BY <2>2, <2>3
<1>6. owed = 0 => Good(o, 0)
  OBVIOUS
<1>7. /\ Good(f, owed) /\ TextOf(f) = TextOf(o) /\ SameLists(f, o)
      /\ Room(o) < Need(b) => f.cur = None
      /\ ~(Room(o) < Need(b)) => f = o
  <2>1. CASE owed > 0
    <3>1. ~(Room(o) < Need(b))
      BY <1>1, <1>2, <1>4, <1>5, <2>1 DEF Room
    <3> QED
      BY <1>5, <2>1, <3>1 DEF SameLists
  <2>2. CASE owed = 0
    BY <2>2, OflushGood DEF SameLists
  <2> QED
    BY <2>1, <2>2
<1>8. TextOf(o) \in Seq(Entries)
  BY <1>1, TextType
<1>9. owed > 0 => f.cur.typ = "OBTXT" /\ f.nxtloc = loc /\ f.nxtsec = sec
  BY <1>5
<1> HIDE DEF f
<1>10. /\ Good(p, owed) /\ p.cur.typ = "OBTXT" /\ p.nxtloc = loc /\ p.nxtsec = sec
       /\ TextOf(p) = TextOf(o) /\ (p = f \/ p.used = 6) /\ SameLists(p, o)
  BY <1>7, <1>9, SetorgGood DEF SameLists
<1>11. Emitb(o, sec, loc, b) =
         [p EXCEPT !.cur.txt = Append(@, b.val), !.cur.rel = RelsWith(b, r),
                   !.used = @ + grow, !.nxtloc = loc + 1]
  BY DEF Emitb, RelsWith, f
<1> HIDE DEF p
<1>12. p \in Objects /\ p.blks \in Seq(Blocks) /\ r \in TextBlocks /\ p.used \in Int
  <2>1. p \in Objects
    BY <1>10 DEF Good
  <2>2. p.cur \in Blocks \cup {None} /\ p.blks \in Seq(Blocks) /\ p.used \in Int
    BY <2>1 DEF Objects
  <2> QED
    BY <1>10, <2>1, <2>2, TypeTells
<1>13. Len(r.txt) \in Nat /\ Len(r.rel) \in Nat /\ r.adr \in Int /\ r.sec \in Sections /\ r.typ = "OBTXT"
  BY <1>12 DEF TextBlocks
<1>14. /\ 6 + Len(r.txt) + 3 * Len(r.rel) + owed <= OBJSIZ
       /\ p.used = 6 + Len(r.txt) + 3 * Len(r.rel)
       /\ loc = r.adr + Len(r.txt) /\ sec = r.sec /\ Descending(r.rel)
       /\ \A i \in 1 .. Len(r.rel) :
            /\ r.rel[i].pos <= 5 + Len(r.txt)
            /\ r.rel[i].pos + Width(r.rel[i].act) <= 6 + Len(r.txt) + owed
  BY <1>10 DEF Good, TextGood
<1>15. p.used + Need(b) <= OBJSIZ
  <2>1. CASE p.used = 6
    BY <1>2, <1>4, <2>1
  <2>2. CASE p = f
    <3>1. f.cur # None
      BY <1>10, <2>2 DEF None
    <3>2. f = o /\ ~(Room(o) < Need(b))
      BY <1>7, <3>1
    <3> QED
      BY <1>1, <1>2, <1>4, <2>2, <3>2 DEF Room
  <2> QED
    BY <1>10, <2>1, <2>2
<1>16. /\ c \in TextBlocks
       /\ ReadBack(c) = Append(ReadBack(r), EntryAt(b, sec, loc))
  BY <1>12, <1>14, BlockWithGood
<1>17. Emitb(o, sec, loc, b) = n
  <2>1. p = [blks |-> p.blks, cur |-> r, used |-> p.used, nxtloc |-> p.nxtloc, nxtsec |-> p.nxtsec]
    BY <1>12 DEF Objects
  <2>2. r = [typ |-> "OBTXT", adr |-> r.adr, sec |-> r.sec, txt |-> r.txt, rel |-> r.rel]
    BY <1>12 DEF TextBlocks
  <2>3. c = [r EXCEPT !.txt = Append(@, b.val), !.rel = RelsWith(b, r)]
    <3> DEFINE t == Append(r.txt, b.val)
               s == RelsWith(b, r)
    <3>1. c = [typ |-> "OBTXT", adr |-> r.adr, sec |-> r.sec, txt |-> t, rel |-> s]
      BY DEF BlockWith
    <3>2. [r EXCEPT !.txt = Append(@, b.val), !.rel = RelsWith(b, r)] = [r EXCEPT !.txt = t, !.rel = s]
      BY <2>2
    <3> HIDE DEF c, r, t, s
    <3>3. [r EXCEPT !.txt = t, !.rel = s]
            = [typ |-> "OBTXT", adr |-> r.adr, sec |-> r.sec, txt |-> t, rel |-> s]
      <4> DEFINE ra == r.adr
                 rs == r.sec
                 rt == r.txt
                 rr == r.rel
      <4>1. r = [typ |-> "OBTXT", adr |-> ra, sec |-> rs, txt |-> rt, rel |-> rr]
        BY <2>2
      <4> HIDE DEF ra, rs, rt, rr
      <4>2. [r EXCEPT !.txt = t, !.rel = s] = [typ |-> "OBTXT", adr |-> ra, sec |-> rs, txt |-> t, rel |-> s]
        <5> DEFINE q == [r EXCEPT !.txt = t, !.rel = s]
        <5>1. q = [r EXCEPT !.txt = t, !.rel = s]
          OBVIOUS
        <5> HIDE DEF q
        <5>2. q = [typ |-> "OBTXT", adr |-> ra, sec |-> rs, txt |-> t, rel |-> s]
          BY <4>1, <5>1
        <5> QED
          BY <5>1, <5>2
      <4> QED
        BY <4>2 DEF ra, rs
    <3> QED
      BY <3>1, <3>2, <3>3
  <2>4. [p EXCEPT !.cur.txt = Append(@, b.val), !.cur.rel = RelsWith(b, r),
                   !.used = @ + grow, !.nxtloc = loc + 1]
          = [p EXCEPT !.cur = [r EXCEPT !.txt = Append(@, b.val), !.rel = RelsWith(b, r)],
                      !.used = @ + grow, !.nxtloc = loc + 1]
    BY <2>1, <2>2
  <2> QED
    BY <1>11, <2>1, <2>3, <2>4
<1> HIDE DEF n
<1>18. n.cur = c /\ n.blks = p.blks /\ n.used = p.used + grow /\ n.nxtloc = loc + 1 /\ n.nxtsec = sec
       /\ n \in Objects
  <2>1. n = [blks |-> p.blks, cur |-> c, used |-> p.used + grow, nxtloc |-> loc + 1, nxtsec |-> sec]
    BY <1>10 DEF n
  <2>2. c \in Blocks \cup {None} /\ p.used + grow \in Int /\ loc + 1 \in Int
    BY <1>12, <1>16 DEF Blocks
  <2> HIDE DEF c
  <2> QED
    BY <1>12, <2>1, <2>2 DEF Objects
<1>19. TextOf(n) = Append(TextOf(o), EntryAt(b, sec, loc))
  <2> DEFINE x == ReadBlocks(p.blks)
             y == ReadBack(r)
             e == EntryAt(b, sec, loc)
  <2>1. x \in Seq(Entries) /\ y \in Seq(Entries)
    <3>1. r \in Blocks
      BY <1>12 DEF Blocks
    <3> QED
      BY <1>12, <3>1, ReadBlocksAppend, ReadBackType
  <2>2. e \in Entries
    BY DEF EntryAt, Entries, Bytes
  <2>3. TextOf(o) = x \o y
    BY <1>10 DEF TextOf
  <2>4. TextOf(n) = x \o Append(y, e)
    BY <1>16, <1>18 DEF TextOf
  <2> HIDE DEF x, y, e
  <2>5. Append(y, e) = y \o <<e>> /\ Append(x \o y, e) = (x \o y) \o <<e>>
    BY <2>1, <2>2, AppendIsConcat, ConcatProperties
  <2>6. x \o (y \o <<e>>) = (x \o y) \o <<e>>
    BY <2>1, <2>2, ConcatAssociative
  <2> QED
    BY <2>3, <2>4, <2>5, <2>6 DEF e
<1>20. /\ Len(c.txt) = Len(r.txt) + 1 /\ c.adr = r.adr /\ c.sec = r.sec /\ c.typ = "OBTXT"
       /\ c.rel = RelsWith(b, r)
  <2>1. b.val \in 0 .. 255 /\ r.txt \in Seq(0 .. 255)
    BY <1>12 DEF Bytes, TextBlocks
  <2>2. Len(Append(r.txt, b.val)) = Len(r.txt) + 1
    BY <2>1, AppendProperties
  <2>3. c = [typ |-> "OBTXT", adr |-> r.adr, sec |-> r.sec, txt |-> Append(r.txt, b.val), rel |-> RelsWith(b, r)]
    BY DEF BlockWith
  <2> HIDE DEF c, r
  <2> QED
    BY <2>2, <2>3
<1> DEFINE L == Len(r.txt)
           R == Len(r.rel)
           CL == Len(c.txt)
           CR == Len(c.rel)
<1>21. /\ L \in Nat /\ R \in Nat /\ CL = L + 1
       /\ 6 + L + 3 * R + owed <= OBJSIZ /\ p.used = 6 + L + 3 * R
       /\ p.used + Need(b) <= OBJSIZ
  BY <1>13, <1>14, <1>15, <1>20
<1>22. \A i \in 1 .. R :
         /\ r.rel[i].pos \in Nat /\ Width(r.rel[i].act) \in 1 .. 4
         /\ r.rel[i].pos <= 5 + L
         /\ r.rel[i].pos + Width(r.rel[i].act) <= 6 + L + owed
  <2>1. \A i \in 1 .. R : r.rel[i] \in PlacedRelocs
    BY <1>12 DEF TextBlocks
  <2>2. \A x \in PlacedRelocs : x.pos \in Nat /\ Width(x.act) \in 1 .. 4
    BY WidthRange DEF PlacedRelocs
  <2> QED
    BY <1>14, <2>1, <2>2
<1>23. /\ 6 + CL + 3 * CR + rest <= OBJSIZ /\ p.used + grow = 6 + CL + 3 * CR
       /\ \A i \in 1 .. CR : /\ c.rel[i].pos <= 5 + CL
                             /\ c.rel[i].pos + Width(c.rel[i].act) <= 6 + CL + rest
  <2>1. CASE b.rel = NoRel
    <3>1. c.rel = r.rel /\ CR = R
      BY <1>12, <1>20, <2>1, RelsWithType
    <3>2. /\ owed > 0 => rest = owed - 1
          /\ owed = 0 => rest = 0
      BY <2>1
    <3>3. grow = 1 /\ Need(b) = 1
      BY <1>4, <2>1
    <3> HIDE DEF L, R, CL, CR, c, r, grow
    <3>4. 6 + CL + 3 * CR + rest <= OBJSIZ /\ p.used + grow = 6 + CL + 3 * CR
      BY <1>2, <1>21, <3>1, <3>2, <3>3
    <3>5. ASSUME NEW i \in 1 .. CR
          PROVE  /\ c.rel[i].pos <= 5 + CL
                 /\ c.rel[i].pos + Width(c.rel[i].act) <= 6 + CL + rest
      BY <1>21, <1>22, <3>1, <3>2
    <3> QED
      BY <3>4, <3>5
  <2>2. CASE b.rel # NoRel
    <3> DEFINE q == [act |-> b.rel.act, base |-> b.rel.base, of |-> b.rel.of, pos |-> 6 + Len(r.txt)]
    <3>1. /\ CR = R + 1 /\ c.rel[1] = q
          /\ \A i \in 1 .. R : c.rel[i + 1] = r.rel[i]
      <4>1. q = RelAfter(b, r)
        BY DEF RelAfter
      <4>2. /\ Len(RelsWith(b, r)) = Len(r.rel) + 1 /\ RelsWith(b, r)[1] = RelAfter(b, r)
            /\ \A i \in 1 .. Len(r.rel) : RelsWith(b, r)[i + 1] = r.rel[i]
        <5> HIDE DEF r, c, n, p, f
        <5> QED
          BY <1>12, <2>2, RelsWithType
      <4>3. c.rel = RelsWith(b, r)
        BY <1>20
      <4> HIDE DEF q
      <4> QED
        BY <4>1, <4>2, <4>3
    <3>2. owed = 0 /\ rest = Width(b.rel.act) - 1 /\ grow = 4 /\ Need(b) = 7 /\ Width(b.rel.act) \in 1 .. 4
      BY <1>3, <1>4, <2>2
    <3>3. q.pos = 6 + L /\ q.act = b.rel.act
      OBVIOUS
    <3> HIDE DEF L, R, CL, CR, c, r, q, grow
    <3>4. 6 + CL + 3 * CR + rest <= OBJSIZ /\ p.used + grow = 6 + CL + 3 * CR
      BY <1>2, <1>21, <3>1, <3>2
    <3>5. ASSUME NEW i \in 1 .. CR
          PROVE  /\ c.rel[i].pos <= 5 + CL
                 /\ c.rel[i].pos + Width(c.rel[i].act) <= 6 + CL + rest
      <4>1. CASE i = 1
        BY <1>21, <3>1, <3>2, <3>3, <4>1
      <4>2. CASE i # 1
        <5>1. i - 1 \in 1 .. R /\ (i - 1) + 1 = i
          BY <1>21, <3>1, <4>2
        <5>2. c.rel[i] = r.rel[i - 1]
          BY <3>1, <5>1
        <5> QED
          BY <1>21, <1>22, <3>2, <5>1, <5>2
      <4> QED
        BY <4>1, <4>2
    <3> QED
      BY <3>4, <3>5
  <2> QED
    BY <2>1, <2>2
<1>24. TextGood(c, rest) /\ p.used + grow = 6 + Len(c.txt) + 3 * Len(c.rel)
  <2>1. Descending(RelsWith(b, r))
    BY <1>12, <1>14, DescendingWith
  <2>2. Descending(c.rel)
    BY <1>20, <2>1
  <2> QED
    BY <1>23, <2>2 DEF TextGood
<1>25. Good(n, rest)
  <2> HIDE DEF c
  <2>1. \A i \in 1 .. Len(n.blks) : n.blks[i].typ = "OBTXT" => TextGood(n.blks[i], 0)
    BY <1>10, <1>18 DEF Good
  <2>2. n.nxtloc = n.cur.adr + Len(n.cur.txt) /\ n.nxtsec = n.cur.sec
    BY <1>13, <1>14, <1>18, <1>20
  <2> QED
    BY <1>18, <1>24, <2>1, <2>2 DEF Good
<1>26. SameLists(n, o)
  <2> SUFFICES ASSUME NEW typ \in ListTypes PROVE Listed(n, typ) = Listed(o, typ)
    BY DEF SameLists
  <2>1. ItemsOf(n.cur, typ) = <<>> /\ ItemsOf(p.cur, typ) = <<>>
    <3> HIDE DEF c
    <3> QED
      BY <1>10, <1>18, <1>20 DEF ItemsOf, ListTypes
  <2>2. Listed(n, typ) = Listed(p, typ)
    BY <1>18, <2>1 DEF Listed
  <2> QED
    BY <1>10, <2>2 DEF SameLists
<1> QED
  BY <1>8, <1>17, <1>18, <1>19, <1>20, <1>25, <1>26

(* EmitAll(): what is emitted is added to what is read back.               *)
EntriesOf(bs, sec, loc, n) == [i \in 1 .. n |-> EntryAt(bs[i], sec, loc + i - 1)]

LEMMA EntriesOfMore ==
  ASSUME NEW bs \in Seq(Bytes), NEW sec \in Sections, NEW loc \in Int, NEW n \in Nat, n <= Len(bs)
  PROVE  /\ EntriesOf(bs, sec, loc, n) \in Seq(Entries) /\ Len(EntriesOf(bs, sec, loc, n)) = n
         /\ n + 1 <= Len(bs) =>
              /\ EntryAt(bs[n + 1], sec, loc + n) \in Entries
              /\ EntriesOf(bs, sec, loc, n + 1)
                   = Append(EntriesOf(bs, sec, loc, n), EntryAt(bs[n + 1], sec, loc + n))
<1> DEFINE E(i) == EntryAt(bs[i], sec, loc + i - 1)
           old == EntriesOf(bs, sec, loc, n)
           now == EntriesOf(bs, sec, loc, n + 1)
<1>1. Len(bs) \in Nat
  OBVIOUS
<1>2. ASSUME NEW i \in 1 .. Len(bs) PROVE E(i) \in Entries
  <2>1. bs[i] \in Bytes /\ i \in Int /\ loc + i - 1 \in Int
    BY <1>1
  <2> QED
    BY <2>1 DEF EntryAt, Entries, Bytes
<1>3. old \in Seq(Entries) /\ Len(old) = n /\ old = [i \in 1 .. n |-> E(i)]
  <2>1. old = [i \in 1 .. n |-> E(i)]
    BY DEF EntriesOf
  <2>2. \A i \in 1 .. n : E(i) \in Entries
    BY <1>1, <1>2
  <2> HIDE DEF E, old
  <2>3. old \in [1 .. n -> Entries]
    BY <2>1, <2>2
  <2> QED
    BY <2>1, <2>3
<1>4. ASSUME n + 1 <= Len(bs)
      PROVE  E(n + 1) \in Entries /\ now = Append(old, E(n + 1)) /\ E(n + 1) = EntryAt(bs[n + 1], sec, loc + n)
  <2>1. E(n + 1) \in Entries
    BY <1>1, <1>2, <1>4
  <2>2. now = [i \in 1 .. n + 1 |-> E(i)]
    BY DEF EntriesOf
  <2>3. E(n + 1) = EntryAt(bs[n + 1], sec, loc + n)
    <3>1. loc + (n + 1) - 1 = loc + n
      OBVIOUS
    <3> QED
      BY <3>1
  <2> HIDE DEF E, old, now
  <2> DEFINE app == Append(old, E(n + 1))
  <2>4. /\ app \in Seq(Entries) /\ Len(app) = n + 1
        /\ \A i \in 1 .. n : app[i] = old[i]
        /\ app[n + 1] = E(n + 1)
    BY <1>3, <2>1, AppendProperties
  <2> HIDE DEF app
  <2>5. app = [i \in 1 .. n + 1 |-> app[i]]
    BY <2>4, LenProperties
  <2>6. \A i \in 1 .. n + 1 : app[i] = E(i)
    <3>1. \A i \in 1 .. n : app[i] = E(i)
      BY <1>3, <2>4
    <3> QED
      BY <2>4, <3>1
  <2>7. app = [i \in 1 .. n + 1 |-> E(i)]
    BY <2>5, <2>6
  <2> QED
    BY <2>1, <2>2, <2>3, <2>7 DEF app
<1> QED
  BY <1>3, <1>4

(* EmitAll goes through the objects p[0], p[1], ...                        *)
EmitRun(p, o, sec, loc, bs) ==
  /\ EmitAll(o, sec, loc, bs) = p[Len(bs)] /\ p[0] = o
  /\ \A i \in 1 .. Len(bs) : p[i] = Emitb(p[i - 1], sec, loc + i - 1, bs[i])

LEMMA EmitAllRuns ==
  ASSUME NEW o, NEW sec, NEW loc, NEW bs, Len(bs) \in Nat
  PROVE  \E p : EmitRun(p, o, sec, loc, bs)
<1> DEFINE N == Len(bs)
           Run(p, n) == p = [i \in 0 .. n |-> IF i = 0 THEN o ELSE Emitb(p[i - 1], sec, loc + i - 1, bs[i])]
           T == {n \in Nat : \E p : Run(p, n)}
<1>1. 0 \in T
  <2> DEFINE p == [i \in 0 .. 0 |-> o]
  <2>1. p = [i \in 0 .. 0 |-> IF i = 0 THEN o ELSE Emitb(p[i - 1], sec, loc + i - 1, bs[i])]
    OBVIOUS
  <2> HIDE DEF p
  <2> QED
    BY <2>1
<1>2. ASSUME NEW n \in Nat, n \in T PROVE n + 1 \in T
  <2>1. PICK p : Run(p, n)
    BY <1>2
  <2> DEFINE new == Emitb(p[n], sec, loc + (n + 1) - 1, bs[n + 1])
             q == [i \in 0 .. n + 1 |-> IF i = n + 1 THEN new ELSE p[i]]
  <2>2. ASSUME NEW i \in 0 .. n + 1
        PROVE  q[i] = IF i = 0 THEN o ELSE Emitb(q[i - 1], sec, loc + i - 1, bs[i])
    <3>1. CASE i = n + 1
      <4>1. q[i] = new /\ q[i - 1] = p[n] /\ i # 0
        <5> HIDE DEF new
        <5> QED
          BY <3>1
      <4> QED
        BY <3>1, <4>1
    <3>2. CASE i # n + 1
      <4>1. i \in 0 .. n /\ q[i] = p[i] /\ (i # 0 => q[i - 1] = p[i - 1])
        <5> HIDE DEF new
        <5> QED
          BY <3>2
      <4>2. p[i] = IF i = 0 THEN o ELSE Emitb(p[i - 1], sec, loc + i - 1, bs[i])
        BY <2>1, <4>1
      <4> QED
        BY <4>1, <4>2
    <3> QED
      BY <3>1, <3>2
  <2>3. q = [i \in 0 .. n + 1 |-> q[i]]
    OBVIOUS
  <2> HIDE DEF q
  <2>4. Run(q, n + 1)
    BY <2>2, <2>3
  <2> HIDE DEF Run
  <2> QED
    BY <2>4
<1>3. Nat \subseteq T
  <2> HIDE DEF T
  <2> QED
    BY <1>1, <1>2, NatSetInduction
<1> DEFINE p == CHOOSE p : Run(p, N)
<1>4. Run(p, N)
  <2>1. \E x : Run(x, N)
    BY <1>3
  <2> HIDE DEF Run
  <2> QED
    BY <2>1
<1>5. EmitAll(o, sec, loc, bs) = p[N]
  BY DEF EmitAll
<1> HIDE DEF p
<1>6. p[0] = o /\ \A i \in 1 .. N : p[i] = Emitb(p[i - 1], sec, loc + i - 1, bs[i])
  BY <1>4
<1>7. EmitRun(p, o, sec, loc, bs)
  BY <1>5, <1>6 DEF EmitRun
<1> QED
  BY <1>7

LEMMA EmitAllGood ==
  ASSUME NEW o, Good(o, 0), NEW sec \in Sections, NEW loc \in Int, NEW bs, Emittable(bs)
  PROVE  /\ Good(EmitAll(o, sec, loc, bs), 0)
         /\ TextOf(o) \in Seq(Entries) /\ EntriesOf(bs, sec, loc, Len(bs)) \in Seq(Entries)
         /\ TextOf(EmitAll(o, sec, loc, bs)) = TextOf(o) \o EntriesOf(bs, sec, loc, Len(bs))
         /\ SameLists(EmitAll(o, sec, loc, bs), o)
<1> DEFINE N == Len(bs)
           E(i) == EntriesOf(bs, sec, loc, i)
<1>1. bs \in Seq(Bytes) /\ N \in Nat /\ ItemsWhole(bs)
  BY DEF Emittable
<1>2. PICK p : /\ EmitAll(o, sec, loc, bs) = p[N] /\ p[0] = o
               /\ \A i \in 1 .. N : p[i] = Emitb(p[i - 1], sec, loc + i - 1, bs[i])
  <2>1. \E p : EmitRun(p, o, sec, loc, bs)
    BY <1>1, EmitAllRuns
  <2> QED
    BY <2>1 DEF EmitRun
<1>3. TextOf(o) \in Seq(Entries)
  BY TextType DEF Good
<1> DEFINE At(i, owed) ==
             /\ Good(p[i], owed) /\ i + owed <= N /\ TextOf(p[i]) = TextOf(o) \o E(i)
             /\ SameLists(p[i], o)
             /\ \A j \in i + 1 .. i + owed : bs[j].rel = NoRel
             /\ owed > 0 => p[i].cur.typ = "OBTXT" /\ p[i].nxtloc = loc + i /\ p[i].nxtsec = sec
           T == {i \in Nat : i <= N => \E owed \in Nat : At(i, owed)}
<1>4. 0 \in T
  <2>1. E(0) = <<>>
    <3>1. E(0) \in Seq(Entries) /\ Len(E(0)) = 0
      BY <1>1, EntriesOfMore
    <3> HIDE DEF E
    <3> QED
      BY <3>1
  <2>2. TextOf(p[0]) = TextOf(o) \o E(0)
    BY <1>2, <1>3, <2>1, ConcatEmptySeq
  <2>3. At(0, 0)
    BY <1>1, <1>2, <2>2 DEF SameLists
  <2> HIDE DEF At
  <2> QED
    BY <2>3
<1>5. ASSUME NEW i \in Nat, i \in T PROVE i + 1 \in T
  <2> SUFFICES ASSUME i + 1 <= N PROVE \E owed \in Nat : At(i + 1, owed)
    <3> HIDE DEF At, E, N
    <3> QED
      OBVIOUS
  <2>1. PICK owed \in Nat : At(i, owed)
    <3> HIDE DEF At, E
    <3> QED
      BY <1>1, <1>5
  <2> DEFINE b == bs[i + 1]
             rest == IF b.rel # NoRel THEN Width(b.rel.act) - 1 ELSE IF owed > 0 THEN owed - 1 ELSE 0
             n == Emitb(p[i], sec, loc + i, b)
  <2>2. b \in Bytes /\ i + 1 \in 1 .. N
    BY <1>1
  <2>3. b.rel # NoRel => /\ Width(b.rel.act) \in 1 .. 4
                         /\ i + Width(b.rel.act) <= N
                         /\ \A j \in i + 2 .. i + Width(b.rel.act) : bs[j].rel = NoRel
    <3> SUFFICES ASSUME b.rel # NoRel
                 PROVE  /\ Width(b.rel.act) \in 1 .. 4
                        /\ i + Width(b.rel.act) <= N
                        /\ \A j \in i + 2 .. i + Width(b.rel.act) : bs[j].rel = NoRel
      OBVIOUS
    <3>1. Width(b.rel.act) \in 1 .. 4
      BY <2>2, WidthRange DEF Bytes, Relocs
    <3>2. /\ i + 1 + Width(b.rel.act) - 1 <= N
          /\ \A j \in i + 1 + 1 .. i + 1 + Width(b.rel.act) - 1 : bs[j].rel = NoRel
      BY <1>1, <2>2 DEF ItemsWhole
    <3> HIDE DEF b
    <3>3. i + 1 + Width(b.rel.act) - 1 = i + Width(b.rel.act) /\ i + 1 + 1 = i + 2
      BY <3>1
    <3> QED
      BY <3>1, <3>2, <3>3
  <2>4. rest \in Nat
    <3> HIDE DEF b
    <3> QED
      BY <2>3
  <2>5. owed > 0 => b.rel = NoRel
    BY <1>1, <2>1
  <2>6. p[i + 1] = n
    <3>1. (i + 1) - 1 = i /\ loc + (i + 1) - 1 = loc + i
      OBVIOUS
    <3> QED
      BY <1>2, <2>2, <3>1
  <2>7. /\ Good(n, rest) /\ n.cur.typ = "OBTXT" /\ n.nxtloc = loc + i + 1 /\ n.nxtsec = sec
        /\ TextOf(n) = Append(TextOf(p[i]), EntryAt(b, sec, loc + i)) /\ SameLists(n, p[i])
    <3> DEFINE q == p[i]
               at == loc + i
    <3>1. at \in Int /\ loc + i + 1 = at + 1
      OBVIOUS
    <3>2. Good(q, owed) /\ (owed > 0 => q.cur.typ = "OBTXT" /\ q.nxtloc = at /\ q.nxtsec = sec /\ b.rel = NoRel)
      BY <2>1, <2>5
    <3>3. rest = IF b.rel # NoRel THEN Width(b.rel.act) - 1 ELSE IF owed > 0 THEN owed - 1 ELSE 0
      OBVIOUS
    <3>4. n = Emitb(q, sec, at, b)
      OBVIOUS
    <3> HIDE DEF rest, b, At, E, q, at, n
    <3>5. /\ Good(n, rest) /\ n.cur.typ = "OBTXT" /\ n.nxtloc = at + 1 /\ n.nxtsec = sec
          /\ TextOf(n) = Append(TextOf(q), EntryAt(b, sec, at)) /\ SameLists(n, q)
      BY <2>2, <2>4, <3>1, <3>2, <3>3, <3>4, EmitbGood
    <3> QED
      BY <3>1, <3>5 DEF q, at
  <2>8. TextOf(n) = TextOf(o) \o E(i + 1)
    <3> DEFINE e == EntryAt(b, sec, loc + i)
    <3>1. E(i) \in Seq(Entries) /\ e \in Entries /\ E(i + 1) = Append(E(i), e)
      BY <1>1, <2>2, EntriesOfMore
    <3>2. TextOf(p[i]) = TextOf(o) \o E(i) /\ TextOf(n) = Append(TextOf(p[i]), e)
      BY <2>1, <2>7
    <3> HIDE DEF e, E, At, n
    <3>3. Append(E(i), e) = E(i) \o <<e>> /\ Append(TextOf(o) \o E(i), e) = (TextOf(o) \o E(i)) \o <<e>>
      BY <1>3, <3>1, AppendIsConcat, ConcatProperties
    <3>4. (TextOf(o) \o E(i)) \o <<e>> = TextOf(o) \o (E(i) \o <<e>>)
      <4> DEFINE s == <<e>>
                 u == TextOf(o)
      <4>1. s \in Seq(Entries) /\ u \in Seq(Entries) /\ E(i) \in Seq(Entries)
        BY <1>3, <3>1
      <4> HIDE DEF s, u
      <4>2. (u \o E(i)) \o s = u \o (E(i) \o s)
        BY <4>1, ConcatAssociative, SMTT(40)
      <4> QED
        BY <4>2 DEF s, u
    <3> QED
      BY <3>1, <3>2, <3>3, <3>4
  <2>9. i + 1 + rest <= N /\ \A j \in i + 1 + 1 .. i + 1 + rest : bs[j].rel = NoRel
    <3>1. CASE b.rel # NoRel
      <4>1. rest = Width(b.rel.act) - 1
        BY <3>1
      <4> HIDE DEF b, rest
      <4>2. i + 1 + rest = i + Width(b.rel.act) /\ i + 1 + 1 = i + 2
        BY <2>3, <3>1, <4>1
      <4> QED
        BY <2>3, <3>1, <4>2
    <3>2. CASE b.rel = NoRel /\ owed > 0
      <4>1. rest = owed - 1
        BY <3>2
      <4>2. i + owed <= N /\ \A j \in i + 1 .. i + owed : bs[j].rel = NoRel
        BY <2>1
      <4> HIDE DEF b, rest
      <4>3. i + 1 + rest = i + owed
        BY <4>1
      <4> QED
        BY <4>2, <4>3
    <3>3. CASE b.rel = NoRel /\ owed = 0
      <4>1. rest = 0
        BY <3>3
      <4> HIDE DEF b, rest
      <4> QED
        BY <1>1, <4>1
    <3> QED
      BY <3>1, <3>2, <3>3
  <2>10. At(i + 1, rest)
    <3>1. loc + (i + 1) = loc + i + 1
      OBVIOUS
    <3>2. SameLists(n, o)
      BY <2>1, <2>7 DEF SameLists
    <3> HIDE DEF rest, n, b, E
    <3> QED
      BY <2>6, <2>7, <2>8, <2>9, <3>1, <3>2
  <2> HIDE DEF At, rest
  <2> QED
    BY <2>4, <2>10
<1>6. Nat \subseteq T
  <2> HIDE DEF T
  <2> QED
    BY <1>4, <1>5, NatSetInduction
<1>7. PICK owed \in Nat : At(N, owed)
  <2> HIDE DEF At
  <2> QED
    BY <1>1, <1>6
<1>8. owed = 0
  BY <1>1, <1>7
<1>9. E(N) \in Seq(Entries)
  BY <1>1, EntriesOfMore
<1> QED
  BY <1>2, <1>3, <1>7, <1>8, <1>9

-----------------------------------------------------------------------------
(* The lists of the interlude.                                             *)
ToList == {None} \cup [typ : ListTypes, item : ListItems]

(* PutItem(): the item comes last in a block of its type.                  *)
LEMMA PutItemIs ==
  ASSUME NEW o, Good(o, 0), NEW typ \in ListTypes, NEW item \in ListItems
  PROVE  LET q == IF o.cur.typ # typ \/ Room(o) < ITEM
                  THEN [Oflush(o) EXCEPT !.cur = [typ |-> typ, items |-> <<>>]] ELSE o
             n == PutItem(o, typ, item) IN
         /\ Good(q, 0) /\ TextOf(q) = TextOf(o) /\ q.cur \in ListBlocks /\ q.cur.typ = typ
         /\ q = o \/ (q.blks = Oflush(o).blks /\ q.cur = [typ |-> typ, items |-> <<>>])
         /\ Good(n, 0) /\ n.blks = q.blks
         /\ n.cur = [typ |-> typ, items |-> Append(q.cur.items, item)] /\ n.cur \in ListBlocks
<1> DEFINE c == [typ |-> typ, items |-> <<>>]
           f == [Oflush(o) EXCEPT !.cur = c]
           q == IF o.cur.typ # typ \/ Room(o) < ITEM THEN f ELSE o
           d == [typ |-> typ, items |-> Append(q.cur.items, item)]
           n == PutItem(o, typ, item)
<1>0. typ # "OBTXT" /\ typ # "none"
  BY DEF ListTypes
<1>1. c \in ListBlocks
  BY DEF ListTypes, ListBlocks
<1>2. Good(f, 0) /\ TextOf(f) = TextOf(o) /\ f.cur = c /\ f.blks = Oflush(o).blks
  <2>1. Good(Oflush(o), 0) /\ Oflush(o).cur = None /\ TextOf(Oflush(o)) = TextOf(o)
    BY OflushGood
  <2> DEFINE g == Oflush(o)
  <2>2. g \in Objects
    BY <2>1 DEF Good
  <2>3. f = [g EXCEPT !.cur = c]
    OBVIOUS
  <2>4. c.typ = typ /\ c \in Blocks
    BY <1>1 DEF Blocks
  <2> HIDE DEF c, f, g
  <2>5. f \in Objects /\ f.cur = c /\ f.blks = g.blks
    BY <2>2, <2>3, <2>4 DEF Objects
  <2>6. Good(f, 0)
    BY <1>0, <2>1, <2>4, <2>5 DEF Good, g
  <2>7. ReadBack(c) = <<>> /\ ReadBack(None) = <<>>
    BY <1>0, <2>4 DEF ReadBack, None
  <2>8. TextOf(f) = TextOf(g)
    BY <2>1, <2>5, <2>7 DEF TextOf, g
  <2> QED
    BY <2>1, <2>5, <2>6, <2>8 DEF g
<1>3. /\ Good(q, 0) /\ TextOf(q) = TextOf(o) /\ q.cur \in ListBlocks /\ q.cur.typ = typ
      /\ q = o \/ (q.blks = Oflush(o).blks /\ q.cur = c)
  <2>1. CASE q = f
    <3>1. c.typ = typ
      OBVIOUS
    <3> HIDE DEF c, f, q
    <3> QED
      BY <1>1, <1>2, <2>1, <3>1
  <2>2. CASE q # f
    <3>1. q = o /\ o.cur.typ = typ
      <4> HIDE DEF f
      <4> QED
        BY <2>2
    <3>2. o.cur \in Blocks \cup {None}
      BY DEF Good, Objects
    <3>3. o.cur \in ListBlocks
      BY <3>1, <3>2, TypeTells DEF ListTypes
    <3> HIDE DEF c, f, q
    <3> QED
      BY <3>1, <3>3
  <2> QED
    BY <2>1, <2>2
<1>4. n = [q EXCEPT !.cur.items = Append(@, item), !.used = @ + ITEM]
  BY DEF PutItem
<1> HIDE DEF n, q
<1>5. q \in Objects /\ q.used \in Int /\ q.cur.items \in Seq(ListItems)
  BY <1>3 DEF Good, Objects, ListBlocks
<1>6. d \in ListBlocks /\ d.typ = typ
  <2>1. Append(q.cur.items, item) \in Seq(ListItems)
    BY <1>5, AppendProperties
  <2> QED
    BY <2>1 DEF ListBlocks, ListTypes
<1>7. n.cur = d /\ n.blks = q.blks /\ n \in Objects
  <2> DEFINE its == q.cur.items
  <2>1. q.cur = [typ |-> typ, items |-> its]
    BY <1>3 DEF ListBlocks
  <2>2. n.cur = [q.cur EXCEPT !.items = Append(@, item)]
    BY <1>4, <1>5 DEF Objects
  <2>3. n.cur = d
    <3> HIDE DEF its
    <3>1. n.cur = [typ |-> typ, items |-> Append(its, item)]
      BY <2>1, <2>2
    <3> QED
      BY <3>1 DEF its
  <2>4. n = [blks |-> q.blks, cur |-> n.cur, used |-> q.used + ITEM, nxtloc |-> q.nxtloc, nxtsec |-> q.nxtsec]
    BY <1>4, <1>5 DEF Objects
  <2>5. d \in Blocks \cup {None} /\ q.used + ITEM \in Int
    BY <1>5, <1>6 DEF Blocks, ITEM
  <2> HIDE DEF d
  <2>6. /\ q.blks \in Seq(Blocks) /\ q.nxtloc \in Int /\ q.nxtsec \in Sections
    BY <1>5 DEF Objects
  <2>7. n \in Objects /\ n.blks = q.blks
    BY <2>3, <2>4, <2>5, <2>6 DEF Objects
  <2> QED
    BY <2>3, <2>7
<1> HIDE DEF d
<1>8. Good(n, 0)
  BY <1>0, <1>3, <1>6, <1>7 DEF Good
<1> QED
  BY <1>3, <1>6, <1>7, <1>8 DEF q, n, d

LEMMA PutItemGood ==
  ASSUME NEW o, Good(o, 0), NEW typ \in ListTypes, NEW item \in ListItems
  PROVE  LET n == PutItem(o, typ, item) IN
         Good(n, 0) /\ TextOf(n) = TextOf(o)
<1> DEFINE n == PutItem(o, typ, item)
           q == IF o.cur.typ # typ \/ Room(o) < ITEM
                THEN [Oflush(o) EXCEPT !.cur = [typ |-> typ, items |-> <<>>]] ELSE o
<1>1. /\ TextOf(q) = TextOf(o) /\ q.cur.typ = typ
      /\ Good(n, 0) /\ n.blks = q.blks
      /\ n.cur = [typ |-> typ, items |-> Append(q.cur.items, item)]
  BY PutItemIs
<1> HIDE DEF n, q
<1>2. ReadBack(q.cur) = <<>> /\ ReadBack(n.cur) = <<>>
  BY <1>1 DEF ReadBack, ListTypes
<1>3. TextOf(n) = TextOf(q)
  BY <1>1, <1>2 DEF TextOf
<1> QED
  BY <1>1, <1>3 DEF n

LEMMA PutItemLists ==
  ASSUME NEW o, Good(o, 0), NEW typ \in ListTypes, NEW item \in ListItems, NEW t \in ListTypes
  PROVE  /\ Listed(o, t) \in Seq(ListItems)
         /\ Listed(PutItem(o, typ, item), t) = IF t = typ THEN Append(Listed(o, t), item) ELSE Listed(o, t)
<1> DEFINE n == PutItem(o, typ, item)
           f == Oflush(o)
           q == IF o.cur.typ # typ \/ Room(o) < ITEM THEN [f EXCEPT !.cur = [typ |-> typ, items |-> <<>>]] ELSE o
           c == q.cur.items
           bs == ItemsIn(q.blks, t)
<1>1. /\ Good(q, 0) /\ q.cur \in ListBlocks /\ q.cur.typ = typ
      /\ q = o \/ (q.blks = f.blks /\ q.cur = [typ |-> typ, items |-> <<>>])
      /\ n.blks = q.blks /\ n.cur = [typ |-> typ, items |-> Append(c, item)]
  BY PutItemIs
<1>2. Good(f, 0) /\ f.cur = None /\ Listed(f, t) = Listed(o, t)
  BY OflushGood DEF SameLists
<1> HIDE DEF n, f, q
<1>3. Listed(q, t) = Listed(o, t)
  <2>1. CASE q = o
    BY <2>1
  <2>2. CASE q.blks = f.blks /\ q.cur = [typ |-> typ, items |-> <<>>]
    <3>1. ItemsOf(q.cur, t) = <<>> /\ ItemsOf(f.cur, t) = <<>>
      BY <1>2, <2>2 DEF ItemsOf, None, ListTypes
    <3> QED
      BY <1>2, <2>2, <3>1 DEF Listed
  <2> QED
    BY <1>1, <2>1, <2>2
<1>4. c \in Seq(ListItems) /\ bs \in Seq(ListItems) /\ Listed(q, t) \in Seq(ListItems)
  <2>1. q \in Objects
    BY <1>1 DEF Good
  <2> QED
    BY <1>1, <2>1, ListedType DEF ListBlocks
<1>5. Listed(q, t) = bs \o (IF t = typ THEN c ELSE <<>>)
  BY <1>1 DEF Listed, ItemsOf
<1>6. Listed(n, t) = bs \o (IF t = typ THEN Append(c, item) ELSE <<>>)
  <2>1. n.cur.typ = typ /\ n.cur.items = Append(c, item) /\ n.blks = q.blks
    BY <1>1
  <2> HIDE DEF c
  <2>2. ItemsOf(n.cur, t) = IF t = typ THEN Append(c, item) ELSE <<>>
    BY <2>1 DEF ItemsOf
  <2> QED
    BY <2>1, <2>2 DEF Listed
<1> HIDE DEF c, bs
<1>7. bs \o Append(c, item) = Append(bs \o c, item)
  <2>1. Append(c, item) = c \o <<item>> /\ Append(bs \o c, item) = (bs \o c) \o <<item>>
    BY <1>4, AppendIsConcat, ConcatProperties
  <2>2. bs \o (c \o <<item>>) = (bs \o c) \o <<item>>
    BY <1>4, ConcatAssociative
  <2> QED
    BY <2>1, <2>2
<1>8. Listed(n, t) = IF t = typ THEN Append(Listed(o, t), item) ELSE Listed(o, t)
  BY <1>3, <1>5, <1>6, <1>7
<1> QED
  BY <1>3, <1>4, <1>8 DEF n

LEMMA PutAllRuns ==
  ASSUME NEW o, NEW list, Len(list) \in Nat
  PROVE  \E p : /\ PutAll(o, list) = p[Len(list)] /\ p[0] = o
                /\ \A i \in 1 .. Len(list) :
                     p[i] = IF list[i] = None THEN p[i - 1] ELSE PutItem(p[i - 1], list[i].typ, list[i].item)
<1> DEFINE N == Len(list)
           Step(x, i) == IF list[i] = None THEN x ELSE PutItem(x, list[i].typ, list[i].item)
           Run(p, n) == p = [i \in 0 .. n |-> IF i = 0 THEN o ELSE Step(p[i - 1], i)]
           T == {n \in Nat : \E p : Run(p, n)}
<1>0. PutAll(o, list) = (CHOOSE p : Run(p, N))[N]
  BY DEF PutAll
<1> HIDE DEF Step
<1>1. 0 \in T
  <2> DEFINE p == [i \in 0 .. 0 |-> o]
  <2>1. p = [i \in 0 .. 0 |-> IF i = 0 THEN o ELSE Step(p[i - 1], i)]
    OBVIOUS
  <2> HIDE DEF p
  <2> QED
    BY <2>1
<1>2. ASSUME NEW n \in Nat, n \in T PROVE n + 1 \in T
  <2>1. PICK p : Run(p, n)
    BY <1>2
  <2> DEFINE new == Step(p[n], n + 1)
             q == [i \in 0 .. n + 1 |-> IF i = n + 1 THEN new ELSE p[i]]
  <2>2. ASSUME NEW i \in 0 .. n + 1
        PROVE  q[i] = IF i = 0 THEN o ELSE Step(q[i - 1], i)
    <3>1. CASE i = n + 1
      <4>1. q[i] = new /\ q[i - 1] = p[n] /\ i # 0
        <5> HIDE DEF new
        <5> QED
          BY <3>1
      <4> QED
        BY <3>1, <4>1
    <3>2. CASE i # n + 1
      <4>1. i \in 0 .. n /\ q[i] = p[i] /\ (i # 0 => q[i - 1] = p[i - 1])
        <5> HIDE DEF new
        <5> QED
          BY <3>2
      <4>2. p[i] = IF i = 0 THEN o ELSE Step(p[i - 1], i)
        BY <2>1, <4>1
      <4> QED
        BY <4>1, <4>2
    <3> QED
      BY <3>1, <3>2
  <2>3. q = [i \in 0 .. n + 1 |-> q[i]]
    OBVIOUS
  <2> HIDE DEF q
  <2>4. Run(q, n + 1)
    BY <2>2, <2>3
  <2> HIDE DEF Run
  <2> QED
    BY <2>4
<1>3. Nat \subseteq T
  <2> HIDE DEF T
  <2> QED
    BY <1>1, <1>2, NatSetInduction
<1> DEFINE p == CHOOSE p : Run(p, N)
<1>4. Run(p, N)
  <2>1. \E x : Run(x, N)
    BY <1>3
  <2> HIDE DEF Run
  <2> QED
    BY <2>1
<1> HIDE DEF p
<1>5. p[0] = o /\ \A i \in 1 .. N : p[i] = Step(p[i - 1], i)
  BY <1>4
<1> QED
  BY <1>0, <1>5 DEF p, Step

LEMMA PutAllGood ==
  ASSUME NEW o, Good(o, 0), NEW list \in Seq(ToList)
  PROVE  Good(PutAll(o, list), 0) /\ TextOf(PutAll(o, list)) = TextOf(o)
<1> DEFINE N == Len(list)
<1>1. N \in Nat
  OBVIOUS
<1>2. PICK p : /\ PutAll(o, list) = p[N] /\ p[0] = o
               /\ \A i \in 1 .. N :
                    p[i] = IF list[i] = None THEN p[i - 1] ELSE PutItem(p[i - 1], list[i].typ, list[i].item)
  BY <1>1, PutAllRuns
<1> DEFINE T == {i \in Nat : i <= N => Good(p[i], 0) /\ TextOf(p[i]) = TextOf(o)}
<1>3. 0 \in T
  BY <1>2
<1>4. ASSUME NEW i \in Nat, i \in T PROVE i + 1 \in T
  <2> SUFFICES ASSUME i + 1 <= N PROVE Good(p[i + 1], 0) /\ TextOf(p[i + 1]) = TextOf(o)
    OBVIOUS
  <2>1. i + 1 \in 1 .. N /\ list[i + 1] \in ToList /\ (i + 1) - 1 = i
    BY <1>1
  <2>2. Good(p[i], 0) /\ TextOf(p[i]) = TextOf(o)
    BY <1>1, <1>4
  <2>3. CASE list[i + 1] = None
    BY <1>2, <2>1, <2>2, <2>3
  <2>4. CASE list[i + 1] # None
    <3>1. list[i + 1].typ \in ListTypes /\ list[i + 1].item \in ListItems
      BY <2>1, <2>4 DEF ToList
    <3>2. p[i + 1] = PutItem(p[i], list[i + 1].typ, list[i + 1].item)
      BY <1>2, <2>1, <2>4
    <3> QED
      BY <2>2, <3>1, <3>2, PutItemGood
  <2> QED
    BY <2>3, <2>4
<1>5. Nat \subseteq T
  <2> HIDE DEF T
  <2> QED
    BY <1>3, <1>4, NatSetInduction
<1> QED
  BY <1>1, <1>2, <1>5

(* If the sections come first in a list, they are numbered as they come;   *)
(* and whatever is in the object file comes from the list.                 *)
NoLists(o) == \A t \in ListTypes : Listed(o, t) = <<>>
SectionsFirst(list, S) ==
  /\ S \in Nat /\ S <= Len(list)
  /\ \A r \in 1 .. S : list[r] # None /\ list[r].typ = "OBSEC"
  /\ \A r \in S + 1 .. Len(list) : list[r] # None => list[r].typ # "OBSEC"
HasList(n, list, S) ==
  /\ Len(Listed(n, "OBSEC")) = S /\ \A r \in 1 .. S : Listed(n, "OBSEC")[r] = list[r].item
  /\ \A t \in ListTypes : \A k \in 1 .. Len(Listed(n, t)) : \E j \in 1 .. Len(list) :
       list[j] # None /\ list[j].typ = t /\ list[j].item = Listed(n, t)[k]

LEMMA PutAllLists ==
  ASSUME NEW o, Good(o, 0), NoLists(o), NEW list \in Seq(ToList), NEW S, SectionsFirst(list, S)
  PROVE  HasList(PutAll(o, list), list, S)
<1> SUFFICES ASSUME \A t \in ListTypes : Listed(o, t) = <<>>,
                    S \in Nat, S <= Len(list),
                    \A r \in 1 .. S : list[r] # None /\ list[r].typ = "OBSEC",
                    \A r \in S + 1 .. Len(list) : list[r] # None => list[r].typ # "OBSEC"
             PROVE  HasList(PutAll(o, list), list, S)
  BY DEF NoLists, SectionsFirst
<1> DEFINE N == Len(list)
           Lower(i) == IF i <= S THEN i ELSE S
<1>1. N \in Nat /\ "OBSEC" \in ListTypes
  BY DEF ListTypes
<1>2. PICK p : /\ PutAll(o, list) = p[N] /\ p[0] = o
               /\ \A i \in 1 .. N :
                    p[i] = IF list[i] = None THEN p[i - 1] ELSE PutItem(p[i - 1], list[i].typ, list[i].item)
  <2>1. \E p : /\ PutAll(o, list) = p[Len(list)] /\ p[0] = o
                /\ \A i \in 1 .. Len(list) :
                     p[i] = IF list[i] = None THEN p[i - 1] ELSE PutItem(p[i - 1], list[i].typ, list[i].item)
    BY ONLY <1>1, PutAllRuns
  <2> QED
    BY <2>1
<1> DEFINE InOrder(x, i) == Len(Listed(x, "OBSEC")) = Lower(i)
                            /\ \A r \in 1 .. Lower(i) : Listed(x, "OBSEC")[r] = list[r].item
           From(x, i) == \A t \in ListTypes : \A k \in 1 .. Len(Listed(x, t)) : \E j \in 1 .. i :
                           list[j] # None /\ list[j].typ = t /\ list[j].item = Listed(x, t)[k]
           T == {i \in Nat : i <= N => Good(p[i], 0) /\ InOrder(p[i], i) /\ From(p[i], i)}
<1>3. 0 \in T
  <2>1. \A t \in ListTypes : Listed(p[0], t) = <<>>
    BY <1>2
  <2>2. InOrder(p[0], 0) /\ From(p[0], 0)
    BY <1>1, <2>1
  <2> HIDE DEF InOrder, From
  <2> QED
    BY <1>2, <2>2
<1>4. ASSUME NEW i \in Nat, i \in T PROVE i + 1 \in T
  <2> SUFFICES ASSUME i + 1 <= N PROVE Good(p[i + 1], 0) /\ InOrder(p[i + 1], i + 1) /\ From(p[i + 1], i + 1)
    <3> HIDE DEF InOrder, From
    <3> QED
      OBVIOUS
  <2> DEFINE x == p[i]
             y == p[i + 1]
             e == list[i + 1]
  <2>1. i + 1 \in 1 .. N /\ e \in ToList /\ (i + 1) - 1 = i
    BY <1>1
  <2>2. Good(x, 0) /\ InOrder(x, i) /\ From(x, i)
    BY <1>1, <1>4
  <2>3. y = IF e = None THEN x ELSE PutItem(x, e.typ, e.item)
    BY <1>2, <2>1
  <2>5. i + 1 <= S <=> (e # None /\ e.typ = "OBSEC")
    <3>1. i + 1 <= S => i + 1 \in 1 .. S
      <4> HIDE DEF e, x, y
      <4> QED
        BY <1>4
    <3>2. ~(i + 1 <= S) => i + 1 \in S + 1 .. N
      BY <1>1
    <3> QED
      BY <3>1, <3>2
  <2> HIDE DEF x, y
  <2>6. CASE e = None
    <3>1. y = x /\ ~(i + 1 <= S)
      BY <2>3, <2>5, <2>6
    <3>2. Lower(i + 1) = Lower(i)
      BY <3>1
    <3>3. InOrder(y, i + 1)
      <4> HIDE DEF Lower
      <4> QED
        BY <2>2, <3>1, <3>2
    <3>4. From(y, i + 1)
      BY <2>2, <3>1
    <3> QED
      BY <2>2, <3>1, <3>3, <3>4 DEF y
  <2>7. CASE e # None
    <3>1. e.typ \in ListTypes /\ e.item \in ListItems
      BY <2>1, <2>7 DEF ToList
    <3>2. y = PutItem(x, e.typ, e.item) /\ Good(y, 0)
      BY <2>2, <2>3, <2>7, <3>1, PutItemGood
    <3>3. \A t \in ListTypes :
            /\ Listed(x, t) \in Seq(ListItems)
            /\ Listed(y, t) = IF t = e.typ THEN Append(Listed(x, t), e.item) ELSE Listed(x, t)
      <4> SUFFICES ASSUME NEW t \in ListTypes
                   PROVE  /\ Listed(x, t) \in Seq(ListItems)
                          /\ Listed(y, t) = IF t = e.typ THEN Append(Listed(x, t), e.item) ELSE Listed(x, t)
        OBVIOUS
      <4> DEFINE typ == e.typ
                 item == e.item
      <4>1. typ \in ListTypes /\ item \in ListItems /\ y = PutItem(x, typ, item) /\ Good(x, 0)
        BY <2>2, <3>1, <3>2
      <4> HIDE DEF typ, item, e
      <4>2. /\ Listed(x, t) \in Seq(ListItems)
            /\ Listed(y, t) = IF t = typ THEN Append(Listed(x, t), item) ELSE Listed(x, t)
        BY <4>1, PutItemLists
      <4> QED
        BY <4>2 DEF typ, item
    <3>4. InOrder(y, i + 1)
      <4> DEFINE l == Listed(x, "OBSEC")
      <4>1. l \in Seq(ListItems) /\ Len(l) = Lower(i) /\ \A r \in 1 .. Lower(i) : l[r] = list[r].item
        BY <1>1, <2>2, <3>3
      <4>2. CASE i + 1 <= S
        <5>1. Listed(y, "OBSEC") = Append(l, e.item)
          BY <1>1, <2>5, <3>3, <4>2
        <5> HIDE DEF l, e
        <5>2. Lower(i) = i /\ Lower(i + 1) = i + 1
          BY <4>2
        <5>3. Len(Append(l, e.item)) = i + 1 /\ Append(l, e.item)[i + 1] = e.item
              /\ \A r \in 1 .. i : Append(l, e.item)[r] = l[r]
          BY <3>1, <4>1, <5>2, AppendProperties
        <5>4. \A r \in 1 .. i + 1 : Append(l, e.item)[r] = list[r].item
          BY <4>1, <5>2, <5>3 DEF e
        <5> QED
          BY <5>1, <5>2, <5>3, <5>4
      <4>3. CASE ~(i + 1 <= S)
        <5>1. Listed(y, "OBSEC") = l
          BY <1>1, <2>5, <2>7, <3>3, <4>3
        <5>2. Lower(i + 1) = Lower(i)
          BY <4>3
        <5> HIDE DEF l, Lower
        <5> QED
          BY <4>1, <5>1, <5>2
      <4> QED
        BY <4>2, <4>3
    <3>5. From(y, i + 1)
      <4> SUFFICES ASSUME NEW t \in ListTypes, NEW k \in 1 .. Len(Listed(y, t))
                   PROVE  \E j \in 1 .. i + 1 :
                            list[j] # None /\ list[j].typ = t /\ list[j].item = Listed(y, t)[k]
        OBVIOUS
      <4> DEFINE l == Listed(x, t)
      <4>1. l \in Seq(ListItems) /\ Len(l) \in Nat
        BY <3>3
      <4>2. CASE k \in 1 .. Len(l)
        <5>1. Listed(y, t)[k] = l[k]
          BY <3>1, <3>3, <4>1, <4>2, AppendProperties
        <5>2. PICK j \in 1 .. i : list[j] # None /\ list[j].typ = t /\ list[j].item = l[k]
          BY <2>2, <4>2
        <5> QED
          BY <5>1, <5>2
      <4>3. CASE k \notin 1 .. Len(l)
        <5>1. t = e.typ /\ Listed(y, t) = Append(l, e.item)
          BY <3>3, <4>3
        <5>2. Len(Append(l, e.item)) = Len(l) + 1 /\ Append(l, e.item)[Len(l) + 1] = e.item
          BY <3>1, <4>1, AppendProperties
        <5>3. k = Len(l) + 1
          BY <4>1, <4>3, <5>1, <5>2
        <5>4. Listed(y, t)[k] = e.item
          BY <5>1, <5>2, <5>3
        <5> QED
          BY <2>7, <5>1, <5>4
      <4> QED
        BY <4>2, <4>3
    <3> QED
      BY <3>2, <3>4, <3>5 DEF y
  <2> QED
    BY <2>6, <2>7
<1>5. Nat \subseteq T
  <2> HIDE DEF T
  <2> QED
    BY <1>3, <1>4, NatSetInduction
<1>6. Lower(N) = S
  BY <1>1
<1>7. InOrder(p[N], N) /\ From(p[N], N)
  BY <1>1, <1>5
<1> QED
  BY <1>2, <1>6, <1>7 DEF HasList
-----------------------------------------------------------------------------
(* The inductive invariant.                                                *)

(* dircom()'s two counters: of the open .ifs, the outermost truelev have   *)
(* the branch they are in taken, and the next one, if any, has not.        *)
LevelsRight ==
  /\ nest \in Seq(BOOLEAN)
  /\ condlev = Len(nest) /\ truelev \in 0 .. Len(nest)
  /\ \A i \in 1 .. truelev : nest[i]
  /\ truelev < Len(nest) => ~nest[truelev + 1]

PlacesType ==
  /\ cursec \in Sections /\ curloc \in Int /\ secct \in 1 .. SECSIZ
  /\ sectab \in [Sections -> [sym : Labels, loc : Int]]

(* Between two operands of .byte, .word and .long there is one to come.    *)
SourceType ==
  /\ cmd \in Commands
  /\ pass2 \in BOOLEAN /\ line \in Nat \ {0} /\ argn \in Nat
  /\ argn > 0 => /\ line <= Len(cmd.src) /\ cmd.src[line].op \in {"byte", "word", "long"}
                 /\ argn < Len(cmd.src[line].args)

(* What pass 2 has emitted is in the object file, the block that is being  *)
(* filled included; before pass 2 and after it no block is being filled.   *)
ObjectRight ==
  /\ Good(out, 0) /\ TextOf(out) = want
  /\ ~pass2 \/ apc = "ended" => out.cur = None
  /\ apc = "interlude" => ~pass2

AsmInv == SourceType /\ PlacesType /\ symtab \in Tables /\ LevelsRight /\ ObjectRight

-----------------------------------------------------------------------------
(* What the statements compute.                                            *)
LEMMA PowersPositive ==
  \A i \in 0 .. 32 : PowerOf2[i] \in Nat \ {0}
<1> DEFINE Run(p, n) == p = [i \in 0 .. n |-> IF i = 0 THEN 1 ELSE 2 * p[i - 1]]
           T == {n \in Nat : \E p : Run(p, n)}
<1>1. 0 \in T
  <2> DEFINE p == [i \in 0 .. 0 |-> 1]
  <2>1. p = [i \in 0 .. 0 |-> IF i = 0 THEN 1 ELSE 2 * p[i - 1]]
    OBVIOUS
  <2> HIDE DEF p
  <2> QED
    BY <2>1
<1>2. ASSUME NEW n \in Nat, n \in T PROVE n + 1 \in T
  <2>1. PICK p : Run(p, n)
    BY <1>2
  <2> DEFINE new == 2 * p[n]
             q == [i \in 0 .. n + 1 |-> IF i = n + 1 THEN new ELSE p[i]]
  <2>2. ASSUME NEW i \in 0 .. n + 1
        PROVE  q[i] = IF i = 0 THEN 1 ELSE 2 * q[i - 1]
    <3>1. CASE i = n + 1
      <4>1. q[i] = new /\ q[i - 1] = p[n] /\ i # 0
        <5> HIDE DEF new
        <5> QED
          BY <3>1
      <4> QED
        BY <3>1, <4>1
    <3>2. CASE i # n + 1
      <4>1. i \in 0 .. n /\ q[i] = p[i] /\ (i # 0 => q[i - 1] = p[i - 1])
        <5> HIDE DEF new
        <5> QED
          BY <3>2
      <4>2. p[i] = IF i = 0 THEN 1 ELSE 2 * p[i - 1]
        BY <2>1, <4>1
      <4> QED
        BY <4>1, <4>2
    <3> QED
      BY <3>1, <3>2
  <2>3. q = [i \in 0 .. n + 1 |-> q[i]]
    OBVIOUS
  <2> HIDE DEF q
  <2>4. Run(q, n + 1)
    BY <2>2, <2>3
  <2> HIDE DEF Run
  <2> QED
    BY <2>4
<1>3. Nat \subseteq T
  <2> HIDE DEF T
  <2> QED
    BY <1>1, <1>2, NatSetInduction
<1>4. Run(PowerOf2, 32)
  <2>1. \E x : Run(x, 32)
    BY <1>3
  <2>2. PowerOf2 = CHOOSE p : Run(p, 32)
    BY DEF PowerOf2
  <2> HIDE DEF Run
  <2> QED
    BY <2>1, <2>2
<1>5. PowerOf2[0] = 1 /\ \A i \in 1 .. 32 : PowerOf2[i] = 2 * PowerOf2[i - 1]
  BY <1>4
<1> DEFINE P == {n \in Nat : n <= 32 => PowerOf2[n] \in Nat \ {0}}
<1>6. 0 \in P
  BY <1>5
<1>7. ASSUME NEW n \in Nat, n \in P PROVE n + 1 \in P
  <2> SUFFICES ASSUME n + 1 <= 32 PROVE PowerOf2[n + 1] \in Nat \ {0}
    OBVIOUS
  <2>1. n + 1 \in 1 .. 32 /\ (n + 1) - 1 = n /\ PowerOf2[n] \in Nat \ {0}
    BY <1>7
  <2>2. PowerOf2[n + 1] = 2 * PowerOf2[n]
    BY <1>5, <2>1
  <2> QED
    BY <2>1, <2>2
<1>8. Nat \subseteq P
  <2> HIDE DEF P
  <2> QED
    BY <1>6, <1>7, NatSetInduction
<1> QED
  BY <1>8

(* .align: where the next multiple is.                                     *)
LEMMA AlignedType ==
  ASSUME NEW loc \in Int, NEW v \in 0 .. 32
  PROVE  -((-loc) \div PowerOf2[v]) * PowerOf2[v] \in Int
<1>1. PowerOf2[v] \in Nat \ {0}
  BY PowersPositive
<1> DEFINE w == PowerOf2[v]
<1> HIDE DEF w
<1>2. w \in Nat \ {0}
  BY <1>1 DEF w
<1>3. (-loc) \div w \in Int
  BY <1>2
<1> DEFINE d == (-loc) \div w
<1>4. d \in Int
  BY <1>3
<1> HIDE DEF d
<1>5. -d * w \in Int
  BY <1>2, <1>4
<1> QED
  BY <1>5 DEF d, w

(* The lists of the interlude are lists.                                   *)
LEMMA NamesListed ==
  /\ Len(HashOrder) \in Nat
  /\ \A i \in 1 .. Len(HashOrder) : HashOrder[i] \in Names
  /\ \A n \in Names : Position(n) \in 1 .. Len(HashOrder) /\ HashOrder[Position(n)] = n
<1>1. Len(HashOrder) \in Nat /\ DOMAIN HashOrder = 1 .. Len(HashOrder)
      /\ \A i \in 1 .. Len(HashOrder) : HashOrder[i] \in Names
  BY AsmAssumption
<1>2. \A n \in Names : \E i \in DOMAIN HashOrder : HashOrder[i] = n
  BY DEF Names, Range
<1> QED
  BY <1>1, <1>2 DEF Position

LEMMA NumberType ==
  ASSUME NEW n \in Names
  PROVE  Number(n) \in Int /\ Number(n) >= RBEXT
<1> DEFINE before == {i \in 1 .. Position(n) - 1 : Numbered(HashOrder[i])}
<1>1. Position(n) \in Nat
  BY NamesListed
<1>2. IsFiniteSet(1 .. Position(n) - 1)
  BY <1>1, FS_Interval
<1>3. IsFiniteSet(before)
  BY <1>2, FS_Subset
<1>4. Cardinality(before) \in Nat
  BY <1>3, FS_CardinalityType
<1> HIDE DEF before
<1>5. Number(n) = RBEXT + Cardinality(before)
  BY DEF Number, before
<1> QED
  BY <1>4, <1>5 DEF RBEXT

LEMMA ListsType ==
  ASSUME PlacesType, symtab \in Tables
  PROVE  SectionList \in Seq(ToList) /\ SymbolList \in Seq(ToList)
<1>1. SectionList \in Seq(ToList)
  <2>1. secct \in Nat /\ secct - 1 \in Nat /\ SECSIZ \in Nat
    BY AsmAssumption DEF PlacesType
  <2>2. ASSUME NEW r \in 1 .. secct - 1 PROVE [typ |-> "OBSEC", item |-> sectab[r].sym] \in ToList
    <3>1. r \in Sections
      BY <2>1 DEF PlacesType, Sections
    <3>2. sectab[r].sym \in ListItems
      BY <3>1 DEF PlacesType, ListItems
    <3> QED
      BY <3>2 DEF ToList, ListTypes
  <2> QED
    BY <2>1, <2>2 DEF SectionList
<1>2. SymbolList \in Seq(ToList)
  <2>1. ASSUME NEW n \in Names PROVE [typ |-> SymBlock(n), item |-> SymItem(n)] \in ToList
    <3>1. symtab[n] \in Symbols
      BY DEF Tables
    <3>2. SymItem(n) \in ListItems
      BY <3>1 DEF SymItem, Symbols, ListItems, RBUND
    <3>3. SymBlock(n) \in ListTypes
      BY DEF SymBlock, ListTypes
    <3> QED
      BY <3>2, <3>3 DEF ToList
  <2>2. DOMAIN HashOrder = 1 .. Len(HashOrder) /\ Len(HashOrder) \in Nat
        /\ \A i \in 1 .. Len(HashOrder) : HashOrder[i] \in Names
    BY AsmAssumption
  <2>3. None \in ToList
    BY DEF ToList
  <2> QED
    BY <2>1, <2>2, <2>3 DEF SymbolList
<1> QED
  BY <1>1, <1>2

-----------------------------------------------------------------------------
(* What the statements do to the object file.                              *)

(* Another block is begun, or ended, that has no text.                     *)
LEMMA OtherBlockGood ==
  ASSUME NEW o, Good(o, 0), o.cur = None, NEW b \in OtherBlocks, NEW u \in Int,
         NEW n, n.blks = o.blks, n.cur = b, n.used = u, n.nxtloc = o.nxtloc, n.nxtsec = o.nxtsec,
         n = [blks |-> n.blks, cur |-> n.cur, used |-> n.used, nxtloc |-> n.nxtloc, nxtsec |-> n.nxtsec]
  PROVE  Good(n, 0) /\ TextOf(n) = TextOf(o) /\ SameLists(n, o)
<1>1. b \in Blocks /\ b.typ # "OBTXT"
  BY DEF Blocks, OtherBlocks
<1>2. o \in Objects
  BY DEF Good
<1>3. n \in Objects
  BY <1>1, <1>2 DEF Objects
<1>4. Good(n, 0)
  BY <1>1, <1>3 DEF Good
<1>5. ReadBack(o.cur) = <<>> /\ ReadBack(n.cur) = <<>>
  BY <1>1 DEF ReadBack, None
<1>6. b.typ \notin ListTypes
  BY DEF OtherBlocks, ListTypes
<1>7. SameLists(n, o)
  <2> SUFFICES ASSUME NEW typ \in ListTypes PROVE Listed(n, typ) = Listed(o, typ)
    BY DEF SameLists
  <2>1. ItemsOf(o.cur, typ) = <<>> /\ ItemsOf(n.cur, typ) = <<>>
    BY <1>6 DEF ItemsOf, None, ListTypes
  <2> QED
    BY <2>1 DEF Listed
<1> QED
  BY <1>4, <1>5, <1>7 DEF TextOf

LEMMA EmitKeeps ==
  ASSUME AsmInv, NEW loc \in Int, NEW bs, Emittable(bs), Emit(loc, bs), UNCHANGED <<apc, pass2>>,
         apc = "pass"
  PROVE  curloc' \in Int /\ ObjectRight' /\ SameLists(out', out)
<1>1. bs \in Seq(Bytes) /\ Len(bs) \in Nat /\ DOMAIN bs = 1 .. Len(bs)
  BY DEF Emittable
<1>2. curloc' \in Int
  BY <1>1 DEF Emit
<1>3. Good(out, 0) /\ TextOf(out) = want /\ cursec \in Sections
  BY DEF AsmInv, ObjectRight, PlacesType
<1>4. Good(out', 0) /\ TextOf(out') = want' /\ SameLists(out', out)
  <2>1. CASE ~pass2
    BY <1>3, <2>1 DEF Emit, SameLists
  <2>2. CASE pass2
    <3>1. out' = EmitAll(out, cursec, loc, bs)
      BY <2>2 DEF Emit
    <3>2. want' = want \o EntriesOf(bs, cursec, loc, Len(bs))
      BY <1>1, <2>2 DEF Emit, EntriesOf, EntryAt
    <3>3. Good(EmitAll(out, cursec, loc, bs), 0)
          /\ TextOf(EmitAll(out, cursec, loc, bs)) = TextOf(out) \o EntriesOf(bs, cursec, loc, Len(bs))
          /\ SameLists(EmitAll(out, cursec, loc, bs), out)
      BY <1>3, EmitAllGood
    <3> QED
      BY <1>3, <3>1, <3>2, <3>3
  <2> QED
    BY <2>1, <2>2
<1>5. ~pass2 => out'.cur = None
  BY DEF AsmInv, ObjectRight, Emit
<1> QED
  BY <1>2, <1>4, <1>5 DEF ObjectRight

LEMMA MoveKeeps ==
  ASSUME AsmInv, NEW loc \in Int, Move(loc), UNCHANGED <<apc, pass2, want>>, apc = "pass"
  PROVE  curloc' \in Int /\ ObjectRight' /\ SameLists(out', out)
<1>1. curloc' \in Int
  BY DEF Move
<1>2. Good(out, 0) /\ TextOf(out) = want /\ cursec \in Sections
  BY DEF AsmInv, ObjectRight, PlacesType
<1>3. Good(out', 0) /\ TextOf(out') = want' /\ SameLists(out', out)
  <2>1. CASE ~pass2
    BY <1>2, <2>1 DEF Move, SameLists
  <2>2. CASE pass2
    <3>1. out' = Setorg(out, cursec, loc)
      BY <2>2 DEF Move
    <3>2. Good(Setorg(out, cursec, loc), 0) /\ TextOf(Setorg(out, cursec, loc)) = TextOf(out)
          /\ SameLists(Setorg(out, cursec, loc), out)
      BY <1>2, SetorgGood
    <3> QED
      BY <1>2, <3>1, <3>2
  <2> QED
    BY <2>1, <2>2
<1>4. ~pass2 => out'.cur = None
  BY DEF AsmInv, ObjectRight, Move
<1> QED
  BY <1>1, <1>3, <1>4 DEF ObjectRight

(* A statement that is assembled is a statement, and its label is one.     *)
LEMMA StatementType ==
  ASSUME AsmInv, Reading
  PROVE  /\ st \in Statements /\ st.lab \in Labels /\ Len(cmd.src) \in Nat
         /\ st.op \in WithOperand => st.args \in Seq(Operands) /\ st.args # <<>>
         /\ st.op = "instr" => st.args \in Seq(Operands) /\ st.args # <<>> /\ st.kind \in Kinds
         /\ st.op \in Others => st.args \in Seq(Operands)
<1>1. cmd.src \in Seq(Statements) /\ line \in 1 .. Len(cmd.src) /\ cmd \in Commands
  BY CommandAssumption DEF AsmInv, SourceType, Reading
<1>2. st \in Statements /\ Len(cmd.src) \in Nat
  BY <1>1 DEF st
<1>3. st.op \in WithOperand \cup {"instr"} => st.args # <<>>
  BY <1>1, CommandAssumption DEF st
<1>4. CASE st \in [op : WithOperand \cup Others, lab : Labels, args : Seq(Operands)]
  <2>1. st.op \in WithOperand \cup Others /\ st.lab \in Labels /\ st.args \in Seq(Operands)
    BY <1>4
  <2>2. st.op # "instr"
    BY <2>1 DEF WithOperand, Others
  <2> QED
    BY <1>2, <1>3, <2>1, <2>2
<1>5. CASE st \in [op : {"instr"}, lab : Labels, args : Seq(Operands), kind : Kinds]
  <2>1. st.op = "instr" /\ st.lab \in Labels /\ st.args \in Seq(Operands) /\ st.kind \in Kinds
    BY <1>5
  <2>2. st.op \notin WithOperand \cup Others
    BY <2>1 DEF WithOperand, Others
  <2> QED
    BY <1>2, <1>3, <2>1, <2>2
<1>6. CASE st \in [op : {"global"}, lab : Labels, args : Seq(Names)]
  <2>1. st.op = "global" /\ st.lab \in Labels
    BY <1>6
  <2>2. st.op \notin WithOperand \cup Others \cup {"instr"}
    BY <2>1 DEF WithOperand, Others
  <2> QED
    BY <1>2, <2>1, <2>2
<1> QED
  BY <1>2, <1>4, <1>5, <1>6 DEF Statements

LEMMA FirstOperand ==
  ASSUME NEW args \in Seq(Operands), args # <<>>
  PROVE  args[1] \in Operands
  OBVIOUS

LEMMA LabelledType ==
  ASSUME AsmInv, st.lab \in Labels, NEW loc \in Int, NEW sec \in Int
  PROVE  Labelled(loc, sec).tab \in Tables
<1>1. Look(symtab, {st.lab}) \in Tables
  BY LookType DEF AsmInv
<1>2. STLAB \in SymTypes /\ STLAB # STSEC
  BY DEF SymTypes, STLAB, STSEC
<1> QED
  BY <1>1, <1>2, AssignType DEF Labelled

-----------------------------------------------------------------------------
(* The steps.                                                              *)
LEMMA Frames ==
  ASSUME AsmInv
  PROVE  /\ NextLine /\ UNCHANGED <<cmd, pass2>> => SourceType'
         /\ UNCHANGED places => PlacesType'
         /\ UNCHANGED <<cursec, sectab, secct>> /\ curloc' \in Int => PlacesType'
         /\ UNCHANGED levels => LevelsRight'
         /\ UNCHANGED <<out, want, pass2>> /\ (UNCHANGED apc \/ apc' = "exit") => ObjectRight'
<1>1. NextLine /\ UNCHANGED <<cmd, pass2>> => SourceType'
  BY DEF AsmInv, SourceType, NextLine
<1>2. /\ UNCHANGED places => PlacesType'
      /\ UNCHANGED <<cursec, sectab, secct>> /\ curloc' \in Int => PlacesType'
  BY DEF AsmInv, PlacesType, places
<1>3. UNCHANGED levels => LevelsRight'
  BY DEF AsmInv, LevelsRight, levels
<1>4. UNCHANGED <<out, want, pass2>> /\ (UNCHANGED apc \/ apc' = "exit") => ObjectRight'
  BY DEF AsmInv, ObjectRight
<1> QED
  BY <1>1, <1>2, <1>3, <1>4

LEMMA LabelStep == ASSUME AsmInv, Label PROVE AsmInv'
<1>1. st.lab \in Labels
  BY StatementType DEF Label, Assembling
<1>2. curloc \in Int /\ cursec \in Int
  BY DEF AsmInv, PlacesType, Sections
<1>3. symtab' \in Tables
  BY <1>1, <1>2, LabelledType DEF Label
<1> QED
  BY <1>3, Frames DEF AsmInv, Label

LEMMA DataStep == ASSUME AsmInv, Data PROVE AsmInv' /\ SameLists(out', out)
<1>1. /\ Reading /\ st.op \in {"byte", "word", "long"} /\ apc = "pass"
      /\ st.lab \in Labels /\ st.args \in Seq(Operands) /\ st.args # <<>> /\ Len(cmd.src) \in Nat
  BY StatementType DEF Data, Assembling, Reading, WithOperand
<1>2. argn \in Nat /\ argn < Len(st.args) /\ st.args[argn + 1] \in Operands /\ Len(st.args) \in Nat
  <2>1. argn \in Nat /\ (argn > 0 => argn < Len(st.args))
    BY DEF AsmInv, SourceType, st
  <2>2. Len(st.args) \in Nat /\ Len(st.args) > 0
    BY <1>1
  <2>3. argn < Len(st.args)
    BY <2>1, <2>2
  <2> QED
    BY <1>1, <2>1, <2>2, <2>3
<1>3. curloc \in Int /\ cursec \in Int
  BY DEF AsmInv, PlacesType, Sections
<1> DEFINE loc == IF argn = 0 /\ st.op # "byte" THEN Even(curloc) ELSE curloc
           a == IF argn = 0 THEN Labelled(loc, cursec) ELSE [tab |-> symtab, e |-> {}]
           x == Operand(a.tab, st.args[argn + 1], loc)
<1>4. loc \in Int
  BY <1>3 DEF Even
<1>5. a.tab \in Tables
  <2>1. Labelled(loc, cursec).tab \in Tables
    <3> HIDE DEF loc
    <3> QED
      BY <1>1, <1>3, <1>4, LabelledType
  <2>2. symtab \in Tables
    BY DEF AsmInv
  <2> QED
    BY <2>1, <2>2
<1>6. x.tab \in Tables /\ x.v \in Values
  <2> HIDE DEF a, loc
  <2> QED
    BY <1>2, <1>3, <1>4, <1>5, OperandType
<1>7. Emittable(Field(st.op, x.v))
  <2> HIDE DEF x
  <2> QED
    BY <1>1, <1>6, FieldType
<1>8. Emit(loc, Field(st.op, x.v)) /\ symtab' = x.tab /\ UNCHANGED <<cmd, apc, pass2, cursec, sectab, secct, levels>>
  BY DEF Data
<1> HIDE DEF x, a, loc
<1>9. curloc' \in Int /\ ObjectRight' /\ SameLists(out', out)
  BY <1>1, <1>4, <1>7, <1>8, EmitKeeps
<1>10. SourceType'
  <2>1. CASE argn + 1 < Len(st.args)
    <3>1. argn' = argn + 1 /\ UNCHANGED <<line, cmd, pass2>>
      BY <2>1 DEF Data
    <3>2. line <= Len(cmd.src)
      BY <1>1 DEF Reading
    <3> QED
      BY <1>1, <1>2, <2>1, <3>1, <3>2 DEF AsmInv, SourceType, st
  <2>2. CASE ~(argn + 1 < Len(st.args))
    BY <2>2, Frames DEF Data
  <2> QED
    BY <2>1, <2>2
<1> QED
  BY <1>6, <1>8, <1>9, <1>10, Frames DEF AsmInv

LEMMA InstrStep == ASSUME AsmInv, Instr PROVE AsmInv' /\ SameLists(out', out)
<1>1. /\ apc = "pass" /\ st.lab \in Labels /\ st.args \in Seq(Operands) /\ st.args # <<>> /\ st.kind \in Kinds
  BY StatementType DEF Instr, Assembling, Reading
<1>2. curloc \in Int /\ cursec \in Int
  BY DEF AsmInv, PlacesType, Sections
<1> DEFINE loc == Even(curloc)
           a == Labelled(loc, cursec)
           x == Operand(a.tab, st.args[1], loc)
           dist == x.v.val - loc - 2
           bs == IF st.kind = "rel8" THEN <<Byte(0, NoRel), Byte(dist \div 2, NoRel)>>
                 ELSE <<Byte(0, NoRel), Byte(0, NoRel)>> \o Field(st.kind, x.v)
<1>3. loc \in Int
  BY <1>2 DEF Even
<1>4. a.tab \in Tables
  <2> HIDE DEF loc
  <2> QED
    BY <1>1, <1>2, <1>3, LabelledType
<1>5. x.tab \in Tables /\ x.v \in Values
  <2>1. st.args[1] \in Operands
    BY <1>1, FirstOperand
  <2> HIDE DEF a, loc
  <2> QED
    BY <1>2, <1>3, <1>4, <2>1, OperandType
<1>6. Emittable(bs)
  <2>1. dist \div 2 \in Int
    <3>1. x.v.val \in Int
      BY <1>5 DEF Values
    <3> HIDE DEF x, loc
    <3> QED
      BY <1>3, <3>1
  <2>2. CASE st.kind = "rel8"
    <3>1. Emittable(Field("byte", x.v))
      <4> HIDE DEF x
      <4> QED
        BY <1>5, FieldType
    <3>2. Emittable(<<Byte(0, NoRel), Byte(dist \div 2, NoRel)>>)
      <4> HIDE DEF dist
      <4> QED
        BY <2>1, <3>1, InstrBytes
    <3> QED
      BY <2>2, <3>2
  <2>3. CASE st.kind # "rel8"
    <3>1. Emittable(Field(st.kind, x.v))
      <4> HIDE DEF x
      <4> QED
        BY <1>1, <1>5, <2>3, FieldType
    <3>2. Emittable(<<Byte(0, NoRel), Byte(0, NoRel)>> \o Field(st.kind, x.v))
      BY <3>1, InstrBytes
    <3> QED
      BY <2>3, <3>2
  <2> QED
    BY <2>2, <2>3
<1>7. Emit(loc, bs) /\ symtab' = x.tab
  BY DEF Instr
<1>8. NextLine /\ UNCHANGED <<cmd, apc, pass2, cursec, sectab, secct, levels>>
  BY DEF Instr
<1> HIDE DEF bs, x, loc
<1>9. curloc' \in Int /\ ObjectRight' /\ SameLists(out', out)
  BY <1>1, <1>3, <1>6, <1>7, <1>8, EmitKeeps
<1> QED
  BY <1>5, <1>7, <1>8, <1>9, Frames DEF AsmInv

(* The statements with an operand: what it is, wherever they stand.        *)
LEMMA OperandOf ==
  ASSUME AsmInv, Reading, st.op \in WithOperand, NEW tab \in Tables
  PROVE  /\ apc = "pass" /\ st.lab \in Labels /\ curloc \in Int /\ cursec \in Int
         /\ Operand(tab, st.args[1], curloc).tab \in Tables
         /\ Operand(tab, st.args[1], curloc).v \in Values
<1>1. curloc \in Int /\ cursec \in Int
  BY DEF AsmInv, PlacesType, Sections
<1>2. st.args[1] \in Operands /\ st.lab \in Labels
  BY StatementType, FirstOperand
<1> QED
  BY <1>1, <1>2, OperandType DEF Reading

LEMMA MoveOrStay ==
  ASSUME AsmInv, apc = "pass", UNCHANGED <<apc, pass2, want>>, NEW loc \in Int,
         Move(loc) \/ UNCHANGED <<curloc, out, high>>
  PROVE  curloc' \in Int /\ ObjectRight' /\ SameLists(out', out)
<1>1. CASE Move(loc)
  BY <1>1, MoveKeeps
<1>2. CASE UNCHANGED <<curloc, out, high>>
  BY <1>2, Frames DEF AsmInv, PlacesType, SameLists
<1> QED
  BY <1>1, <1>2

LEMMA AlignStep == ASSUME AsmInv, Align PROVE AsmInv' /\ SameLists(out', out)
<1> DEFINE t == Look(symtab, {st.lab})
           x == Operand(t, st.args[1], curloc)
           ok == x.v.rel = RBABS /\ x.v.val \in 0 .. 32
           loc == IF ok THEN -((-curloc) \div PowerOf2[x.v.val]) * PowerOf2[x.v.val] ELSE curloc
           a == Assign(x.tab, st.lab, STLAB, loc, cursec)
<1>1. Reading /\ st.op \in WithOperand
  BY DEF Align, Assembling, WithOperand
<1>2. t \in Tables
  BY LookType DEF AsmInv
<1>3. apc = "pass" /\ st.lab \in Labels /\ curloc \in Int /\ cursec \in Int /\ x.tab \in Tables
  <2> HIDE DEF t
  <2> QED
    BY <1>1, <1>2, OperandOf
<1>4. loc \in Int
  <2> HIDE DEF x
  <2> QED
    BY <1>3, AlignedType
<1>5. a.tab \in Tables
  <2>1. STLAB \in SymTypes /\ STLAB # STSEC
    BY DEF SymTypes, STLAB, STSEC
  <2> HIDE DEF x, loc
  <2> QED
    BY <1>3, <1>4, <2>1, AssignType
<1>6. (Move(loc) \/ UNCHANGED <<curloc, out, high>>) /\ symtab' = a.tab
  BY DEF Align
<1>7. NextLine /\ UNCHANGED <<cmd, apc, pass2, cursec, sectab, secct, levels, want>>
  BY DEF Align
<1> HIDE DEF a, loc
<1>8. curloc' \in Int /\ ObjectRight' /\ SameLists(out', out)
  BY <1>3, <1>4, <1>6, <1>7, MoveOrStay
<1> QED
  BY <1>5, <1>6, <1>7, <1>8, Frames DEF AsmInv

LEMMA BlockStep == ASSUME AsmInv, Block PROVE AsmInv' /\ SameLists(out', out)
<1> DEFINE a == Labelled(curloc, cursec)
           x == Operand(a.tab, st.args[1], curloc)
           loc == curloc + x.v.val
<1>1. Reading /\ st.op \in WithOperand
  BY DEF Block, Assembling, WithOperand
<1>2. symtab \in Tables
  BY DEF AsmInv
<1>3. apc = "pass" /\ st.lab \in Labels /\ curloc \in Int /\ cursec \in Int
  BY <1>1, <1>2, OperandOf
<1>4. a.tab \in Tables
  BY <1>3, LabelledType
<1>5. x.tab \in Tables /\ x.v \in Values
  <2> HIDE DEF a
  <2> QED
    BY <1>1, <1>4, OperandOf
<1>6. loc \in Int
  <2>1. x.v.val \in Int
    BY <1>5 DEF Values
  <2> HIDE DEF x
  <2> QED
    BY <1>3, <2>1
<1>7. (Move(loc) \/ UNCHANGED <<curloc, out, high>>) /\ symtab' = x.tab
  BY DEF Block
<1>8. NextLine /\ UNCHANGED <<cmd, apc, pass2, cursec, sectab, secct, levels, want>>
  BY DEF Block
<1> HIDE DEF x, loc
<1>9. curloc' \in Int /\ ObjectRight' /\ SameLists(out', out)
  BY <1>3, <1>6, <1>7, <1>8, MoveOrStay
<1> QED
  BY <1>5, <1>7, <1>8, <1>9, Frames DEF AsmInv

LEMMA OrgStep == ASSUME AsmInv, Org PROVE AsmInv' /\ SameLists(out', out)
<1> DEFINE t == Look(symtab, {st.lab})
           x == Operand(t, st.args[1], curloc)
           ok == x.v.rel = cursec
           loc == x.v.val
           a == IF ok THEN Assign(x.tab, st.lab, STLAB, loc, cursec) ELSE [tab |-> x.tab, e |-> {}]
<1>1. Reading /\ st.op \in WithOperand
  BY DEF Org, Assembling, WithOperand
<1>2. t \in Tables
  BY LookType DEF AsmInv
<1>3. /\ apc = "pass" /\ st.lab \in Labels /\ curloc \in Int /\ cursec \in Int
      /\ x.tab \in Tables /\ x.v \in Values
  <2> HIDE DEF t
  <2> QED
    BY <1>1, <1>2, OperandOf
<1>4. loc \in Int
  BY <1>3 DEF Values
<1>5. a.tab \in Tables
  <2>1. STLAB \in SymTypes /\ STLAB # STSEC
    BY DEF SymTypes, STLAB, STSEC
  <2>2. Assign(x.tab, st.lab, STLAB, loc, cursec).tab \in Tables
    <3> HIDE DEF x, loc
    <3> QED
      BY <1>3, <1>4, <2>1, AssignType
  <2> HIDE DEF x
  <2> QED
    BY <1>3, <2>2
<1>6. (Move(loc) \/ UNCHANGED <<curloc, out, high>>) /\ symtab' = a.tab
  BY DEF Org
<1>7. NextLine /\ UNCHANGED <<cmd, apc, pass2, cursec, sectab, secct, levels, want>>
  BY DEF Org
<1> HIDE DEF a, loc
<1>8. curloc' \in Int /\ ObjectRight' /\ SameLists(out', out)
  BY <1>3, <1>4, <1>6, <1>7, MoveOrStay
<1> QED
  BY <1>5, <1>6, <1>7, <1>8, Frames DEF AsmInv

LEMMA SetSecPlaces ==
  ASSUME AsmInv, NEW sec \in Sections, SetSec(sec), UNCHANGED secct
  PROVE  PlacesType' /\ curloc' \in Int
<1>1. PlacesType
  BY DEF AsmInv
<1>2. [sectab[cursec] EXCEPT !.loc = curloc] \in [sym : Labels, loc : Int]
  BY <1>1 DEF PlacesType
<1>3. sectab' = [sectab EXCEPT ![cursec] = [sectab[cursec] EXCEPT !.loc = curloc]]
  BY DEF SetSec
<1>4. sectab' \in [Sections -> [sym : Labels, loc : Int]]
  BY <1>1, <1>2, <1>3 DEF PlacesType
<1>5. cursec' = sec /\ curloc' = sectab'[sec].loc
  BY DEF SetSec
<1> QED
  BY <1>1, <1>4, <1>5 DEF PlacesType

LEMMA AbsStep == ASSUME AsmInv, Abs PROVE AsmInv'
<1>1. 0 \in Sections
  BY AsmAssumption DEF Sections
<1>2. PlacesType' /\ curloc' \in Int
  BY <1>1, SetSecPlaces DEF Abs
<1>3. st.lab \in Labels
  BY StatementType DEF Abs, Assembling
<1>4. Labelled(curloc', 0).tab \in Tables
  BY <1>2, <1>3, LabelledType
<1>5. symtab' = Labelled(curloc', 0).tab /\ NextLine /\ UNCHANGED <<cmd, apc, pass2, levels, out, want>>
  BY DEF Abs
<1> QED
  BY <1>2, <1>4, <1>5, Frames DEF AsmInv

LEMMA SectOldStep == ASSUME AsmInv, SectOld PROVE AsmInv'
<1>1. st.lab \in Names /\ symtab[st.lab].typ = STSEC
  BY StatementType DEF SectOld, Assembling, OldSection, Labels
<1>2. symtab[st.lab].rel \in Sections
  BY <1>1 DEF AsmInv, Tables
<1>3. PlacesType'
  BY <1>2, SetSecPlaces DEF SectOld
<1>4. NextLine /\ UNCHANGED <<cmd, apc, pass2, levels, symtab, out, want>>
  BY DEF SectOld, history
<1> QED
  BY <1>3, <1>4, Frames DEF AsmInv

LEMMA NewSecPlaces ==
  ASSUME AsmInv, ~TooMany, NEW tab \in Tables, NEW n \in Names, NewSec(tab, n)
  PROVE  PlacesType' /\ symtab' \in Tables
<1>1. PlacesType /\ secct \in Sections /\ secct + 1 \in 1 .. SECSIZ /\ secct \in Int
  BY AsmAssumption DEF AsmInv, PlacesType, TooMany, Sections
<1>2. n \in Labels
  BY DEF Labels
<1>3. STSEC \in SymTypes
  BY DEF SymTypes
<1>4. symtab' \in Tables
  <2>1. secct \in Int /\ 0 \in Int
    BY <1>1
  <2>2. Assign(tab, n, STSEC, 0, secct).tab \in Tables
    BY <1>1, <1>2, <1>3, <2>1, AssignType
  <2> QED
    BY <2>2 DEF NewSec
<1>5. sectab' \in [Sections -> [sym : Labels, loc : Int]]
  <2> DEFINE S == [sym : Labels, loc : Int]
             u == [sectab EXCEPT ![cursec].loc = curloc]
             v == [u EXCEPT ![secct].sym = n]
  <2>1. u \in [Sections -> S]
    BY <1>1 DEF PlacesType
  <2>2. v \in [Sections -> S]
    <3> HIDE DEF u
    <3> QED
      BY <1>1, <1>2, <2>1
  <2>3. sectab' = v
    BY DEF NewSec
  <2> QED
    BY <2>2, <2>3
<1>6. cursec' = secct /\ secct' = secct + 1 /\ curloc' = 0
  BY DEF NewSec
<1> QED
  BY <1>1, <1>4, <1>5, <1>6 DEF PlacesType

LEMMA SectNewStep == ASSUME AsmInv, SectNew PROVE AsmInv'
<1>1. st.lab \in Names
  BY StatementType DEF SectNew, Assembling, Labels
<1>2. UNCHANGED <<cmd, pass2, levels, out, want>>
  BY DEF SectNew, history
<1>3. CASE TooMany
  <2>1. apc' = "exit" /\ UNCHANGED <<places, symtab, line, argn>>
    BY <1>3 DEF SectNew
  <2>2. SourceType'
    BY <1>2, <2>1 DEF AsmInv, SourceType
  <2> QED
    BY <1>2, <2>1, <2>2, Frames DEF AsmInv
<1>4. CASE ~TooMany
  <2>1. NewSec(Look(symtab, {st.lab}), st.lab) /\ NextLine /\ UNCHANGED apc
    BY <1>4 DEF SectNew
  <2>2. Look(symtab, {st.lab}) \in Tables
    BY LookType DEF AsmInv
  <2>3. PlacesType' /\ symtab' \in Tables
    BY <1>1, <1>4, <2>1, <2>2, NewSecPlaces
  <2> QED
    BY <1>2, <2>1, <2>3, Frames DEF AsmInv
<1> QED
  BY <1>3, <1>4

LEMMA GlobalStep == ASSUME AsmInv, Global PROVE AsmInv'
<1> DEFINE t == Look(symtab, Range(st.args) \cup {st.lab})
<1>1. t \in Tables
  BY LookType DEF AsmInv
<1>2. symtab' = [n \in Names |-> IF n \in Range(st.args) THEN [t[n] EXCEPT !.glo = TRUE] ELSE t[n]]
  BY DEF Global
<1> HIDE DEF t
<1>3. \A n \in Names : [t[n] EXCEPT !.glo = TRUE] \in Symbols
                       /\ [t[n] EXCEPT !.glo = TRUE].typ = t[n].typ
                       /\ [t[n] EXCEPT !.glo = TRUE].rel = t[n].rel
  BY <1>1 DEF Tables, Symbols
<1>4. symtab' \in Tables
  BY <1>1, <1>2, <1>3 DEF Tables
<1>5. NextLine /\ UNCHANGED <<cmd, apc, pass2, places, levels, out, want>>
  BY DEF Global, history
<1> QED
  BY <1>4, <1>5, Frames DEF AsmInv

LEMMA EquStep == ASSUME AsmInv, Equ PROVE AsmInv'
<1> DEFINE t == Look(symtab, {st.lab})
           x == Operand(t, st.args[1], curloc)
           a == IF x.v.e = {} \/ pass2
                THEN Assign(x.tab, st.lab, IF st.op = "equ" THEN STLAB ELSE STVAR, x.v.val, x.v.rel)
                ELSE [tab |-> x.tab, e |-> {}]
<1>1. Reading /\ st.op \in WithOperand
  BY DEF Equ, Assembling, WithOperand
<1>2. t \in Tables
  BY LookType DEF AsmInv
<1>3. st.lab \in Labels /\ x.tab \in Tables /\ x.v \in Values
  <2> HIDE DEF t
  <2> QED
    BY <1>1, <1>2, OperandOf
<1>4. a.tab \in Tables
  <2> DEFINE typ == IF st.op = "equ" THEN STLAB ELSE STVAR
  <2>1. typ \in SymTypes /\ typ # STSEC
    BY DEF SymTypes, STLAB, STVAR, STSEC
  <2>2. x.v.val \in Int /\ x.v.rel \in Int
    BY <1>3 DEF Values
  <2>3. Assign(x.tab, st.lab, typ, x.v.val, x.v.rel).tab \in Tables
    <3> HIDE DEF x, typ
    <3> QED
      BY <1>3, <2>1, <2>2, AssignType
  <2> HIDE DEF x
  <2> QED
    BY <1>3, <2>3
<1>5. symtab' = a.tab /\ NextLine /\ UNCHANGED <<cmd, apc, pass2, places, levels, out, want>>
  BY DEF Equ, history
<1> HIDE DEF a
<1> QED
  BY <1>4, <1>5, Frames DEF AsmInv

LEMMA SectNoLabelStep == ASSUME AsmInv, SectNoLabel PROVE AsmInv'
  BY Frames DEF AsmInv, SectNoLabel, history

(* Conditional assembly.                                                   *)
LEMMA IfStep == ASSUME AsmInv, If PROVE AsmInv'
<1> DEFINE t == Look(symtab, {st.lab})
           x == Operand(t, st.args[1], curloc)
           cond == x.v.rel = RBABS /\ x.v.val # 0
<1>1. Reading /\ st.op \in WithOperand /\ condlev <= truelev
  BY DEF If, Assembling, WithOperand
<1>2. t \in Tables
  BY LookType DEF AsmInv
<1>3. x.tab \in Tables
  <2> HIDE DEF t
  <2> QED
    BY <1>1, <1>2, OperandOf
<1>4. /\ condlev' = condlev + 1 /\ truelev' = IF cond THEN truelev + 1 ELSE truelev
      /\ nest' = Append(nest, cond) /\ symtab' = x.tab
      /\ NextLine /\ UNCHANGED <<cmd, apc, pass2, places, out, want>>
  BY DEF If, history
<1>5. cond \in BOOLEAN
  OBVIOUS
<1> HIDE DEF x, cond
<1>6. LevelsRight'
  <2>1. nest \in Seq(BOOLEAN) /\ Len(nest) \in Nat /\ truelev = Len(nest) /\ condlev = Len(nest)
        /\ \A i \in 1 .. truelev : nest[i]
    BY <1>1 DEF AsmInv, LevelsRight
  <2>2. /\ nest' \in Seq(BOOLEAN) /\ Len(nest') = Len(nest) + 1
        /\ \A i \in 1 .. Len(nest) : nest'[i] = nest[i]
        /\ nest'[Len(nest) + 1] = cond
    BY <1>4, <1>5, <2>1, AppendProperties
  <2> QED
    BY <1>4, <1>5, <2>1, <2>2 DEF LevelsRight
<1> QED
  BY <1>3, <1>4, <1>6, Frames DEF AsmInv

LEMMA FlipIs ==
  ASSUME NEW s \in Seq(BOOLEAN), s # <<>>
  PROVE  /\ Flip(s) \in Seq(BOOLEAN) /\ Len(Flip(s)) = Len(s) /\ Len(s) \in Nat \ {0}
         /\ \A i \in 1 .. Len(s) - 1 : Flip(s)[i] = s[i]
         /\ Flip(s)[Len(s)] = ~s[Len(s)]
<1>1. Len(s) \in Nat \ {0} /\ s \in [1 .. Len(s) -> BOOLEAN]
  OBVIOUS
<1>2. Flip(s) = [s EXCEPT ![Len(s)] = ~s[Len(s)]]
  BY DEF Flip
<1>3. Flip(s) \in [1 .. Len(s) -> BOOLEAN] /\ DOMAIN Flip(s) = 1 .. Len(s)
  BY <1>1, <1>2
<1>4. Flip(s) \in Seq(BOOLEAN) /\ Len(Flip(s)) = Len(s)
  BY <1>1, <1>3
<1>5. DOMAIN s = 1 .. Len(s) /\ Len(s) \in 1 .. Len(s)
  BY <1>1
<1>6. Flip(s)[Len(s)] = ~s[Len(s)]
  BY <1>2, <1>5, Zenon
<1>7. ASSUME NEW i \in 1 .. Len(s) - 1 PROVE Flip(s)[i] = s[i]
  <2>1. i \in 1 .. Len(s) /\ i # Len(s)
    <3> DEFINE L == Len(s)
    <3>1. L \in Nat /\ i \in 1 .. L - 1
      BY <1>1
    <3> HIDE DEF L
    <3>2. i \in 1 .. L /\ i # L
      BY <3>1
    <3> QED
      BY <3>2 DEF L
  <2> QED
    BY <1>2, <1>5, <2>1, Zenon
<1> QED
  BY <1>1, <1>4, <1>6, <1>7

LEMMA FrontIs ==
  ASSUME NEW s \in Seq(BOOLEAN), s # <<>>
  PROVE  /\ Front(s) \in Seq(BOOLEAN) /\ Len(Front(s)) = Len(s) - 1 /\ Len(s) \in Nat \ {0}
         /\ \A i \in 1 .. Len(s) - 1 : Front(s)[i] = s[i]
<1>1. Len(s) \in Nat \ {0}
  OBVIOUS
<1>2. Front(s) = [i \in 1 .. Len(s) - 1 |-> s[i]]
  BY <1>1 DEF Front
<1> QED
  BY <1>1, <1>2

LEMMA ElseStep == ASSUME AsmInv, Else PROVE AsmInv'
<1>1. symtab' \in Tables
  BY LookType DEF AsmInv, Else
<1>2. NextLine /\ UNCHANGED <<cmd, apc, pass2, places, condlev, out, want>>
  BY DEF Else, history
<1>3. LevelsRight'
  <2>1. /\ nest \in Seq(BOOLEAN) /\ Len(nest) \in Nat /\ truelev = Len(nest) /\ condlev = Len(nest)
        /\ \A i \in 1 .. truelev : nest[i]
    BY DEF AsmInv, LevelsRight, Else, Assembling
  <2>2. CASE truelev > 0
    <3>1. truelev' = truelev - 1 /\ nest' = Flip(nest) /\ nest # <<>>
      BY <2>1, <2>2 DEF Else
    <3>2. /\ nest' \in Seq(BOOLEAN) /\ Len(nest') = Len(nest)
          /\ \A i \in 1 .. Len(nest) - 1 : nest'[i] = nest[i]
          /\ nest'[Len(nest)] = ~nest[Len(nest)]
      BY <2>1, <3>1, FlipIs
    <3>3. nest[Len(nest)]
      BY <2>1, <2>2
    <3> QED
      BY <1>2, <2>1, <2>2, <3>1, <3>2, <3>3 DEF LevelsRight
  <2>3. CASE ~(truelev > 0)
    BY <1>2, <2>3, Frames DEF Else, levels
  <2> QED
    BY <2>2, <2>3
<1> QED
  BY <1>1, <1>2, <1>3, Frames DEF AsmInv

LEMMA EndifStep == ASSUME AsmInv, Endif PROVE AsmInv'
<1>1. symtab' \in Tables
  BY LookType DEF AsmInv, Endif
<1>2. NextLine /\ UNCHANGED <<cmd, apc, pass2, places, out, want>>
  BY DEF Endif, history
<1>3. LevelsRight'
  <2>1. /\ nest \in Seq(BOOLEAN) /\ Len(nest) \in Nat /\ truelev = Len(nest) /\ condlev = Len(nest)
        /\ \A i \in 1 .. truelev : nest[i]
    BY DEF AsmInv, LevelsRight, Endif, Assembling
  <2>2. CASE condlev > 0
    <3>1. condlev' = condlev - 1 /\ truelev' = truelev - 1 /\ nest' = Front(nest) /\ nest # <<>>
      BY <2>1, <2>2 DEF Endif
    <3>2. /\ nest' \in Seq(BOOLEAN) /\ Len(nest') = Len(nest) - 1
          /\ \A i \in 1 .. Len(nest) - 1 : nest'[i] = nest[i]
      BY <2>1, <3>1, FrontIs
    <3> QED
      BY <2>1, <2>2, <3>1, <3>2 DEF LevelsRight
  <2>3. CASE ~(condlev > 0)
    BY <2>3, Frames DEF Endif
  <2> QED
    BY <2>2, <2>3
<1> QED
  BY <1>1, <1>2, <1>3, Frames DEF AsmInv

(* In text that is skipped an .if is never taken, and an .else turns only  *)
(* the outermost .if that is not.                                          *)
LEMMA SkipStep == ASSUME AsmInv, Skip PROVE AsmInv'
<1>1. NextLine /\ UNCHANGED <<cmd, apc, pass2, places, symtab, out, want>>
  BY DEF Skip, history
<1>2. LevelsRight'
  <2>1. /\ nest \in Seq(BOOLEAN) /\ Len(nest) \in Nat /\ condlev = Len(nest)
        /\ truelev \in Nat /\ truelev < Len(nest) /\ nest # <<>>
        /\ \A i \in 1 .. truelev : nest[i]
        /\ ~nest[truelev + 1]
    BY DEF AsmInv, LevelsRight, Skip
  <2>2. CASE st.op = "if"
    <3>1. condlev' = condlev + 1 /\ nest' = Append(nest, FALSE) /\ UNCHANGED truelev
      BY <2>2 DEF Skip
    <3>2. /\ nest' \in Seq(BOOLEAN) /\ Len(nest') = Len(nest) + 1
          /\ \A i \in 1 .. Len(nest) : nest'[i] = nest[i]
      BY <2>1, <3>1, AppendProperties
    <3> QED
      BY <2>1, <3>1, <3>2 DEF LevelsRight
  <2>3. CASE st.op = "else"
    <3>1. truelev' = (IF ElseTurns THEN truelev + 1 ELSE truelev) /\ nest' = Flip(nest) /\ UNCHANGED condlev
      BY <2>3 DEF Skip
    <3>2. /\ nest' \in Seq(BOOLEAN) /\ Len(nest') = Len(nest)
          /\ \A i \in 1 .. Len(nest) - 1 : nest'[i] = nest[i]
          /\ nest'[Len(nest)] = ~nest[Len(nest)]
      BY <2>1, <3>1, FlipIs
    <3>3. CASE truelev + 1 = Len(nest)
      <4>1. truelev' = Len(nest)
        BY <2>1, <3>1, <3>3 DEF ElseTurns
      <4>2. nest'[Len(nest)] /\ \A i \in 1 .. Len(nest) - 1 : nest'[i]
        BY <2>1, <3>2, <3>3
      <4> QED
        BY <2>1, <3>1, <3>2, <4>1, <4>2 DEF LevelsRight
    <3>4. CASE truelev + 1 # Len(nest)
      <4>1. truelev' = truelev
        BY <2>1, <3>1, <3>4 DEF ElseTurns
      <4>2. truelev + 1 \in 1 .. Len(nest) - 1
        BY <2>1, <3>4
      <4> QED
        BY <2>1, <3>1, <3>2, <4>1, <4>2 DEF LevelsRight
    <3> QED
      BY <3>3, <3>4
  <2>4. CASE st.op = "endif"
    <3>1. condlev' = condlev - 1 /\ nest' = Front(nest) /\ UNCHANGED truelev
      BY <2>4 DEF Skip
    <3>2. /\ nest' \in Seq(BOOLEAN) /\ Len(nest') = Len(nest) - 1
          /\ \A i \in 1 .. Len(nest) - 1 : nest'[i] = nest[i]
      BY <2>1, <3>1, FrontIs
    <3> QED
      BY <2>1, <3>1, <3>2 DEF LevelsRight
  <2>5. CASE st.op \notin {"if", "else", "endif"}
    BY <2>5, Frames DEF Skip
  <2> QED
    BY <2>2, <2>3, <2>4, <2>5
<1> QED
  BY <1>1, <1>2, Frames DEF AsmInv

(* The passes.                                                             *)
LEMMA StartPassStep == ASSUME AsmInv, StartPass PROVE AsmInv'
<1>1. "__text" \in Names /\ 0 \in Sections /\ 1 \in Sections /\ 2 \in 1 .. SECSIZ
  BY AsmAssumption DEF Sections
<1>2. SourceType'
  BY DEF AsmInv, SourceType, StartPass
<1>3. symtab' \in Tables
  <2>1. Look(symtab, {"__text"}) \in Tables
    BY LookType DEF AsmInv
  <2>2. Assign(Look(symtab, {"__text"}), "__text", STSEC, 0, 1).tab \in Tables
    BY <1>1, <2>1, AssignType DEF SymTypes, Labels
  <2> QED
    BY <2>2 DEF StartPass
<1>4. sectab' \in [Sections -> [sym : Labels, loc : Int]]
  <2> DEFINE S == [sym : Labels, loc : Int]
             u == [sectab EXCEPT ![0].loc = 0]
             v == [u EXCEPT ![1].sym = "__text"]
  <2>1. sectab \in [Sections -> S] /\ "__text" \in Labels
    BY <1>1 DEF AsmInv, PlacesType, Labels
  <2>2. u \in [Sections -> S]
    <3>1. [sectab[0] EXCEPT !.loc = 0] \in S
      BY <1>1, <2>1
    <3> QED
      BY <2>1, <3>1
  <2>3. v \in [Sections -> S]
    <3>1. [u[1] EXCEPT !.sym = "__text"] \in S
      <4> HIDE DEF u
      <4> QED
        BY <1>1, <2>1, <2>2
    <3> HIDE DEF u
    <3> QED
      BY <2>2, <3>1
  <2>4. sectab' = v
    BY DEF StartPass
  <2> QED
    BY <2>3, <2>4
<1>5. PlacesType'
  BY <1>1, <1>4 DEF StartPass, PlacesType
<1>6. LevelsRight'
  <2>1. nest' = <<>> /\ condlev' = 0 /\ truelev' = 0
    BY DEF StartPass
  <2> QED
    BY <2>1 DEF LevelsRight
<1>7. ObjectRight'
  <2>1. UNCHANGED <<pass2, out, want>> /\ apc' = "pass"
    BY DEF StartPass, history
  <2> QED
    BY <2>1 DEF AsmInv, ObjectRight
<1> QED
  BY <1>2, <1>3, <1>5, <1>6, <1>7 DEF AsmInv

LEMMA EndStep == ASSUME AsmInv, End PROVE AsmInv' /\ SameLists(out', out)
<1> DEFINE t == Look(symtab, {st.lab})
           x == Operand(t, st.args[1], curloc)
           b == [typ |-> "OBTRA", val |-> x.v.val, rel |-> x.v.rel]
           o == Oflush(out)
           n == [o EXCEPT !.cur = b, !.used = 6]
<1>1. apc = "pass" /\ st.args \in Seq(Operands) /\ Len(cmd.src) \in Nat /\ curloc \in Int /\ cursec \in Int
  BY StatementType DEF End, Assembling, Reading, Others, AsmInv, PlacesType, Sections
<1>2. t \in Tables
  BY LookType DEF AsmInv
<1>3. UNCHANGED <<cmd, apc, pass2, places, levels, want>> /\ line' = Len(cmd.src) + 1 /\ argn' = 0
  BY DEF End, history
<1>4. SourceType'
  BY <1>1, <1>3 DEF AsmInv, SourceType
<1>5. CASE st.args = <<>>
  <2>1. symtab' = t /\ UNCHANGED out
    BY <1>5 DEF End
  <2> HIDE DEF t
  <2> QED
    BY <1>2, <1>3, <1>4, <2>1, Frames DEF AsmInv, SameLists
<1>6. CASE st.args # <<>>
  <2>1. symtab' = x.tab /\ out' = IF pass2 THEN n ELSE out
    BY <1>6 DEF End
  <2>2. x.tab \in Tables /\ x.v \in Values
    <3>1. st.args[1] \in Operands
      BY <1>1, <1>6, FirstOperand
    <3> HIDE DEF t
    <3> QED
      BY <1>1, <1>2, <3>1, OperandType
  <2>3. b \in OtherBlocks
    <3>1. x.v.val \in Int /\ x.v.rel \in Int
      BY <2>2 DEF Values
    <3> HIDE DEF x
    <3> QED
      BY <3>1 DEF OtherBlocks
  <2>4. Good(out, 0) /\ TextOf(out) = want /\ (~pass2 => out.cur = None)
    BY DEF AsmInv, ObjectRight
  <2>5. Good(o, 0) /\ o.cur = None /\ TextOf(o) = TextOf(out) /\ SameLists(o, out)
    BY <2>4, OflushGood
  <2> HIDE DEF x, b, o
  <2>6. Good(n, 0) /\ TextOf(n) = TextOf(o) /\ SameLists(n, o)
    <3>1. o \in Objects
      BY <2>5 DEF Good
    <3>2. /\ n.blks = o.blks /\ n.cur = b /\ n.used = 6 /\ n.nxtloc = o.nxtloc /\ n.nxtsec = o.nxtsec
          /\ n = [blks |-> n.blks, cur |-> n.cur, used |-> n.used, nxtloc |-> n.nxtloc, nxtsec |-> n.nxtsec]
      <4>1. n \in [blks : {o.blks}, cur : {b}, used : {6}, nxtloc : {o.nxtloc}, nxtsec : {o.nxtsec}]
        BY <3>1 DEF Objects
      <4> HIDE DEF n
      <4> QED
        BY <4>1
    <3> HIDE DEF n
    <3> QED
      BY <2>3, <2>5, <3>2, OtherBlockGood
  <2> HIDE DEF n
  <2>7. ObjectRight'
    BY <1>1, <1>3, <2>1, <2>4, <2>5, <2>6 DEF ObjectRight
  <2>8. SameLists(out', out)
    BY <2>1, <2>5, <2>6 DEF SameLists
  <2> QED
    BY <1>3, <1>4, <2>1, <2>2, <2>7, <2>8, Frames DEF AsmInv
<1> QED
  BY <1>5, <1>6

LEMMA EndPassStep == ASSUME AsmInv, EndPass PROVE AsmInv' /\ SameLists(out', out)
<1>1. 0 \in Sections
  BY AsmAssumption DEF Sections
<1>2. PlacesType'
  BY <1>1, SetSecPlaces DEF EndPass
<1>3. UNCHANGED <<cmd, pass2, line, argn, symtab, levels, want>>
  BY DEF EndPass, history
<1>4. SourceType'
  BY <1>3 DEF AsmInv, SourceType
<1>5. Good(out, 0) /\ TextOf(out) = want /\ (~pass2 => out.cur = None)
  BY DEF AsmInv, ObjectRight
<1>6. ObjectRight' /\ SameLists(out', out)
  <2>1. CASE ~pass2
    <3>1. apc' = "interlude" /\ UNCHANGED out
      BY <2>1 DEF EndPass
    <3> QED
      BY <1>3, <1>5, <2>1, <3>1 DEF ObjectRight, SameLists
  <2>2. CASE pass2
    <3> DEFINE b == [typ |-> "OBOND"]
               o == Oflush(out)
               n == [o EXCEPT !.cur = b]
    <3>1. apc' = "ended" /\ out' = Oflush(n)
      BY <2>2 DEF EndPass
    <3>2. Good(o, 0) /\ o.cur = None /\ TextOf(o) = TextOf(out) /\ SameLists(o, out)
      BY <1>5, OflushGood
    <3>3. b \in OtherBlocks
      BY DEF OtherBlocks
    <3> HIDE DEF o, b
    <3>4. Good(n, 0) /\ TextOf(n) = TextOf(o) /\ SameLists(n, o)
      <4>1. o \in Objects /\ o.used \in Int
        BY <3>2 DEF Good, Objects
      <4>2. /\ n.blks = o.blks /\ n.cur = b /\ n.used = o.used /\ n.nxtloc = o.nxtloc /\ n.nxtsec = o.nxtsec
            /\ n = [blks |-> n.blks, cur |-> n.cur, used |-> n.used, nxtloc |-> n.nxtloc, nxtsec |-> n.nxtsec]
        BY <4>1 DEF Objects
      <4> HIDE DEF n
      <4> QED
        BY <3>2, <3>3, <4>1, <4>2, OtherBlockGood
    <3> HIDE DEF n
    <3>5. Good(Oflush(n), 0) /\ Oflush(n).cur = None /\ TextOf(Oflush(n)) = TextOf(n)
          /\ SameLists(Oflush(n), n)
      BY <3>4, OflushGood
    <3>6. SameLists(out', out)
      BY <3>1, <3>2, <3>4, <3>5 DEF SameLists
    <3> QED
      BY <1>3, <1>5, <3>1, <3>2, <3>4, <3>5, <3>6 DEF ObjectRight
  <2> QED
    BY <2>1, <2>2
<1> QED
  BY <1>2, <1>3, <1>4, <1>6, Frames DEF AsmInv

Opened == Oflush([out EXCEPT !.cur = [typ |-> "OBOST"]])

LEMMA InterludeOpens ==
  ASSUME AsmInv, apc = "interlude"
  PROVE  Good(Opened, 0) /\ TextOf(Opened) = want /\ SameLists(Opened, out)
<1> DEFINE b == [typ |-> "OBOST"]
           n == [out EXCEPT !.cur = b]
<1>1. Good(out, 0) /\ TextOf(out) = want /\ out.cur = None
  BY DEF AsmInv, ObjectRight
<1>2. b \in OtherBlocks
  BY DEF OtherBlocks
<1>3. Opened = Oflush(n)
  BY DEF Opened
<1> HIDE DEF b
<1>4. Good(n, 0) /\ TextOf(n) = TextOf(out) /\ SameLists(n, out)
  <2>1. out \in Objects /\ out.used \in Int
    BY <1>1 DEF Good, Objects
  <2>2. /\ n.blks = out.blks /\ n.cur = b /\ n.used = out.used /\ n.nxtloc = out.nxtloc /\ n.nxtsec = out.nxtsec
        /\ n = [blks |-> n.blks, cur |-> n.cur, used |-> n.used, nxtloc |-> n.nxtloc, nxtsec |-> n.nxtsec]
    BY <2>1 DEF Objects
  <2> HIDE DEF n
  <2> QED
    BY <1>1, <1>2, <2>1, <2>2, OtherBlockGood
<1> HIDE DEF n
<1>5. Good(Oflush(n), 0) /\ TextOf(Oflush(n)) = TextOf(n) /\ SameLists(Oflush(n), n)
  BY <1>4, OflushGood
<1>6. SameLists(Oflush(n), out)
  BY <1>4, <1>5 DEF SameLists
<1> QED
  BY <1>1, <1>3, <1>4, <1>5, <1>6

LEMMA InterludeStep == ASSUME AsmInv, Interlude PROVE AsmInv'
<1>1. /\ apc' = "start" /\ pass2' = TRUE /\ UNCHANGED <<cmd, line, argn, places, levels, want>>
  BY DEF Interlude, history
<1>2. SourceType'
  BY <1>1 DEF AsmInv, SourceType
<1>3. symtab' \in Tables
  <2>1. symtab \in [Names -> Symbols] /\ \A n \in Names : symtab[n].typ = STSEC => symtab[n].rel \in Sections
    BY DEF AsmInv, Tables
  <2>2. ASSUME NEW n \in Names
        PROVE  /\ [symtab[n] EXCEPT !.typ = STLAB, !.glo = TRUE, !.val = 0, !.rel = Number(n)] \in Symbols
               /\ [symtab[n] EXCEPT !.typ = STLAB, !.glo = TRUE, !.val = 0, !.rel = Number(n)].typ # STSEC
    <3> DEFINE v == Number(n)
               s == symtab[n]
    <3>1. v \in Int
      BY NumberType
    <3>2. s \in Symbols /\ STLAB \in SymTypes /\ STLAB # STSEC
      BY <2>1 DEF SymTypes, STLAB, STSEC
    <3> HIDE DEF v, s
    <3>3. [s EXCEPT !.typ = STLAB, !.glo = TRUE, !.val = 0, !.rel = v] \in Symbols
      <4> DEFINE yes == TRUE
                 e == [s EXCEPT !.typ = STLAB, !.glo = yes, !.val = 0, !.rel = v]
      <4>1. yes \in BOOLEAN /\ STLAB \in SymTypes
        BY <3>2
      <4>2. s \in [typ : SymTypes, val : Int, rel : Int, glo : BOOLEAN, dp2 : BOOLEAN]
        BY <3>2 DEF Symbols
      <4> HIDE DEF yes
      <4>3. e = [typ |-> STLAB, val |-> 0, rel |-> v, glo |-> yes, dp2 |-> s.dp2] /\ s.dp2 \in BOOLEAN
        <5>1. e \in [typ : {STLAB}, val : {0}, rel : {v}, glo : {yes}, dp2 : {s.dp2}]
          BY <4>2
        <5>2. s.dp2 \in BOOLEAN
          BY <4>2
        <5> HIDE DEF e
        <5> QED
          BY <5>1, <5>2
      <4> HIDE DEF e
      <4>4. e \in Symbols
        BY <3>1, <4>1, <4>3 DEF Symbols
      <4> QED
        BY <4>4 DEF e, yes
    <3>4. [s EXCEPT !.typ = STLAB, !.glo = TRUE, !.val = 0, !.rel = v].typ = STLAB
      BY <3>2 DEF Symbols
    <3> QED
      BY <3>2, <3>3, <3>4 DEF v, s
  <2>3. symtab' = [n \in Names |->
          IF Numbered(n)
          THEN [symtab[n] EXCEPT !.typ = STLAB, !.glo = TRUE, !.val = 0, !.rel = Number(n)]
          ELSE symtab[n]]
    BY DEF Interlude
  <2>4. ASSUME NEW n \in Names
        PROVE  symtab'[n] \in Symbols /\ (symtab'[n].typ = STSEC => symtab'[n].rel \in Sections)
    <3>1. CASE Numbered(n)
      BY <2>2, <2>3, <3>1
    <3>2. CASE ~Numbered(n)
      BY <2>1, <2>3, <3>2
    <3> QED
      BY <3>1, <3>2
  <2>5. symtab' = [n \in Names |-> symtab'[n]]
    BY <2>3
  <2>6. symtab' \in [Names -> Symbols]
    BY <2>4, <2>5
  <2> QED
    BY <2>4, <2>6 DEF Tables
<1>4. ObjectRight'
  <2> DEFINE list == SectionList \o SymbolList
  <2>1. Good(Opened, 0) /\ TextOf(Opened) = want
    BY InterludeOpens DEF Interlude
  <2>2. out' = PutAll(Opened, list)
    BY DEF Interlude, Opened
  <2>3. list \in Seq(ToList)
    BY ListsType, ConcatProperties DEF AsmInv
  <2> HIDE DEF list
  <2>4. Good(PutAll(Opened, list), 0) /\ TextOf(PutAll(Opened, list)) = TextOf(Opened)
    BY <2>1, <2>3, PutAllGood
  <2> QED
    BY <1>1, <2>1, <2>2, <2>4 DEF ObjectRight
<1> QED
  BY <1>1, <1>2, <1>3, <1>4, Frames DEF AsmInv

-----------------------------------------------------------------------------
(* The specification.                                                      *)
LEMMA AsmInit == Init => AsmInv
<1> SUFFICES ASSUME Init PROVE AsmInv
  OBVIOUS
<1>1. SourceType
  <2>1. cmd \in Commands /\ pass2 = FALSE /\ line = 1 /\ argn = 0
    BY DEF Init, Init1
  <2>2. pass2 \in BOOLEAN
    BY <2>1, Zenon
  <2> QED
    BY <2>1, <2>2 DEF SourceType
<1>2. PlacesType
  <2>1. 0 \in Sections /\ 1 \in 1 .. SECSIZ
    BY AsmAssumption DEF Sections
  <2> QED
    BY <2>1 DEF Init, Init1, PlacesType, Sections, Labels
<1>3. symtab \in Tables
  <2>1. NewSym \in Symbols /\ NewSym.typ # STSEC
    BY DEF NewSym, Symbols, SymTypes, STNEW, STSEC, RBABS
  <2> QED
    BY <2>1 DEF Init, Init1, Tables
<1>4. LevelsRight
  <2>1. nest = <<>> /\ condlev = 0 /\ truelev = 0
    BY DEF Init, Init1
  <2> QED
    BY <2>1 DEF LevelsRight
<1>5. ObjectRight
  <2>1. /\ out = [blks |-> <<>>, cur |-> None, used |-> 0, nxtloc |-> 0, nxtsec |-> 0]
        /\ want = <<>> /\ apc = "start" /\ pass2 = FALSE
    BY DEF Init, Init1
  <2>2. 0 \in Sections
    BY AsmAssumption DEF Sections
  <2>3. out \in Objects /\ Len(out.blks) = 0 /\ out.cur = None
    BY <2>1, <2>2 DEF Objects
  <2>4. None.typ # "OBTXT" /\ ReadBack(None) = <<>>
    BY DEF None, ReadBack
  <2>5. ReadBlocks(<<>>) = <<>>
    <3>1. [typ |-> "OBOST"] \in Blocks
      BY DEF Blocks, OtherBlocks
    <3>2. <<>> \in Seq(Blocks)
      OBVIOUS
    <3> QED
      BY <3>1, <3>2, ReadBlocksAppend
  <2>6. TextOf(out) = <<>>
    BY <2>1, <2>4, <2>5 DEF TextOf
  <2>7. Good(out, 0)
    <3>1. \A i \in 1 .. Len(out.blks) : out.blks[i].typ = "OBTXT" => TextGood(out.blks[i], 0)
      BY <2>3
    <3>2. out.cur.typ # "OBTXT"
      BY <2>3, <2>4
    <3> QED
      BY <2>3, <3>1, <3>2 DEF Good
  <2>8. TextOf(out) = want /\ apc # "ended" /\ apc # "interlude"
    BY <2>1, <2>6
  <2> QED
    BY <2>3, <2>7, <2>8 DEF ObjectRight
<1> QED
  BY <1>1, <1>2, <1>3, <1>4, <1>5 DEF AsmInv

LEMMA AsmStep == AsmInv /\ [Next]_vars => AsmInv'
<1> SUFFICES ASSUME AsmInv, [Next]_vars PROVE AsmInv'
  OBVIOUS
<1>1. CASE Assemble
  BY <1>1, StartPassStep, InterludeStep, EndPassStep, EndStep, LabelStep, DataStep, InstrStep,
     AlignStep, BlockStep, OrgStep, AbsStep, SectNoLabelStep, SectOldStep, SectNewStep, GlobalStep,
     EquStep, IfStep, ElseStep, EndifStep, SkipStep DEF Assemble
<1>2. CASE UNCHANGED asmvars
  BY <1>2 DEF asmvars, AsmInv, SourceType, PlacesType, LevelsRight, ObjectRight
<1>3. Convert => UNCHANGED asmvars
  BY DEF Convert, Begin, Ignored, EndPass1, Interpass, EndPass2, Sections1, Symbols1, Text1,
         Sections2, Symbols2, Text2
<1>4. UNCHANGED vars => UNCHANGED asmvars
  BY DEF vars
<1> QED
  BY <1>1, <1>2, <1>3, <1>4 DEF Next

LEMMA LevelsTell == LevelsRight => OnlyTaken
<1> SUFFICES ASSUME LevelsRight PROVE OnlyTaken
  OBVIOUS
<1> DEFINE S == {k \in 0 .. Len(nest) : \A i \in 1 .. k : nest[i]}
<1>1. /\ Len(nest) \in Nat /\ truelev \in 0 .. Len(nest) /\ \A i \in 1 .. truelev : nest[i]
      /\ truelev < Len(nest) => ~nest[truelev + 1]
  BY DEF LevelsRight
<1>2. truelev \in S
  BY <1>1
<1>3. ASSUME NEW k \in S PROVE k <= truelev
  <2>1. k \in Nat /\ k <= Len(nest) /\ \A i \in 1 .. k : nest[i]
    BY <1>1
  <2>2. SUFFICES ASSUME k > truelev PROVE FALSE
    BY <1>1, <2>1
  <2>3. truelev + 1 \in 1 .. k /\ truelev < Len(nest)
    BY <1>1, <2>1, <2>2
  <2> QED
    BY <1>1, <2>1, <2>3
<1>4. S \subseteq Int
  BY <1>1
<1>5. Max(S) = truelev
  <2> HIDE DEF S
  <2>1. truelev \in Int
    BY <1>1
  <2>2. \A m \in S : (\A k \in S : m >= k) => m = truelev
    BY <1>2, <1>3, <1>4, <2>1
  <2>3. \A k \in S : truelev >= k
    BY <1>3, <1>4, <2>1
  <2> QED
    BY <1>2, <2>2, <2>3 DEF Max
<1> QED
  BY <1>5 DEF OnlyTaken, LevelsRight

LEMMA BlocksTell == ObjectRight => BlocksWhole
<1> SUFFICES ASSUME ObjectRight, NEW b \in Range(out.blks) \cup {out.cur}, b.typ = "OBTXT"
             PROVE  /\ 6 + Len(b.txt) + 3 * Len(b.rel) <= OBJSIZ
                    /\ \A r \in Range(b.rel) : r.pos + Width(r.act) <= 6 + Len(b.txt)
  BY DEF BlocksWhole
<1>1. out \in Objects /\ out.blks \in Seq(Blocks)
  BY DEF ObjectRight, Good, Objects
<1>2. TextGood(b, 0) /\ b \in Blocks \cup {None}
  <2>1. CASE b = out.cur
    BY <1>1, <2>1 DEF ObjectRight, Good, Objects
  <2>2. CASE b \in Range(out.blks)
    <3>1. PICK i \in 1 .. Len(out.blks) : b = out.blks[i]
      BY <1>1, <2>2 DEF Range
    <3> QED
      BY <1>1, <3>1 DEF ObjectRight, Good
  <2> QED
    BY <2>1, <2>2
<1>3. b \in TextBlocks
  BY <1>2, TypeTells
<1> DEFINE L == Len(b.txt)
           R == Len(b.rel)
<1>4. L \in Nat /\ R \in Nat /\ DOMAIN b.rel = 1 .. R /\ OBJSIZ \in Int
      /\ \A i \in 1 .. R : b.rel[i].pos \in Nat /\ b.rel[i].act \in Acts
  <2>1. b.txt \in Seq(0 .. 255) /\ b.rel \in Seq(PlacedRelocs)
    BY <1>3 DEF TextBlocks
  <2>2. \A i \in 1 .. Len(b.rel) : b.rel[i] \in PlacedRelocs
    BY <2>1
  <2>3. \A i \in 1 .. Len(b.rel) : b.rel[i].pos \in Nat /\ b.rel[i].act \in Acts
    BY <2>2 DEF PlacedRelocs
  <2>4. L \in Nat /\ R \in Nat /\ DOMAIN b.rel = 1 .. R
    BY <2>1
  <2>5. OBJSIZ \in Int
    BY AsmAssumption
  <2> QED
    BY <2>3, <2>4, <2>5
<1>5. 6 + L + 3 * R + 0 <= OBJSIZ /\ \A i \in 1 .. R : b.rel[i].pos + Width(b.rel[i].act) <= 6 + L + 0
  BY <1>2 DEF TextGood
<1>6. ASSUME NEW r \in Range(b.rel) PROVE r.pos + Width(r.act) <= 6 + L
  <2>1. PICK i \in 1 .. R : r = b.rel[i]
    BY <1>4 DEF Range
  <2> HIDE DEF L, R
  <2> QED
    BY <1>4, <1>5, <2>1
<1>7. 6 + L + 3 * R <= OBJSIZ
  <2> HIDE DEF L, R
  <2> QED
    BY <1>4, <1>5
<1> QED
  BY <1>6, <1>7

LEMMA AsmInvTells == AsmInv => ObjectFaithful
<1> SUFFICES ASSUME AsmInv PROVE ObjectFaithful
  OBVIOUS
<1>1. OnlyTaken /\ BlocksWhole
  BY LevelsTell, BlocksTell DEF AsmInv
<1>2. ASSUME apc = "ended" PROVE ReadBlocks(out.blks) = want
  <2>1. Good(out, 0) /\ TextOf(out) = want /\ out.cur = None
    BY <1>2 DEF AsmInv, ObjectRight
  <2>2. ReadBack(out.cur) = <<>>
    BY <2>1 DEF ReadBack, None
  <2>3. ReadBlocks(out.blks) \in Seq(Entries)
    <3>1. [typ |-> "OBOST"] \in Blocks /\ out.blks \in Seq(Blocks)
      BY <2>1 DEF Blocks, OtherBlocks, Good, Objects
    <3> QED
      BY <3>1, ReadBlocksAppend
  <2>4. ReadBlocks(out.blks) \o <<>> = ReadBlocks(out.blks)
    BY <2>3
  <2> QED
    BY <2>1, <2>2, <2>4 DEF TextOf
<1> QED
  BY <1>1, <1>2 DEF ObjectFaithful, ReadBlocks

(* However a program nests its conditions, changes its sections and moves  *)
(* its location counter, and however large a block may be, the object file *)
(* holds the bytes that pass 2 emitted and no others, each with its        *)
(* section, its address and its relocation, in blocks that are whole; and  *)
(* only statements in branches taken are assembled (aascom.c emitb(),      *)
(* setorg(), oflush(), asz8k.c skip1() and dircom()).                      *)
THEOREM ObjectCorrect == Spec => []ObjectFaithful
  BY AsmInit, AsmStep, AsmInvTells, PTL DEF Spec

-----------------------------------------------------------------------------
(* The lists of the interlude and the symbol table of pass 2.              *)

(* assign() lets a symbol that has been defined keep its type and, unless  *)
(* it is a variable, its value.                                            *)
Stays(s, t) ==
  /\ s.typ \notin {STNEW, STUND} => t.typ = s.typ /\ (s.typ # STVAR => t.val = s.val /\ t.rel = s.rel)
  /\ s.dp2 => t.dp2
  /\ t.dp2 => s.dp2 \/ pass2
Proper(tab) == tab \in Tables /\ \A n \in Names : tab[n].rel # RBUND
Grown(tab, new) ==
  /\ Proper(new)
  /\ \A n \in Names : Stays(tab[n], new[n]) /\ (new[n].typ = STSEC => tab[n].typ = STSEC)

(* Pass 1: a section has been given the number under which it is listed.   *)
SectionsNumbered ==
  /\ secct >= 2
  /\ \A r \in 1 .. secct - 1 : sectab[r].sym \in Names /\ symtab[sectab[r].sym].typ \notin {STNEW, STUND}
  /\ \A n \in Names : symtab[n].typ = STSEC => symtab[n].rel \in 1 .. secct - 1 /\ sectab[symtab[n].rel].sym = n
TextIsFirst == symtab["__text"].typ = STSEC /\ symtab["__text"].rel = 1
InPass1 ==
  /\ errs = {} /\ defs = {} /\ \A typ \in ListTypes : Listed(out, typ) = <<>>
  /\ \A n \in Names : ~symtab[n].dp2
  /\ apc = "start" => \A n \in Names : symtab[n].typ = STNEW
  /\ apc # "start" => SectionsNumbered /\ TextIsFirst

(* Pass 2: what has been listed of a symbol is still true of it, ...       *)
SectionListed(r, n) ==
  /\ n \in Names /\ symtab[n].typ \notin {STNEW, STUND}
  /\ symtab[n].typ = STSEC => /\ symtab[n].rel \in 1 .. Len(Listed(out, "OBSEC"))
                              /\ Listed(out, "OBSEC")[symtab[n].rel] = n
SymbolListed(typ, it) ==
  /\ it \in [name : Names, val : Int, sec : Int]
  /\ it.sec # RBUND => LET s == symtab[it.name] IN
       s.typ \in {STLAB, STVAR} /\ (s.typ = STLAB => s.val = it.val /\ s.rel = it.sec)
  /\ it.sec = RBUND /\ typ = "OBGLO" => symtab[it.name].typ = STLAB /\ symtab[it.name].rel >= RBEXT
ListsTrue ==
  /\ \A r \in 1 .. Len(Listed(out, "OBSEC")) : SectionListed(r, Listed(out, "OBSEC")[r])
  /\ \A typ \in {"OBGLO", "OBLOC"} : \A i \in 1 .. Len(Listed(out, typ)) : SymbolListed(typ, Listed(out, typ)[i])

(* ... and without an error the sections and labels of pass 2 are those of *)
(* the symbol table.                                                       *)
SectionStands(r) ==
  sectab[r].sym \in Names /\ symtab[sectab[r].sym].typ = STSEC /\ symtab[sectab[r].sym].rel = r
LabelStands(tab, d) ==
  /\ d \in [name : Names, val : Int, sec : Sections]
  /\ LET s == tab[d.name] IN s.typ = STLAB /\ s.val = d.val /\ s.rel = d.sec /\ s.dp2
InPass2 ==
  /\ ListsTrue /\ TextIsFirst
  /\ apc = "start" => errs = {} /\ defs = {}
  /\ apc # "start" /\ errs = {} => \A r \in 1 .. secct - 1 : SectionStands(r)
  /\ errs = {} => \A d \in defs : LabelStands(symtab, d)

ListsInv == Proper(symtab) /\ (~pass2 => InPass1) /\ (pass2 => InPass2)

-----------------------------------------------------------------------------
(* What look-ups and assignments do to the table.                          *)
LEMMA StaysTrans ==
  ASSUME NEW s, NEW t, NEW u, Stays(s, t), Stays(t, u)
  PROVE  Stays(s, u)
<1>1. s.typ \notin {STNEW, STUND} => u.typ = s.typ /\ (s.typ # STVAR => u.val = s.val /\ u.rel = s.rel)
  BY DEF Stays
<1>2. (s.dp2 => u.dp2) /\ (u.dp2 => s.dp2 \/ pass2)
  BY Zenon DEF Stays
<1> QED
  BY <1>1, <1>2 DEF Stays

LEMMA GrownTrans ==
  ASSUME NEW tab, NEW mid, NEW new, Grown(tab, mid), Grown(mid, new)
  PROVE  Grown(tab, new)
<1>1. Proper(new)
  BY DEF Grown
<1>2. ASSUME NEW n \in Names
      PROVE  Stays(tab[n], new[n]) /\ (new[n].typ = STSEC => tab[n].typ = STSEC)
  <2>1. Stays(tab[n], mid[n]) /\ Stays(mid[n], new[n])
    BY DEF Grown
  <2>2. new[n].typ = STSEC => tab[n].typ = STSEC
    BY DEF Grown
  <2> QED
    BY <2>1, <2>2, StaysTrans
<1> QED
  BY <1>1, <1>2 DEF Grown

LEMMA StaysSame == \A s : Stays(s, s)
  BY DEF Stays

LEMMA GrownSame ==
  ASSUME NEW tab, Proper(tab)
  PROVE  Grown(tab, tab)
  BY StaysSame DEF Grown

LEMMA LookGrown ==
  ASSUME NEW tab, Proper(tab), NEW ns
  PROVE  /\ Grown(tab, Look(tab, ns))
         /\ \A n \in Names : /\ tab[n].typ # STNEW \/ n \notin ns => Look(tab, ns)[n] = tab[n]
                             /\ tab[n].typ = STNEW /\ n \in ns => Look(tab, ns)[n].typ = STUND
<1> DEFINE new == Look(tab, ns)
<1>1. tab \in Tables /\ new \in Tables
  BY LookType DEF Proper
<1>2. ASSUME NEW n \in Names
      PROVE  /\ new[n].rel = tab[n].rel /\ new[n].dp2 = tab[n].dp2
             /\ tab[n].typ # STNEW \/ n \notin ns => new[n] = tab[n]
             /\ tab[n].typ = STNEW /\ n \in ns => new[n].typ = STUND
  <2>1. tab[n] \in Symbols
    BY <1>1 DEF Tables
  <2>2. [tab[n] EXCEPT !.typ = STUND].typ = STUND /\ [tab[n] EXCEPT !.typ = STUND].rel = tab[n].rel
        /\ [tab[n] EXCEPT !.typ = STUND].dp2 = tab[n].dp2
    BY <2>1 DEF Symbols
  <2> QED
    BY <2>2 DEF Look
<1> HIDE DEF new
<1>3. Proper(new)
  BY <1>1, <1>2 DEF Proper
<1>4. ASSUME NEW n \in Names
      PROVE  Stays(tab[n], new[n]) /\ (new[n].typ = STSEC => tab[n].typ = STSEC)
  <2>1. CASE new[n] = tab[n]
    BY <2>1, StaysSame
  <2>2. CASE new[n] # tab[n]
    <3>1. tab[n].typ = STNEW /\ new[n].typ = STUND /\ new[n].dp2 = tab[n].dp2
      BY <1>2, <2>2
    <3> QED
      BY <3>1 DEF Stays, STUND, STSEC
  <2> QED
    BY <2>1, <2>2
<1> QED
  BY <1>2, <1>3, <1>4 DEF Grown, new

LEMMA AssignStays ==
  ASSUME NEW tab, Proper(tab), NEW n \in Labels, NEW typ \in {STSEC, STLAB, STVAR},
         NEW val \in Int, NEW rel \in Int, rel # RBUND, typ = STSEC => rel \in Sections
  PROVE  LET a == Assign(tab, n, typ, val, rel) IN
         /\ Proper(a.tab)
         /\ \A m \in Names : /\ Stays(tab[m], a.tab[m])
                             /\ m # n => a.tab[m] = tab[m]
                             /\ a.tab[m].typ = STSEC => tab[m].typ = STSEC \/ (m = n /\ typ = STSEC)
         /\ a.e = {} /\ n # NoName =>
              LET s == a.tab[n] IN s.typ = typ /\ s.val = val /\ s.rel = rel /\ (pass2 => s.dp2)
         /\ ~pass2 /\ n # NoName /\ tab[n].typ = STUND => a.e = {}
         /\ a.e # {} => a.tab = tab
<1> DEFINE a == Assign(tab, n, typ, val, rel)
           err == Redefined(tab[n]) \/ (tab[n].typ # STUND /\ PhaseError(tab[n], typ, val, rel))
           new == [tab[n] EXCEPT !.typ = typ, !.val = val, !.rel = rel, !.dp2 = @ \/ pass2]
<1>0. tab \in Tables /\ typ \in SymTypes
  BY DEF Proper, SymTypes
<1>1. a.tab \in Tables
  BY <1>0, AssignType
<1>2. CASE n = NoName \/ err
  <2>1. a.tab = tab /\ (n # NoName => a.e # {})
    BY <1>2 DEF Assign
  <2>2. ~pass2 /\ n # NoName => tab[n].typ # STUND
    BY <1>2 DEF Redefined
  <2> HIDE DEF a, err, new
  <2> QED
    BY <2>1, <2>2, StaysSame DEF a
<1>3. CASE n # NoName /\ ~err
  <2>1. n \in Names
    BY <1>3 DEF Labels
  <2>2. tab \in [Names -> Symbols] /\ tab[n] \in Symbols
    BY <1>0, <2>1 DEF Tables
  <2>3. new.typ = typ /\ new.val = val /\ new.rel = rel /\ new.dp2 = (tab[n].dp2 \/ pass2)
    BY <2>2 DEF Symbols
  <2>4. a.tab = [tab EXCEPT ![n] = new] /\ a.e = {}
    BY <1>3 DEF Assign
  <2>5. Stays(tab[n], new)
    <3>1. (tab[n].dp2 => new.dp2) /\ (new.dp2 => tab[n].dp2 \/ pass2)
      <4> HIDE DEF new
      <4> QED
        BY <2>3
    <3>2. tab[n].typ \notin {STNEW, STUND} =>
            typ = tab[n].typ /\ (tab[n].typ # STVAR => val = tab[n].val /\ rel = tab[n].rel)
      <4>1. tab[n].rel # RBUND
        BY <2>1 DEF Proper
      <4> QED
        BY <1>3, <4>1 DEF PhaseError
    <3> HIDE DEF new
    <3> QED
      BY <2>3, <3>1, <3>2 DEF Stays
  <2> HIDE DEF new
  <2>6. /\ a.tab[n] = new
        /\ \A m \in Names : m # n => a.tab[m] = tab[m]
    BY <2>1, <2>2, <2>4
  <2> HIDE DEF a, err
  <2>7. Proper(a.tab)
    BY <1>1, <2>1, <2>3, <2>6 DEF Proper
  <2>8. ASSUME NEW m \in Names
        PROVE  /\ Stays(tab[m], a.tab[m])
               /\ a.tab[m].typ = STSEC => tab[m].typ = STSEC \/ (m = n /\ typ = STSEC)
    BY <2>3, <2>5, <2>6, StaysSame
  <2>9. pass2 => new.dp2
    BY <2>3
  <2> QED
    BY <2>3, <2>4, <2>6, <2>7, <2>8, <2>9 DEF a
<1> QED
  BY <1>2, <1>3

LEMMA AssignGrown ==
  ASSUME NEW tab, Proper(tab), NEW n \in Labels, NEW typ \in {STLAB, STVAR},
         NEW val \in Int, NEW rel \in Int, rel # RBUND
  PROVE  Grown(tab, Assign(tab, n, typ, val, rel).tab)
<1> DEFINE new == Assign(tab, n, typ, val, rel).tab
<1>1. typ \in {STSEC, STLAB, STVAR} /\ typ # STSEC
  BY DEF STSEC, STLAB, STVAR
<1>2. Proper(new) /\ \A m \in Names : Stays(tab[m], new[m]) /\ (new[m].typ = STSEC => tab[m].typ = STSEC)
  BY <1>1, AssignStays
<1> HIDE DEF new
<1>3. Grown(tab, new)
  BY <1>2 DEF Grown
<1> QED
  BY <1>3 DEF new

LEMMA StandsStay ==
  ASSUME NEW tab, NEW new, \A n \in Names : Stays(tab[n], new[n]), NEW d, LabelStands(tab, d)
  PROVE  LabelStands(new, d)
<1>1. d.name \in Names /\ d \in [name : Names, val : Int, sec : Sections]
  BY DEF LabelStands
<1>2. Stays(tab[d.name], new[d.name])
  BY <1>1
<1> QED
  BY <1>1, <1>2 DEF LabelStands, Stays, STNEW, STUND, STLAB, STVAR

LEMMA StandsGrown ==
  ASSUME NEW tab, NEW new, Grown(tab, new), NEW d, LabelStands(tab, d)
  PROVE  LabelStands(new, d)
  BY StandsStay DEF Grown

(* A section is numbered below what stands for "no section".               *)
LEMMA SectionIsNot ==
  ASSUME NEW sec \in Sections
  PROVE  sec \in Int /\ sec # RBUND /\ sec < RBEXT
  BY AsmAssumption DEF Sections, RBUND, RBEXT

(* The place of a label: where it is and what the table has of it.         *)
LEMMA AssignStands ==
  ASSUME NEW tab, Proper(tab), NEW n \in Labels, NEW val \in Int, NEW sec \in Sections, pass2,
         n # NoName, Assign(tab, n, STLAB, val, sec).e = {}
  PROVE  LabelStands(Assign(tab, n, STLAB, val, sec).tab, [name |-> n, val |-> val, sec |-> sec])
<1> DEFINE a == Assign(tab, n, STLAB, val, sec)
<1>1. n \in Names
  BY DEF Labels
<1>2. sec \in Int /\ sec # RBUND
  BY SectionIsNot
<1>3. STLAB \in {STSEC, STLAB, STVAR} /\ STLAB # STSEC
  BY DEF STSEC, STLAB
<1>4. LET s == a.tab[n] IN s.typ = STLAB /\ s.val = val /\ s.rel = sec /\ s.dp2
  BY <1>2, <1>3, AssignStays
<1> HIDE DEF a
<1> QED
  BY <1>1, <1>4 DEF LabelStands, a

LEMMA PrimaryRel ==
  ASSUME NEW tab, Proper(tab), NEW p \in Primaries, NEW loc, cursec \in Sections
  PROVE  Primary(tab, p, loc).rel # RBUND
<1>1. cursec # RBUND /\ RBABS # RBUND
  BY SectionIsNot DEF RBABS, RBUND
<1>2. CASE p.k = "sym"
  BY <1>1, <1>2 DEF Primary, Value
<1>3. CASE p.k = "con"
  BY <1>1, <1>3 DEF Primary, Value
<1>4. CASE p.k = "here"
  BY <1>1, <1>4 DEF Primary, Value
<1> QED
  BY <1>2, <1>3, <1>4 DEF Primaries

LEMMA ExpressionRel ==
  ASSUME NEW tab, Proper(tab), NEW x \in Operands, NEW loc, cursec \in Sections
  PROVE  Expression(tab, x, loc).rel # RBUND
<1> DEFINE l == Primary(tab, x.x, loc)
           r == Primary(tab, x.y, loc)
           e == l.e \cup r.e \cup
                (IF \/ x.f = "add" /\ l.rel # RBABS /\ r.rel # RBABS
                    \/ x.f = "sub" /\ l.rel # r.rel /\ r.rel # RBABS THEN {"E"} ELSE {})
           base == IF x.f = "add" /\ l.rel = RBABS THEN r ELSE l
<1>1. x.x \in Primaries /\ x.y \in Primaries /\ x.f \in {"pri", "add", "sub", "eq"}
  BY DEF Operands
<1>2. l.rel # RBUND /\ r.rel # RBUND /\ base.rel # RBUND /\ RBABS # RBUND
  BY <1>1, PrimaryRel DEF RBABS, RBUND
<1>3. Expression(tab, x, loc) =
        IF "E" \in e THEN Value(0, RBABS, NoName, e)
        ELSE CASE x.f = "add" -> Value(l.val + r.val, base.rel, base.of, e)
               [] x.f = "sub" -> IF l.rel = r.rel THEN Value(l.val - r.val, RBABS, NoName, e)
                                 ELSE Value(l.val - r.val, l.rel, l.of, e)
               [] x.f = "eq" -> Value(IF l.val = r.val /\ l.rel = r.rel THEN -1 ELSE 0, RBABS, NoName, e)
               [] OTHER -> l
  BY DEF Expression
<1> HIDE DEF l, r, e, base
<1>4. CASE "E" \in e
  BY <1>2, <1>3, <1>4 DEF Value
<1>5. CASE "E" \notin e
  BY <1>1, <1>2, <1>3, <1>5 DEF Value
<1> QED
  BY <1>4, <1>5

LEMMA OperandGrown ==
  ASSUME NEW tab, Proper(tab), NEW x \in Operands, NEW loc \in Int, cursec \in Sections
  PROVE  /\ Grown(tab, Operand(tab, x, loc).tab) /\ Operand(tab, x, loc).v \in Values
         /\ Operand(tab, x, loc).v.rel # RBUND
<1> DEFINE t == Look(tab, Syms(x))
<1>1. Grown(tab, t)
  BY LookGrown
<1>2. Proper(t) /\ t \in Tables
  BY <1>1 DEF Grown, Proper
<1> HIDE DEF t
<1>3. Expression(t, x, loc) \in Values
  BY <1>2, SectionIsNot, ExpressionType
<1>4. Expression(t, x, loc).rel # RBUND
  BY <1>2, ExpressionRel
<1> QED
  BY <1>1, <1>3, <1>4 DEF Operand, t

-----------------------------------------------------------------------------
(* A step that changes the table only so keeps what is known of the lists. *)
AllStay == \A n \in Names : Stays(symtab[n], symtab'[n])

LEMMA ListsStay ==
  ASSUME ListsTrue, AllStay, SameLists(out', out)
  PROVE  ListsTrue'
<1>1. \A typ \in ListTypes : Listed(out', typ) = Listed(out, typ)
  BY DEF SameLists
<1>2. {"OBSEC", "OBGLO", "OBLOC"} = ListTypes
  BY DEF ListTypes
<1>3. ASSUME NEW r \in 1 .. Len(Listed(out, "OBSEC"))
      PROVE  SectionListed(r, Listed(out, "OBSEC")[r])'
  <2> DEFINE n == Listed(out, "OBSEC")[r]
             l == Listed(out, "OBSEC")
  <2>1. SectionListed(r, n)
    BY DEF ListsTrue
  <2>2. Listed(out', "OBSEC") = l
    BY <1>1, <1>2
  <2>3. n \in Names /\ Stays(symtab[n], symtab'[n])
    BY <2>1 DEF SectionListed, AllStay
  <2>4. /\ symtab'[n].typ \notin {STNEW, STUND}
        /\ symtab'[n].typ = STSEC => symtab'[n].rel \in 1 .. Len(l) /\ l[symtab'[n].rel] = n
    BY <2>1, <2>3 DEF SectionListed, Stays, STSEC, STVAR
  <2>5. Listed(out', "OBSEC")[r] = n
    BY <2>2
  <2> QED
    BY <2>2, <2>3, <2>4, <2>5 DEF SectionListed
<1>4. ASSUME NEW typ \in {"OBGLO", "OBLOC"}, NEW i \in 1 .. Len(Listed(out, typ))
      PROVE  SymbolListed(typ, Listed(out, typ)[i])'
  <2>1. PICK it : it = Listed(out, typ)[i] /\ SymbolListed(typ, it)
    BY DEF ListsTrue
  <2>2. Listed(out', typ)[i] = it
    BY <1>1, <1>2, <2>1
  <2>3. it.name \in Names /\ Stays(symtab[it.name], symtab'[it.name])
    BY <2>1 DEF SymbolListed, AllStay
  <2>4. SymbolListed(typ, it)'
    BY <2>1, <2>3 DEF SymbolListed, Stays, STNEW, STUND, STLAB, STVAR
  <2> QED
    BY <2>2, <2>4
<1> QED
  BY <1>1, <1>2, <1>3, <1>4 DEF ListsTrue

LEMMA TextStays ==
  ASSUME TextIsFirst, AllStay
  PROVE  TextIsFirst'
<1>1. Stays(symtab["__text"], symtab'["__text"])
  BY AsmAssumption DEF AllStay
<1> QED
  BY <1>1 DEF TextIsFirst, Stays, STSEC, STNEW, STUND, STVAR

LEMMA SectionStays ==
  ASSUME NEW r, SectionStands(r), AllStay, sectab'[r].sym = sectab[r].sym
  PROVE  SectionStands(r)'
<1>1. sectab[r].sym \in Names /\ Stays(symtab[sectab[r].sym], symtab'[sectab[r].sym])
  BY DEF SectionStands, AllStay
<1> QED
  BY <1>1 DEF SectionStands, Stays, STSEC, STNEW, STUND, STVAR

SectionsKept == UNCHANGED secct /\ \A r \in Sections : sectab'[r].sym = sectab[r].sym

LEMMA ListsKept ==
  ASSUME PlacesType, ListsInv, Grown(symtab, symtab'), SameLists(out', out), UNCHANGED pass2, SectionsKept,
         apc # "start", apc' # "start", errs \subseteq errs', ~pass2 => UNCHANGED <<errs, defs>>,
         errs' = {} => \A d \in defs' : d \in defs \/ LabelStands(symtab', d)
  PROVE  ListsInv'
<1>1. Proper(symtab') /\ AllStay
  BY DEF Grown, AllStay
<1>2. \A r \in 1 .. secct - 1 : r \in Sections /\ sectab'[r].sym = sectab[r].sym
  BY AsmAssumption DEF PlacesType, Sections, SectionsKept
<1>3. secct' = secct
  BY DEF SectionsKept
<1>4. ASSUME ~pass2 PROVE InPass1'
  <2>1. InPass1
    BY <1>4 DEF ListsInv
  <2>2. errs' = {} /\ defs' = {} /\ \A typ \in ListTypes : Listed(out', typ) = <<>>
    BY <1>4, <2>1 DEF InPass1, SameLists
  <2>3. \A n \in Names : ~symtab'[n].dp2
    BY <1>1, <1>4, <2>1 DEF InPass1, AllStay, Stays
  <2>4. SectionsNumbered /\ TextIsFirst
    BY <2>1 DEF InPass1
  <2>5. ASSUME NEW r \in 1 .. secct - 1
        PROVE  sectab'[r].sym \in Names /\ symtab'[sectab'[r].sym].typ \notin {STNEW, STUND}
    <3>1. sectab[r].sym \in Names /\ symtab[sectab[r].sym].typ \notin {STNEW, STUND}
      BY <2>4 DEF SectionsNumbered
    <3>2. Stays(symtab[sectab[r].sym], symtab'[sectab[r].sym])
      BY <1>1, <3>1 DEF AllStay
    <3> QED
      BY <1>2, <3>1, <3>2 DEF Stays
  <2>6. ASSUME NEW n \in Names, symtab'[n].typ = STSEC
        PROVE  symtab'[n].rel \in 1 .. secct - 1 /\ sectab'[symtab'[n].rel].sym = n
    <3>1. symtab[n].typ = STSEC /\ Stays(symtab[n], symtab'[n])
      BY <2>6 DEF Grown
    <3>2. symtab'[n].rel = symtab[n].rel
      BY <3>1 DEF Stays, STSEC, STNEW, STUND, STVAR
    <3>3. symtab[n].rel \in 1 .. secct - 1 /\ sectab[symtab[n].rel].sym = n
      BY <2>4, <3>1 DEF SectionsNumbered
    <3> QED
      BY <1>2, <3>2, <3>3
  <2>7. SectionsNumbered'
    BY <1>3, <2>4, <2>5, <2>6 DEF SectionsNumbered
  <2> QED
    BY <1>1, <2>2, <2>3, <2>4, <2>7, TextStays DEF InPass1
<1>5. ASSUME pass2 PROVE InPass2'
  <2>1. InPass2
    BY <1>5 DEF ListsInv
  <2>2. ListsTrue' /\ TextIsFirst'
    BY <1>1, <2>1, ListsStay, TextStays DEF InPass2
  <2>3. ASSUME errs' = {}, NEW r \in 1 .. secct - 1 PROVE SectionStands(r)'
    <3>1. SectionStands(r)
      BY <2>1, <2>3 DEF InPass2
    <3> QED
      BY <1>1, <1>2, <3>1, SectionStays
  <2>4. ASSUME errs' = {}, NEW d \in defs' PROVE LabelStands(symtab', d)
    <3>1. CASE d \in defs
      <4>1. LabelStands(symtab, d)
        BY <2>1, <2>4, <3>1 DEF InPass2
      <4> QED
        BY <4>1, StandsGrown
    <3> QED
      BY <2>4, <3>1
  <2> QED
    BY <1>3, <2>2, <2>3, <2>4 DEF InPass2
<1> QED
  BY <1>1, <1>4, <1>5 DEF ListsInv

-----------------------------------------------------------------------------
(* What the statements have in common.                                     *)
LEMMA ErrorsTell ==
  ASSUME NEW es, Errors(es)
  PROVE  errs \subseteq errs' /\ (~pass2 => UNCHANGED errs) /\ (pass2 /\ errs' = {} => es = {})
<1>1. ASSUME NEW c \in es, pass2 PROVE errs' # {}
  <2>1. <<line, c>> \in errs'
    BY <1>1 DEF Errors
  <2> QED
    BY <2>1
<1>2. pass2 /\ errs' = {} => es = {}
  BY <1>1
<1>3. errs \subseteq errs' /\ (~pass2 => UNCHANGED errs)
  BY DEF Errors
<1> QED
  BY <1>2, <1>3

LEMMA StoodTells ==
  ASSUME NEW loc, NEW sec, Stood(loc, sec),
         pass2 /\ st.lab # NoName /\ errs' = {} =>
           LabelStands(symtab', [name |-> st.lab, val |-> loc, sec |-> sec])
  PROVE  /\ ~pass2 => UNCHANGED defs
         /\ errs' = {} => \A d \in defs' : d \in defs \/ LabelStands(symtab', d)
<1>1. CASE pass2 /\ st.lab # NoName
  <2> DEFINE new == [name |-> st.lab, val |-> loc, sec |-> sec]
  <2>1. defs' = defs \cup {new}
    BY <1>1 DEF Stood
  <2>2. errs' = {} => LabelStands(symtab', new)
    BY <1>1
  <2> HIDE DEF new
  <2> QED
    BY <1>1, <2>1, <2>2
<1>2. CASE ~(pass2 /\ st.lab # NoName)
  BY <1>2 DEF Stood
<1> QED
  BY <1>1, <1>2

LEMMA LabelledGrown ==
  ASSUME Proper(symtab), st.lab \in Labels, NEW loc \in Int, NEW sec \in Sections
  PROVE  /\ Grown(symtab, Labelled(loc, sec).tab)
         /\ pass2 /\ st.lab # NoName /\ Labelled(loc, sec).e = {} =>
              LabelStands(Labelled(loc, sec).tab, [name |-> st.lab, val |-> loc, sec |-> sec])
<1> DEFINE t == Look(symtab, {st.lab})
<1>1. Grown(symtab, t) /\ Proper(t)
  BY LookGrown DEF Grown
<1>2. sec \in Int /\ sec # RBUND
  BY SectionIsNot
<1> HIDE DEF t
<1>3. Grown(t, Assign(t, st.lab, STLAB, loc, sec).tab)
  BY <1>1, <1>2, AssignGrown
<1>4. pass2 /\ st.lab # NoName /\ Assign(t, st.lab, STLAB, loc, sec).e = {} =>
        LabelStands(Assign(t, st.lab, STLAB, loc, sec).tab, [name |-> st.lab, val |-> loc, sec |-> sec])
  BY <1>1, AssignStands
<1>5. Labelled(loc, sec) = Assign(t, st.lab, STLAB, loc, sec)
  BY DEF Labelled, t
<1>6. Grown(symtab, Labelled(loc, sec).tab)
  BY <1>1, <1>3, <1>5, GrownTrans
<1> QED
  BY <1>4, <1>5, <1>6

LEMMA SameSections ==
  ASSUME AsmInv, UNCHANGED secct, UNCHANGED sectab \/ \E sec : SetSec(sec)
  PROVE  SectionsKept
<1>1. sectab \in [Sections -> [sym : Labels, loc : Int]] /\ cursec \in Sections /\ curloc \in Int
  BY DEF AsmInv, PlacesType
<1>2. CASE UNCHANGED sectab
  BY <1>2 DEF SectionsKept
<1>3. CASE \E sec : SetSec(sec)
  <2>1. sectab' = [sectab EXCEPT ![cursec].loc = curloc]
    BY <1>3 DEF SetSec
  <2>2. \A r \in Sections : sectab'[r].sym = sectab[r].sym
    BY <1>1, <2>1
  <2> QED
    BY <2>2 DEF SectionsKept
<1> QED
  BY <1>2, <1>3

(* What a statement of pass 2 looks up is all there is to it, or it        *)
(* defines a label too.                                                    *)
LEMMA QuietLists ==
  ASSUME AsmInv, ListsInv, Grown(symtab, symtab'), SameLists(out', out), UNCHANGED <<pass2, defs>>, SectionsKept,
         apc # "start", apc' # "start", UNCHANGED errs \/ \E es : Errors(es)
  PROVE  ListsInv'
<1>1. errs \subseteq errs' /\ (~pass2 => UNCHANGED <<errs, defs>>)
  BY ErrorsTell
<1>2. PlacesType
  BY DEF AsmInv
<1>3. errs' = {} => \A d \in defs' : d \in defs \/ LabelStands(symtab', d)
  OBVIOUS
<1> QED
  BY <1>1, <1>2, <1>3, ListsKept

LEMMA StoodLists ==
  ASSUME AsmInv, ListsInv, Grown(symtab, symtab'), SameLists(out', out), UNCHANGED pass2, SectionsKept,
         apc # "start", apc' # "start", NEW es, Errors(es), NEW loc, NEW sec, Stood(loc, sec),
         pass2 /\ st.lab # NoName /\ es = {} =>
           LabelStands(symtab', [name |-> st.lab, val |-> loc, sec |-> sec])
  PROVE  ListsInv'
<1>1. errs \subseteq errs' /\ (~pass2 => UNCHANGED errs) /\ (pass2 /\ errs' = {} => es = {})
  BY ErrorsTell
<1>2. PlacesType
  BY DEF AsmInv
<1>3. /\ ~pass2 => UNCHANGED defs
      /\ errs' = {} => \A d \in defs' : d \in defs \/ LabelStands(symtab', d)
  BY <1>1, StoodTells
<1> QED
  BY <1>1, <1>2, <1>3, ListsKept

-----------------------------------------------------------------------------
(* The statements that may define a label.                                 *)
LEMMA InPlace ==
  ASSUME AsmInv, ListsInv
  PROVE  /\ Proper(symtab) /\ curloc \in Int /\ cursec \in Sections /\ cursec \in Int
         /\ Grown(symtab, Look(symtab, {st.lab})) /\ Proper(Look(symtab, {st.lab}))
<1>1. Proper(symtab) /\ curloc \in Int /\ cursec \in Sections
  BY DEF AsmInv, ListsInv, PlacesType
<1>2. Grown(symtab, Look(symtab, {st.lab}))
  BY <1>1, LookGrown
<1> QED
  BY <1>1, <1>2, SectionIsNot DEF Grown

LEMMA LabelLists == ASSUME AsmInv, ListsInv, Label PROVE ListsInv'
<1> DEFINE a == Labelled(curloc, cursec)
<1>1. Reading /\ apc = "pass" /\ UNCHANGED <<apc, pass2, sectab, secct, out>>
  BY DEF Label, Assembling, Reading, places
<1>2. symtab' = a.tab /\ Errors(a.e) /\ Stood(curloc, cursec)
  BY DEF Label
<1>3. /\ Grown(symtab, a.tab)
      /\ pass2 /\ st.lab # NoName /\ a.e = {} =>
           LabelStands(a.tab, [name |-> st.lab, val |-> curloc, sec |-> cursec])
  BY <1>1, InPlace, StatementType, LabelledGrown
<1>4. SectionsKept
  BY <1>1, SameSections
<1>5. SameLists(out', out)
  BY <1>1 DEF SameLists
<1> HIDE DEF a
<1> QED
  BY <1>1, <1>2, <1>3, <1>4, <1>5, StoodLists

LEMMA DataLists == ASSUME AsmInv, ListsInv, Data PROVE ListsInv'
<1>1. /\ Reading /\ apc = "pass" /\ UNCHANGED <<apc, pass2, sectab, secct>>
      /\ st.lab \in Labels /\ st.args \in Seq(Operands) /\ st.args # <<>>
  BY StatementType DEF Data, Assembling, Reading, WithOperand
<1>2. argn \in Nat /\ st.args[argn + 1] \in Operands
  <2>1. argn \in Nat /\ (argn > 0 => argn < Len(st.args))
    BY DEF AsmInv, SourceType, st
  <2>2. Len(st.args) \in Nat /\ Len(st.args) > 0
    BY <1>1
  <2>3. argn < Len(st.args)
    BY <2>1, <2>2
  <2> QED
    BY <1>1, <2>1, <2>2, <2>3
<1>3. Proper(symtab) /\ curloc \in Int /\ cursec \in Sections
  BY InPlace
<1> DEFINE loc == IF argn = 0 /\ st.op # "byte" THEN Even(curloc) ELSE curloc
           l == Labelled(loc, cursec)
           a == IF argn = 0 THEN l ELSE [tab |-> symtab, e |-> {}]
           x == Operand(a.tab, st.args[argn + 1], loc)
           d == [name |-> st.lab, val |-> loc, sec |-> cursec]
<1>4. loc \in Int
  BY <1>3 DEF Even
<1>5. symtab' = x.tab /\ Errors(a.e \cup x.v.e) /\ IF argn = 0 THEN Stood(loc, cursec) ELSE UNCHANGED defs
  BY DEF Data
<1> HIDE DEF loc
<1>6. Grown(symtab, l.tab) /\ (pass2 /\ st.lab # NoName /\ l.e = {} => LabelStands(l.tab, d))
  BY <1>1, <1>3, <1>4, LabelledGrown
<1> HIDE DEF l
<1>7. /\ Grown(symtab, a.tab) /\ Proper(a.tab)
      /\ argn = 0 /\ pass2 /\ st.lab # NoName /\ a.e = {} => LabelStands(a.tab, d)
  BY <1>3, <1>6, GrownSame DEF Grown
<1> HIDE DEF a
<1>8. Grown(a.tab, x.tab)
  BY <1>2, <1>3, <1>4, <1>7, OperandGrown
<1> HIDE DEF x
<1>9. Grown(symtab, symtab')
  BY <1>5, <1>7, <1>8, GrownTrans
<1>10. argn = 0 /\ pass2 /\ st.lab # NoName /\ a.e \cup x.v.e = {} => LabelStands(symtab', d)
  BY <1>5, <1>7, <1>8, StandsGrown
<1>11. SectionsKept /\ SameLists(out', out)
  BY <1>1, SameSections, DataStep
<1>12. CASE argn = 0
  BY <1>1, <1>5, <1>9, <1>10, <1>11, <1>12, StoodLists
<1>13. CASE argn # 0
  BY <1>1, <1>5, <1>9, <1>11, <1>13, QuietLists
<1> QED
  BY <1>12, <1>13

LEMMA InstrLists == ASSUME AsmInv, ListsInv, Instr PROVE ListsInv'
<1> DEFINE loc == Even(curloc)
           a == Labelled(loc, cursec)
           x == Operand(a.tab, st.args[1], loc)
           dist == x.v.val - loc - 2
           far == x.v.rel # cursec \/ dist % 2 # 0 \/ dist \notin -256 .. 255
           es == a.e \cup x.v.e \cup (IF st.kind = "rel8" /\ far THEN {"E"} ELSE {})
           d == [name |-> st.lab, val |-> loc, sec |-> cursec]
<1>1. /\ Reading /\ apc = "pass" /\ UNCHANGED <<apc, pass2, sectab, secct>>
      /\ st.lab \in Labels /\ st.args[1] \in Operands
  BY StatementType, FirstOperand DEF Instr, Assembling, Reading
<1>2. Proper(symtab) /\ curloc \in Int /\ cursec \in Sections
  BY InPlace
<1>3. loc \in Int
  BY <1>2 DEF Even
<1>4. symtab' = x.tab /\ Errors(es) /\ Stood(loc, cursec)
  BY DEF Instr
<1>5. es = {} => a.e = {}
  OBVIOUS
<1> HIDE DEF es, loc
<1>6. Grown(symtab, a.tab) /\ (pass2 /\ st.lab # NoName /\ a.e = {} => LabelStands(a.tab, d))
  BY <1>1, <1>2, <1>3, LabelledGrown
<1> HIDE DEF a
<1>7. Grown(a.tab, x.tab)
  <2>1. Proper(a.tab)
    BY <1>6 DEF Grown
  <2> QED
    BY <1>1, <1>2, <1>3, <2>1, OperandGrown
<1> HIDE DEF x
<1>8. Grown(symtab, symtab')
  BY <1>4, <1>6, <1>7, GrownTrans
<1>9. pass2 /\ st.lab # NoName /\ es = {} => LabelStands(symtab', d)
  BY <1>4, <1>5, <1>6, <1>7, StandsGrown
<1>10. SectionsKept /\ SameLists(out', out)
  BY <1>1, SameSections, InstrStep
<1> QED
  BY <1>1, <1>4, <1>8, <1>9, <1>10, StoodLists

LEMMA AlignLists == ASSUME AsmInv, ListsInv, Align PROVE ListsInv'
<1> DEFINE t == Look(symtab, {st.lab})
           x == Operand(t, st.args[1], curloc)
           ok == x.v.rel = RBABS /\ x.v.val \in 0 .. 32
           loc == IF ok THEN -((-curloc) \div PowerOf2[x.v.val]) * PowerOf2[x.v.val] ELSE curloc
           a == Assign(x.tab, st.lab, STLAB, loc, cursec)
           es == a.e \cup x.v.e \cup (IF ok THEN {} ELSE {"E"})
           d == [name |-> st.lab, val |-> loc, sec |-> cursec]
<1>1. /\ Reading /\ apc = "pass" /\ UNCHANGED <<apc, pass2, sectab, secct>>
      /\ st.lab \in Labels /\ st.args[1] \in Operands
  BY StatementType, FirstOperand DEF Align, Assembling, Reading, WithOperand
<1>2. curloc \in Int /\ cursec \in Sections /\ cursec \in Int /\ Grown(symtab, t) /\ Proper(t)
  BY InPlace
<1>3. symtab' = a.tab /\ Errors(es) /\ Stood(loc, cursec)
  BY DEF Align
<1>4. es = {} => a.e = {}
  OBVIOUS
<1> HIDE DEF es, t
<1>5. Grown(t, x.tab) /\ Proper(x.tab)
  BY <1>1, <1>2, OperandGrown DEF Grown
<1>6. loc \in Int
  <2> HIDE DEF x
  <2> QED
    BY <1>2, AlignedType
<1> HIDE DEF x, loc
<1>7. Grown(x.tab, a.tab) /\ (pass2 /\ st.lab # NoName /\ a.e = {} => LabelStands(a.tab, d))
  <2>1. cursec # RBUND
    BY <1>2, SectionIsNot
  <2>2. Grown(x.tab, a.tab)
    BY <1>1, <1>2, <1>5, <1>6, <2>1, AssignGrown
  <2>3. pass2 /\ st.lab # NoName /\ a.e = {} => LabelStands(a.tab, d)
    BY <1>1, <1>2, <1>5, <1>6, AssignStands
  <2> QED
    BY <2>2, <2>3
<1> HIDE DEF a
<1>8. Grown(symtab, symtab')
  <2>1. Grown(symtab, x.tab)
    BY <1>2, <1>5, GrownTrans
  <2> QED
    BY <1>3, <1>7, <2>1, GrownTrans
<1>9. pass2 /\ st.lab # NoName /\ es = {} => LabelStands(symtab', d)
  BY <1>3, <1>4, <1>7
<1>10. SectionsKept /\ SameLists(out', out)
  BY <1>1, SameSections, AlignStep
<1> QED
  BY <1>1, <1>3, <1>8, <1>9, <1>10, StoodLists

LEMMA BlockLists == ASSUME AsmInv, ListsInv, Block PROVE ListsInv'
<1> DEFINE a == Labelled(curloc, cursec)
           x == Operand(a.tab, st.args[1], curloc)
           ok == x.v.rel = RBABS
           es == a.e \cup x.v.e \cup (IF ok THEN {} ELSE {"E"})
           d == [name |-> st.lab, val |-> curloc, sec |-> cursec]
<1>1. /\ Reading /\ apc = "pass" /\ UNCHANGED <<apc, pass2, sectab, secct>>
      /\ st.lab \in Labels /\ st.args[1] \in Operands
  BY StatementType, FirstOperand DEF Block, Assembling, Reading, WithOperand
<1>2. curloc \in Int /\ cursec \in Sections /\ Proper(symtab)
  BY InPlace
<1>3. symtab' = x.tab /\ Errors(es) /\ Stood(curloc, cursec)
  BY DEF Block
<1>4. es = {} => a.e = {}
  OBVIOUS
<1> HIDE DEF es
<1>5. Grown(symtab, a.tab) /\ (pass2 /\ st.lab # NoName /\ a.e = {} => LabelStands(a.tab, d))
  BY <1>1, <1>2, LabelledGrown
<1> HIDE DEF a
<1>6. Grown(a.tab, x.tab)
  <2>1. Proper(a.tab)
    BY <1>5 DEF Grown
  <2> QED
    BY <1>1, <1>2, <2>1, OperandGrown
<1> HIDE DEF x
<1>7. Grown(symtab, symtab')
  BY <1>3, <1>5, <1>6, GrownTrans
<1>8. pass2 /\ st.lab # NoName /\ es = {} => LabelStands(symtab', d)
  BY <1>3, <1>4, <1>5, <1>6, StandsGrown
<1>9. SectionsKept /\ SameLists(out', out)
  BY <1>1, SameSections, BlockStep
<1> QED
  BY <1>1, <1>3, <1>7, <1>8, <1>9, StoodLists

LEMMA OrgLists == ASSUME AsmInv, ListsInv, Org PROVE ListsInv'
<1> DEFINE t == Look(symtab, {st.lab})
           x == Operand(t, st.args[1], curloc)
           ok == x.v.rel = cursec
           loc == x.v.val
           l == Assign(x.tab, st.lab, STLAB, loc, cursec)
           a == IF ok THEN l ELSE [tab |-> x.tab, e |-> {}]
           es == a.e \cup x.v.e \cup (IF ok THEN {} ELSE {"E"})
           d == [name |-> st.lab, val |-> loc, sec |-> cursec]
<1>1. /\ Reading /\ apc = "pass" /\ UNCHANGED <<apc, pass2, sectab, secct>>
      /\ st.lab \in Labels /\ st.args[1] \in Operands
  BY StatementType, FirstOperand DEF Org, Assembling, Reading, WithOperand
<1>2. curloc \in Int /\ cursec \in Sections /\ cursec \in Int /\ Grown(symtab, t) /\ Proper(t)
  BY InPlace
<1>3. symtab' = a.tab /\ Errors(es) /\ (IF ok THEN Stood(loc, cursec) ELSE UNCHANGED defs)
  BY DEF Org
<1>4. es = {} => a.e = {}
  OBVIOUS
<1> HIDE DEF es, t
<1>5. Grown(t, x.tab) /\ Proper(x.tab) /\ loc \in Int
  BY <1>1, <1>2, OperandGrown DEF Grown, Values
<1>6. Grown(symtab, x.tab)
  BY <1>2, <1>5, GrownTrans
<1> HIDE DEF x, loc, ok
<1>7. Grown(x.tab, l.tab) /\ (pass2 /\ st.lab # NoName /\ l.e = {} => LabelStands(l.tab, d))
  <2>1. cursec # RBUND
    BY <1>2, SectionIsNot
  <2>2. Grown(x.tab, l.tab)
    BY <1>1, <1>2, <1>5, <2>1, AssignGrown
  <2>3. pass2 /\ st.lab # NoName /\ l.e = {} => LabelStands(l.tab, d)
    BY <1>1, <1>2, <1>5, AssignStands
  <2> QED
    BY <2>2, <2>3
<1> HIDE DEF l
<1>8. Grown(symtab, l.tab)
  BY <1>6, <1>7, GrownTrans
<1>9. SectionsKept /\ SameLists(out', out)
  BY <1>1, SameSections, OrgStep
<1>10. CASE ok
  <2>1. symtab' = l.tab /\ (es = {} => l.e = {})
    BY <1>3, <1>4, <1>10
  <2> QED
    BY <1>1, <1>3, <1>7, <1>8, <1>9, <1>10, <2>1, StoodLists
<1>11. CASE ~ok
  BY <1>1, <1>3, <1>6, <1>9, <1>11, QuietLists
<1> QED
  BY <1>10, <1>11

LEMMA AbsLists == ASSUME AsmInv, ListsInv, Abs PROVE ListsInv'
<1>1. /\ Reading /\ apc = "pass" /\ UNCHANGED <<apc, pass2, secct, out>> /\ SetSec(0) /\ st.lab \in Labels
  BY StatementType DEF Abs, Assembling, Reading
<1>2. PICK loc : loc = curloc'
  OBVIOUS
<1>3. loc \in Int /\ 0 \in Sections
  BY <1>2, AbsStep, AsmAssumption DEF AsmInv, PlacesType, Sections
<1> DEFINE a == Labelled(loc, 0)
<1>4. symtab' = a.tab /\ Errors(a.e) /\ Stood(loc, 0)
  BY <1>2 DEF Abs
<1>5. /\ Grown(symtab, a.tab)
      /\ pass2 /\ st.lab # NoName /\ a.e = {} =>
           LabelStands(a.tab, [name |-> st.lab, val |-> loc, sec |-> 0])
  BY <1>1, <1>3, InPlace, LabelledGrown
<1>6. SectionsKept /\ SameLists(out', out)
  BY <1>1, SameSections DEF SameLists
<1> HIDE DEF a
<1> QED
  BY <1>1, <1>4, <1>5, <1>6, StoodLists

-----------------------------------------------------------------------------
(* The statements that define none, or one that is no place.               *)
LEMMA SectLists ==
  ASSUME AsmInv, ListsInv, SectNoLabel \/ SectOld
  PROVE  ListsInv'
<1>1. /\ apc = "pass" /\ UNCHANGED <<apc, pass2, secct, symtab, out, defs>>
      /\ UNCHANGED sectab \/ \E sec : SetSec(sec)
      /\ UNCHANGED errs \/ \E es : Errors(es)
  BY DEF SectNoLabel, SectOld, Assembling, Reading, places, history
<1>2. Grown(symtab, symtab')
  BY <1>1, InPlace, GrownSame
<1>3. SectionsKept /\ SameLists(out', out)
  BY <1>1, SameSections DEF SameLists
<1> QED
  BY <1>1, <1>2, <1>3, QuietLists

LEMMA GlobalLists == ASSUME AsmInv, ListsInv, Global PROVE ListsInv'
<1> DEFINE t == Look(symtab, Range(st.args) \cup {st.lab})
<1>1. /\ apc = "pass" /\ UNCHANGED <<apc, pass2, secct, sectab, out, defs, errs>>
  BY DEF Global, Assembling, Reading, places, history
<1>2. Grown(symtab, t) /\ Proper(t) /\ symtab' \in Tables
  BY InPlace, LookGrown, GlobalStep DEF Grown, AsmInv
<1>3. \A n \in Names : symtab'[n] = t[n] \/ symtab'[n] = [t[n] EXCEPT !.glo = TRUE]
  BY DEF Global
<1> HIDE DEF t
<1>4. ASSUME NEW n \in Names
      PROVE  symtab'[n].typ = t[n].typ /\ symtab'[n].val = t[n].val /\ symtab'[n].rel = t[n].rel
             /\ symtab'[n].dp2 = t[n].dp2
  <2>1. t[n] \in Symbols
    BY <1>2 DEF Proper, Tables
  <2> QED
    BY <1>3, <2>1 DEF Symbols
<1>5. Grown(t, symtab')
  <2>1. Proper(symtab')
    BY <1>2, <1>4 DEF Proper
  <2>2. ASSUME NEW n \in Names
        PROVE  Stays(t[n], symtab'[n]) /\ (symtab'[n].typ = STSEC => t[n].typ = STSEC)
    BY <1>4 DEF Stays
  <2> QED
    BY <2>1, <2>2 DEF Grown
<1>6. Grown(symtab, symtab')
  BY <1>2, <1>5, GrownTrans
<1>7. SectionsKept /\ SameLists(out', out)
  BY <1>1, SameSections DEF SameLists
<1> QED
  BY <1>1, <1>6, <1>7, QuietLists

LEMMA EquLists == ASSUME AsmInv, ListsInv, Equ PROVE ListsInv'
<1> DEFINE t == Look(symtab, {st.lab})
           x == Operand(t, st.args[1], curloc)
           typ == IF st.op = "equ" THEN STLAB ELSE STVAR
           a == IF x.v.e = {} \/ pass2 THEN Assign(x.tab, st.lab, typ, x.v.val, x.v.rel)
                ELSE [tab |-> x.tab, e |-> {}]
<1>1. /\ Reading /\ apc = "pass" /\ UNCHANGED <<apc, pass2, sectab, secct, out, defs>>
      /\ st.lab \in Labels /\ st.args[1] \in Operands
  BY StatementType, FirstOperand DEF Equ, Assembling, Reading, WithOperand, places, history
<1>2. curloc \in Int /\ cursec \in Sections /\ Grown(symtab, t) /\ Proper(t)
  BY InPlace
<1>3. symtab' = a.tab /\ \E es : Errors(es)
  BY DEF Equ
<1> HIDE DEF t
<1>4. Grown(t, x.tab) /\ Proper(x.tab) /\ x.v.val \in Int /\ x.v.rel \in Int /\ x.v.rel # RBUND
  BY <1>1, <1>2, OperandGrown DEF Grown, Values
<1> HIDE DEF x
<1>5. Grown(x.tab, a.tab)
  <2> DEFINE v == x.v.val
             r == x.v.rel
  <2>1. v \in Int /\ r \in Int /\ r # RBUND /\ typ \in {STLAB, STVAR}
    BY <1>4
  <2> HIDE DEF v, r, typ
  <2>2. Grown(x.tab, Assign(x.tab, st.lab, typ, v, r).tab)
    BY <1>1, <1>4, <2>1, AssignGrown
  <2> QED
    BY <1>4, <2>2, GrownSame DEF v, r
<1> HIDE DEF a
<1>6. Grown(symtab, symtab')
  <2>1. Grown(symtab, x.tab)
    BY <1>2, <1>4, GrownTrans
  <2> QED
    BY <1>3, <1>5, <2>1, GrownTrans
<1>7. SectionsKept /\ SameLists(out', out)
  BY <1>1, SameSections DEF SameLists
<1> QED
  BY <1>1, <1>3, <1>6, <1>7, QuietLists

LEMMA IfLists == ASSUME AsmInv, ListsInv, If PROVE ListsInv'
<1> DEFINE t == Look(symtab, {st.lab})
           x == Operand(t, st.args[1], curloc)
<1>1. /\ Reading /\ apc = "pass" /\ UNCHANGED <<apc, pass2, sectab, secct, out, defs>>
      /\ st.args[1] \in Operands
  BY StatementType, FirstOperand DEF If, Assembling, Reading, WithOperand, places, history
<1>2. curloc \in Int /\ cursec \in Sections /\ Grown(symtab, t) /\ Proper(t)
  BY InPlace
<1>3. symtab' = x.tab /\ \E es : Errors(es)
  BY DEF If
<1> HIDE DEF t
<1>4. Grown(t, x.tab)
  BY <1>1, <1>2, OperandGrown
<1> HIDE DEF x
<1>5. Grown(symtab, symtab')
  BY <1>2, <1>3, <1>4, GrownTrans
<1>6. SectionsKept /\ SameLists(out', out)
  BY <1>1, SameSections DEF SameLists
<1> QED
  BY <1>1, <1>3, <1>5, <1>6, QuietLists

LEMMA BranchLists ==
  ASSUME AsmInv, ListsInv, Else \/ Endif \/ Skip
  PROVE  ListsInv'
<1>1. /\ apc = "pass" /\ UNCHANGED <<apc, pass2, secct, sectab, out, defs>>
      /\ symtab' = Look(symtab, {st.lab}) \/ UNCHANGED symtab
      /\ UNCHANGED errs \/ \E es : Errors(es)
  BY DEF Else, Endif, Skip, Assembling, Reading, places, history
<1>2. Grown(symtab, symtab')
  BY <1>1, InPlace, GrownSame
<1>3. SectionsKept /\ SameLists(out', out)
  BY <1>1, SameSections DEF SameLists
<1> QED
  BY <1>1, <1>2, <1>3, QuietLists

LEMMA EndLists == ASSUME AsmInv, ListsInv, End PROVE ListsInv'
<1> DEFINE t == Look(symtab, {st.lab})
           x == Operand(t, st.args[1], curloc)
<1>1. /\ Reading /\ apc = "pass" /\ UNCHANGED <<apc, pass2, sectab, secct, defs>>
      /\ st.args \in Seq(Operands)
      /\ UNCHANGED errs \/ \E es : Errors(es)
  BY StatementType DEF End, Assembling, Reading, Others, places, history
<1>2. curloc \in Int /\ cursec \in Sections /\ Grown(symtab, t) /\ Proper(t)
  BY InPlace
<1>3. IF st.args = <<>> THEN symtab' = t ELSE symtab' = x.tab
  BY DEF End
<1> HIDE DEF t
<1>4. st.args # <<>> => Grown(t, x.tab)
  BY <1>1, <1>2, FirstOperand, OperandGrown
<1> HIDE DEF x
<1>5. Grown(symtab, symtab')
  BY <1>2, <1>3, <1>4, GrownTrans
<1>6. SectionsKept /\ SameLists(out', out)
  BY <1>1, SameSections, EndStep
<1> QED
  BY <1>1, <1>5, <1>6, QuietLists

LEMMA EndPassLists == ASSUME AsmInv, ListsInv, EndPass PROVE ListsInv'
<1>1. /\ apc = "pass" /\ apc' # "start" /\ UNCHANGED <<pass2, secct, symtab, errs, defs>> /\ SetSec(0)
  BY DEF EndPass, history
<1>2. Grown(symtab, symtab')
  BY <1>1, InPlace, GrownSame
<1>3. SectionsKept /\ SameLists(out', out)
  BY <1>1, SameSections, EndPassStep
<1> QED
  BY <1>1, <1>2, <1>3, QuietLists

-----------------------------------------------------------------------------
(* A section that is new to the pass.                                      *)
Given(n, s) == Assign(Look(symtab, {n}), n, STSEC, 0, s)

LEMMA SectionGiven ==
  ASSUME Proper(symtab), NEW n \in Names, NEW s \in Sections
  PROVE  LET a == Given(n, s) IN
         /\ Proper(a.tab)
         /\ \A m \in Names : Stays(symtab[m], a.tab[m]) /\ (m # n => a.tab[m] = symtab[m])
         /\ a.e = {} => a.tab[n].typ = STSEC /\ a.tab[n].rel = s
         /\ a.e # {} /\ a.tab[n].typ = STSEC => symtab[n].typ = STSEC
         /\ ~pass2 => a.tab[n].typ \notin {STNEW, STUND}
         /\ ~pass2 /\ symtab[n].typ = STNEW => a.e = {}
<1> DEFINE t == Look(symtab, {n})
           a == Assign(t, n, STSEC, 0, s)
<1>1. /\ Grown(symtab, t) /\ Proper(t)
      /\ \A m \in Names : m # n => t[m] = symtab[m]
      /\ t[n].typ # STNEW /\ (symtab[n].typ = STNEW => t[n].typ = STUND)
  BY LookGrown DEF Grown, STNEW, STUND
<1> HIDE DEF t
<1>2. n \in Labels /\ n # NoName /\ STSEC \in {STSEC, STLAB, STVAR} /\ 0 \in Int /\ s \in Int /\ s # RBUND
  BY SectionIsNot, AsmAssumption DEF Labels
<1>3. /\ Proper(a.tab)
      /\ \A m \in Names : Stays(t[m], a.tab[m]) /\ (m # n => a.tab[m] = t[m])
      /\ a.e = {} => a.tab[n].typ = STSEC /\ a.tab[n].rel = s
      /\ ~pass2 /\ t[n].typ = STUND => a.e = {}
      /\ a.e # {} => a.tab = t
  BY <1>1, <1>2, AssignStays
<1> HIDE DEF a
<1>4. ASSUME NEW m \in Names PROVE Stays(symtab[m], a.tab[m]) /\ (m # n => a.tab[m] = symtab[m])
  <2>1. Stays(symtab[m], t[m]) /\ Stays(t[m], a.tab[m])
    BY <1>1, <1>3 DEF Grown
  <2> QED
    BY <1>1, <1>3, <2>1, StaysTrans
<1>5. a.e # {} /\ a.tab[n].typ = STSEC => symtab[n].typ = STSEC
  BY <1>1, <1>3 DEF Grown
<1>6. ~pass2 => a.tab[n].typ \notin {STNEW, STUND}
  BY <1>1, <1>3 DEF STSEC, STNEW, STUND
<1>7. ~pass2 /\ symtab[n].typ = STNEW => a.e = {}
  BY <1>1, <1>3
<1> QED
  BY <1>3, <1>4, <1>5, <1>6, <1>7 DEF a, t, Given

LEMMA SectNewLists == ASSUME AsmInv, ListsInv, SectNew PROVE ListsInv'
<1>1. /\ Reading /\ apc = "pass" /\ UNCHANGED <<pass2, out, defs>> /\ SameLists(out', out)
      /\ st.lab \in Labels /\ st.lab # NoName /\ ~OldSection(st.lab)
  BY StatementType DEF SectNew, Assembling, Reading, history, SameLists
<1>2. PICK n : n = st.lab /\ n \in Names
  BY <1>1 DEF Labels
<1>3. CASE TooMany
  <2>1. apc' = "exit" /\ UNCHANGED <<sectab, secct, symtab, errs>>
    BY <1>3 DEF SectNew, places
  <2>2. SectionsKept /\ Grown(symtab, symtab')
    BY <2>1, SameSections, InPlace, GrownSame
  <2> QED
    BY <1>1, <2>1, <2>2, QuietLists
<1>4. CASE ~TooMany
  <2> DEFINE a == Given(n, secct)
  <2>1. /\ symtab' = a.tab /\ Errors(a.e) /\ secct' = secct + 1 /\ apc' = apc
        /\ sectab' = [sectab EXCEPT ![cursec].loc = curloc, ![secct].sym = n]
    BY <1>2, <1>4 DEF SectNew, NewSec, Given
  <2>2. /\ cursec \in Sections /\ sectab \in [Sections -> [sym : Labels, loc : Int]] /\ Proper(symtab)
        /\ secct \in Sections /\ secct \in Nat /\ secct >= 1
        /\ \A r \in 1 .. secct - 1 : r \in Sections /\ r # secct
    BY <1>4, AsmAssumption DEF AsmInv, PlacesType, Sections, ListsInv, TooMany
  <2>3. /\ sectab'[secct].sym = n
        /\ \A r \in Sections : r # secct => sectab'[r].sym = sectab[r].sym
    BY <2>1, <2>2
  <2>4. /\ Proper(a.tab)
        /\ \A m \in Names : Stays(symtab[m], a.tab[m]) /\ (m # n => a.tab[m] = symtab[m])
        /\ a.e = {} => a.tab[n].typ = STSEC /\ a.tab[n].rel = secct
        /\ a.e # {} /\ a.tab[n].typ = STSEC => symtab[n].typ = STSEC
        /\ ~pass2 => a.tab[n].typ \notin {STNEW, STUND}
    BY <1>2, <2>2, SectionGiven
  <2> HIDE DEF a
  <2>5. Proper(symtab') /\ AllStay
    BY <2>1, <2>4 DEF AllStay
  <2>6. (~pass2 => UNCHANGED errs) /\ errs \subseteq errs' /\ (pass2 /\ errs' = {} => a.e = {})
    BY <2>1, ErrorsTell
  <2>7. ASSUME ~pass2 PROVE InPass1'
    <3>1. InPass1 /\ SectionsNumbered /\ TextIsFirst
      BY <1>1, <2>7 DEF ListsInv, InPass1
    <3>2. errs' = {} /\ defs' = {} /\ \A typ \in ListTypes : Listed(out', typ) = <<>>
      BY <1>1, <2>6, <2>7, <3>1 DEF InPass1
    <3>3. \A m \in Names : ~symtab'[m].dp2
      BY <2>5, <2>7, <3>1 DEF InPass1, AllStay, Stays
    <3>4. ASSUME NEW r \in 1 .. secct
          PROVE  sectab'[r].sym \in Names /\ symtab'[sectab'[r].sym].typ \notin {STNEW, STUND}
      <4>1. CASE r = secct
        BY <1>2, <2>1, <2>3, <2>4, <2>7, <4>1
      <4>2. CASE r # secct
        <5>1. r \in 1 .. secct - 1
          BY <2>2, <4>2
        <5>2. sectab[r].sym \in Names /\ symtab[sectab[r].sym].typ \notin {STNEW, STUND}
          BY <3>1, <5>1 DEF SectionsNumbered
        <5>3. Stays(symtab[sectab[r].sym], symtab'[sectab[r].sym])
          BY <2>5, <5>2 DEF AllStay
        <5> QED
          BY <2>2, <2>3, <5>1, <5>2, <5>3 DEF Stays
      <4> QED
        BY <4>1, <4>2
    <3>5. ASSUME NEW m \in Names, symtab'[m].typ = STSEC
          PROVE  symtab'[m].rel \in 1 .. secct /\ sectab'[symtab'[m].rel].sym = m
      <4>1. CASE m = n
        <5>1. symtab[n].typ # STSEC
          BY <1>1, <1>2, <2>7 DEF OldSection
        <5>2. symtab'[n].rel = secct
          BY <2>1, <2>4, <3>5, <4>1, <5>1
        <5> QED
          BY <2>2, <2>3, <4>1, <5>2
      <4>2. CASE m # n
        <5>1. symtab'[m] = symtab[m]
          BY <2>1, <2>4, <4>2
        <5>2. symtab[m].rel \in 1 .. secct - 1 /\ sectab[symtab[m].rel].sym = m
          BY <3>1, <3>5, <5>1 DEF SectionsNumbered
        <5>3. symtab[m].rel \in 1 .. secct
          BY <2>2, <5>2
        <5> QED
          BY <2>2, <2>3, <5>1, <5>2, <5>3
      <4> QED
        BY <4>1, <4>2
    <3>6. secct' - 1 = secct /\ secct' >= 2
      BY <2>1, <2>2
    <3>7. SectionsNumbered'
      BY <3>4, <3>5, <3>6 DEF SectionsNumbered
    <3> QED
      BY <1>1, <2>1, <2>5, <3>1, <3>2, <3>3, <3>7, TextStays DEF InPass1
  <2>8. ASSUME pass2 PROVE InPass2'
    <3>1. InPass2
      BY <2>8 DEF ListsInv
    <3>2. ListsTrue' /\ TextIsFirst'
      BY <1>1, <2>5, <3>1, ListsStay, TextStays DEF InPass2
    <3>3. ASSUME errs' = {}, NEW r \in 1 .. secct PROVE SectionStands(r)'
      <4>1. CASE r = secct
        <5>1. a.e = {}
          BY <2>6, <2>8, <3>3
        <5> QED
          BY <1>2, <2>1, <2>3, <2>4, <4>1, <5>1 DEF SectionStands
      <4>2. CASE r # secct
        <5>1. r \in 1 .. secct - 1
          BY <2>2, <4>2
        <5>2. SectionStands(r)
          BY <1>1, <2>6, <3>1, <3>3, <5>1 DEF InPass2
        <5> QED
          BY <2>2, <2>3, <2>5, <5>1, <5>2, SectionStays
      <4> QED
        BY <4>1, <4>2
    <3>4. ASSUME errs' = {}, NEW d \in defs' PROVE LabelStands(symtab', d)
      <4>1. LabelStands(symtab, d)
        BY <1>1, <2>6, <3>1, <3>4 DEF InPass2
      <4> QED
        BY <2>5, <4>1, StandsStay DEF AllStay
    <3>5. secct' - 1 = secct
      BY <2>1, <2>2
    <3> QED
      BY <1>1, <2>1, <3>2, <3>3, <3>4, <3>5 DEF InPass2
  <2> QED
    BY <1>1, <2>5, <2>7, <2>8 DEF ListsInv
<1> QED
  BY <1>3, <1>4

-----------------------------------------------------------------------------
(* The passes and what is between them.                                    *)
LEMMA StartPassLists == ASSUME AsmInv, ListsInv, StartPass PROVE ListsInv'
<1> DEFINE a == Given("__text", 1)
<1>1. /\ apc = "start" /\ apc' = "pass" /\ UNCHANGED <<pass2, out, errs, defs>> /\ secct' = 2
      /\ SameLists(out', out)
      /\ symtab' = a.tab /\ sectab' = [sectab EXCEPT ![0].loc = 0, ![1].sym = "__text"]
  BY DEF StartPass, history, SameLists, Given
<1>2. /\ 0 \in Sections /\ 1 \in Sections /\ sectab \in [Sections -> [sym : Labels, loc : Int]]
      /\ "__text" \in Names /\ Proper(symtab)
  BY AsmAssumption DEF Sections, AsmInv, PlacesType, ListsInv
<1>3. sectab'[1].sym = "__text"
  BY <1>1, <1>2
<1>4. /\ Proper(a.tab)
      /\ \A m \in Names : Stays(symtab[m], a.tab[m]) /\ (m # "__text" => a.tab[m] = symtab[m])
      /\ a.e = {} => a.tab["__text"].typ = STSEC /\ a.tab["__text"].rel = 1
      /\ ~pass2 /\ symtab["__text"].typ = STNEW => a.e = {}
  BY <1>2, SectionGiven
<1> HIDE DEF a
<1>5. Proper(symtab') /\ AllStay
  BY <1>1, <1>4 DEF AllStay
<1>6. \A r \in 1 .. secct' - 1 : r = 1
  BY <1>1
<1>7. ASSUME ~pass2 PROVE InPass1'
  <2>1. InPass1 /\ \A n \in Names : symtab[n].typ = STNEW
    BY <1>1, <1>7 DEF ListsInv, InPass1
  <2>2. errs' = {} /\ defs' = {} /\ \A typ \in ListTypes : Listed(out', typ) = <<>>
    BY <1>1, <2>1 DEF InPass1
  <2>3. \A n \in Names : ~symtab'[n].dp2
    BY <1>5, <1>7, <2>1 DEF InPass1, AllStay, Stays
  <2>4. symtab'["__text"].typ = STSEC /\ symtab'["__text"].rel = 1
    BY <1>1, <1>2, <1>4, <1>7, <2>1
  <2>5. \A n \in Names : symtab'[n].typ = STSEC => n = "__text"
    BY <1>1, <1>4, <2>1 DEF STSEC, STNEW
  <2>6. SectionsNumbered'
    <3>1. secct' = 2
      BY <1>1
    <3>2. \A r \in 1 .. secct' - 1 : sectab'[r].sym \in Names /\ symtab'[sectab'[r].sym].typ \notin {STNEW, STUND}
      BY <1>2, <1>3, <1>6, <2>4 DEF STSEC, STNEW, STUND
    <3>3. \A n \in Names : symtab'[n].typ = STSEC =>
            symtab'[n].rel \in 1 .. secct' - 1 /\ sectab'[symtab'[n].rel].sym = n
      BY <1>3, <2>4, <2>5, <3>1
    <3> QED
      BY <3>1, <3>2, <3>3 DEF SectionsNumbered
  <2> QED
    BY <1>1, <2>2, <2>3, <2>4, <2>6 DEF InPass1, TextIsFirst
<1>8. ASSUME pass2 PROVE InPass2'
  <2>1. InPass2 /\ errs' = {} /\ defs' = {}
    BY <1>1, <1>8 DEF ListsInv, InPass2
  <2>2. ListsTrue' /\ TextIsFirst'
    BY <1>1, <1>5, <2>1, ListsStay, TextStays DEF InPass2
  <2>3. SectionStands(1)'
    BY <1>2, <1>3, <2>2 DEF SectionStands, TextIsFirst
  <2> QED
    BY <1>6, <2>1, <2>2, <2>3 DEF InPass2
<1> QED
  BY <1>1, <1>5, <1>7, <1>8 DEF ListsInv

LEMMA InterludeWrites ==
  ASSUME AsmInv, InPass1, Interlude
  PROVE  /\ Len(Listed(out', "OBSEC")) = secct - 1
         /\ \A r \in 1 .. secct - 1 : Listed(out', "OBSEC")[r] = sectab[r].sym
         /\ \A typ \in {"OBGLO", "OBLOC"} : \A k \in 1 .. Len(Listed(out', typ)) : \E n \in Names :
              symtab[n].typ \notin {STNEW, STSEC} /\ SymBlock(n) = typ /\ Listed(out', typ)[k] = SymItem(n)
<1> DEFINE list == SectionList \o SymbolList
           S == secct - 1
           N == Len(HashOrder)
<1>1. Good(Opened, 0) /\ \A t \in ListTypes : Listed(Opened, t) = <<>>
  BY InterludeOpens DEF Interlude, SameLists, InPass1
<1>2. out' = PutAll(Opened, list)
  BY DEF Interlude, Opened
<1>3. SectionList \in Seq(ToList) /\ SymbolList \in Seq(ToList) /\ list \in Seq(ToList)
  BY ListsType, ConcatProperties DEF AsmInv
<1>4. S \in Nat /\ N \in Nat
  BY NamesListed, AsmAssumption DEF AsmInv, PlacesType
<1>5. Len(SectionList) = S /\ Len(SymbolList) = N
  BY <1>4, AsmAssumption DEF SectionList, SymbolList
<1>6. /\ Len(list) = S + N
      /\ \A r \in 1 .. S : list[r] = SectionList[r]
      /\ \A r \in S + 1 .. S + N : list[r] = SymbolList[r - S]
  <2>1. /\ Len(list) = Len(SectionList) + Len(SymbolList)
        /\ \A r \in 1 .. Len(SectionList) : list[r] = SectionList[r]
        /\ \A r \in Len(SectionList) + 1 .. Len(SectionList) + Len(SymbolList) :
             list[r] = SymbolList[r - Len(SectionList)]
    BY <1>3, ConcatProperties
  <2> HIDE DEF list, S, N
  <2> QED
    BY <1>4, <1>5, <2>1
<1> HIDE DEF list, N
<1>7. \A r \in 1 .. S : list[r] # None /\ list[r].typ = "OBSEC" /\ list[r].item = sectab[r].sym
  <2> SUFFICES ASSUME NEW r \in 1 .. S
               PROVE  list[r] # None /\ list[r].typ = "OBSEC" /\ list[r].item = sectab[r].sym
    OBVIOUS
  <2>1. list[r] = [typ |-> "OBSEC", item |-> sectab[r].sym]
    BY <1>6 DEF SectionList
  <2> QED
    BY <2>1 DEF None
<1>8. ASSUME NEW r \in S + 1 .. S + N, list[r] # None
      PROVE  /\ list[r].typ \in {"OBGLO", "OBLOC"}
             /\ \E n \in Names : /\ symtab[n].typ \notin {STNEW, STSEC}
                                 /\ SymBlock(n) = list[r].typ /\ SymItem(n) = list[r].item
  <2>1. r - S \in 1 .. N
    BY <1>4
  <2>2. PICK n \in Names : HashOrder[r - S] = n
    BY <2>1, NamesListed DEF N
  <2>3. r - S \in DOMAIN HashOrder
    BY <2>1, AsmAssumption DEF N
  <2>4. list[r] = IF symtab[n].typ \in {STNEW, STSEC} THEN None ELSE [typ |-> SymBlock(n), item |-> SymItem(n)]
    BY <1>6, <2>2, <2>3 DEF SymbolList
  <2>5. symtab[n].typ \notin {STNEW, STSEC} /\ list[r].typ = SymBlock(n) /\ list[r].item = SymItem(n)
    BY <1>8, <2>4
  <2>6. SymBlock(n) \in {"OBGLO", "OBLOC"}
    BY DEF SymBlock
  <2> QED
    BY <2>5, <2>6
<1> DEFINE o == PutAll(Opened, list)
<1>9. HasList(o, list, S)
  <2>1. NoLists(Opened)
    BY <1>1 DEF NoLists
  <2>2. SectionsFirst(list, S)
    <3> HIDE DEF S
    <3> QED
      BY <1>4, <1>6, <1>7, <1>8, SMTT(40) DEF SectionsFirst
  <2> HIDE DEF S
  <2> QED
    BY <1>1, <1>3, <2>1, <2>2, PutAllLists
<1> HIDE DEF o, S
<1>10. ASSUME NEW typ \in {"OBGLO", "OBLOC"}, NEW k \in 1 .. Len(Listed(o, typ))
       PROVE  \E n \in Names :
                symtab[n].typ \notin {STNEW, STSEC} /\ SymBlock(n) = typ /\ Listed(o, typ)[k] = SymItem(n)
  <2>1. PICK j \in 1 .. Len(list) : list[j] # None /\ list[j].typ = typ /\ list[j].item = Listed(o, typ)[k]
    <3>1. typ \in ListTypes
      BY DEF ListTypes
    <3> QED
      BY <1>9, <3>1 DEF HasList
  <2>2. j \in S + 1 .. S + N
    BY <1>4, <1>6, <1>7, <2>1
  <2> QED
    BY <1>8, <2>1, <2>2
<1>11. out' = o
  BY <1>2 DEF o
<1> QED
  BY <1>7, <1>9, <1>10, <1>11 DEF S, HasList

LEMMA InterludeNumbers ==
  ASSUME Proper(symtab), Interlude, NEW n \in Names
  PROVE  /\ ~Numbered(n) => symtab'[n] = symtab[n]
         /\ Numbered(n) => symtab'[n].typ = STLAB /\ symtab'[n].rel >= RBEXT /\ symtab'[n].rel # RBUND
<1>1. symtab'[n] = IF Numbered(n)
                   THEN [symtab[n] EXCEPT !.typ = STLAB, !.glo = TRUE, !.val = 0, !.rel = Number(n)]
                   ELSE symtab[n]
  BY DEF Interlude
<1>2. symtab[n] \in Symbols
  BY DEF Proper, Tables
<1>3. Number(n) \in Int /\ Number(n) >= RBEXT
  BY NumberType
<1>4. ASSUME Numbered(n)
      PROVE  symtab'[n].typ = STLAB /\ symtab'[n].rel = Number(n)
  BY <1>1, <1>2, <1>4 DEF Symbols
<1> QED
  BY <1>1, <1>3, <1>4 DEF RBEXT, RBUND

LEMMA InterludeLists == ASSUME AsmInv, ListsInv, Interlude PROVE ListsInv'
<1>1. /\ apc = "interlude" /\ apc' = "start" /\ pass2' = TRUE /\ UNCHANGED <<errs, defs, sectab, secct>>
      /\ ~pass2
  BY DEF Interlude, history, places, AsmInv, ObjectRight
<1>2. Proper(symtab) /\ InPass1 /\ SectionsNumbered /\ TextIsFirst
  BY <1>1 DEF ListsInv, InPass1
<1>3. \A n \in Names :
        /\ ~Numbered(n) => symtab'[n] = symtab[n]
        /\ Numbered(n) => symtab'[n].typ = STLAB /\ symtab'[n].rel >= RBEXT /\ symtab'[n].rel # RBUND
  BY <1>2, InterludeNumbers
<1>4. Proper(symtab')
  <2>1. symtab' \in Tables
    BY InterludeStep DEF AsmInv
  <2> QED
    BY <1>2, <1>3, <2>1 DEF Proper
<1>5. /\ Len(Listed(out', "OBSEC")) = secct - 1
      /\ \A r \in 1 .. secct - 1 : Listed(out', "OBSEC")[r] = sectab[r].sym
      /\ \A typ \in {"OBGLO", "OBLOC"} : \A k \in 1 .. Len(Listed(out', typ)) : \E n \in Names :
           symtab[n].typ \notin {STNEW, STSEC} /\ SymBlock(n) = typ /\ Listed(out', typ)[k] = SymItem(n)
  BY <1>2, InterludeWrites
<1>6. ASSUME NEW n \in Names, symtab[n].typ # STUND PROVE symtab'[n] = symtab[n]
  BY <1>3, <1>6 DEF Numbered
<1>7. ASSUME NEW r \in 1 .. secct - 1
      PROVE  SectionListed(r, Listed(out, "OBSEC")[r])'
  <2>1. PICK n : n = sectab[r].sym
    OBVIOUS
  <2>2. n \in Names /\ symtab[n].typ \notin {STNEW, STUND} /\ Listed(out', "OBSEC")[r] = n
    BY <1>2, <1>5, <2>1 DEF SectionsNumbered
  <2>3. symtab'[n] = symtab[n]
    BY <1>6, <2>2
  <2>4. symtab[n].typ = STSEC => symtab[n].rel \in 1 .. secct - 1 /\ Listed(out', "OBSEC")[symtab[n].rel] = n
    BY <1>2, <1>5, <2>2 DEF SectionsNumbered
  <2>5. SectionListed(r, n)'
    BY <1>5, <2>2, <2>3, <2>4 DEF SectionListed
  <2> QED
    BY <2>2, <2>5
<1>8. ASSUME NEW typ \in {"OBGLO", "OBLOC"}, NEW k \in 1 .. Len(Listed(out', typ))
      PROVE  SymbolListed(typ, Listed(out, typ)[k])'
  <2>1. PICK n \in Names :
          symtab[n].typ \notin {STNEW, STSEC} /\ SymBlock(n) = typ /\ Listed(out', typ)[k] = SymItem(n)
    BY <1>5
  <2>2. symtab[n] \in Symbols /\ symtab[n].rel # RBUND
    BY <1>2 DEF Proper, Tables
  <2>3. PICK it : it = SymItem(n)
    OBVIOUS
  <2>4. SymbolListed(typ, it)'
    <3>1. CASE symtab[n].typ = STUND
      <4>1. it = [name |-> n, val |-> 0, sec |-> RBUND]
        BY <2>3, <3>1 DEF SymItem
      <4>2. typ = "OBGLO" => Numbered(n)
        BY <2>1, <3>1 DEF SymBlock, Numbered
      <4>3. typ = "OBGLO" => symtab'[n].typ = STLAB /\ symtab'[n].rel >= RBEXT
        BY <1>3, <4>2
      <4>4. it \in [name : Names, val : Int, sec : Int] /\ it.name = n /\ it.sec = RBUND
        BY <4>1 DEF RBUND
      <4> QED
        BY <4>3, <4>4 DEF SymbolListed
    <3>2. CASE symtab[n].typ # STUND
      <4>1. it = [name |-> n, val |-> symtab[n].val, sec |-> symtab[n].rel]
        BY <2>3, <3>2 DEF SymItem
      <4>2. symtab'[n] = symtab[n]
        BY <1>6, <3>2
      <4>3. symtab[n].typ \in {STLAB, STVAR} /\ symtab[n].val \in Int /\ symtab[n].rel \in Int
        BY <2>1, <2>2, <3>2 DEF Symbols, SymTypes
      <4>4. /\ it \in [name : Names, val : Int, sec : Int]
            /\ it.name = n /\ it.val = symtab[n].val /\ it.sec = symtab[n].rel
        BY <4>1, <4>3
      <4> QED
        BY <2>2, <4>2, <4>3, <4>4 DEF SymbolListed
    <3> QED
      BY <3>1, <3>2
  <2> QED
    BY <2>1, <2>3, <2>4
<1>9. ListsTrue'
  BY <1>5, <1>7, <1>8 DEF ListsTrue
<1>10. TextIsFirst'
  BY <1>2, <1>6, AsmAssumption DEF TextIsFirst, STSEC, STUND
<1>11. InPass2'
  BY <1>1, <1>2, <1>9, <1>10 DEF InPass2, InPass1
<1> QED
  BY <1>1, <1>4, <1>11 DEF ListsInv

-----------------------------------------------------------------------------
(* The specification.                                                      *)
LEMMA ListsInit == Init => ListsInv
<1> SUFFICES ASSUME Init PROVE ListsInv
  OBVIOUS
<1>1. /\ apc = "start" /\ pass2 = FALSE /\ errs = {} /\ defs = {} /\ out.blks = <<>> /\ out.cur = None
      /\ symtab = [n \in Names |-> NewSym]
  BY DEF Init, Init1
<1>2. Proper(symtab)
  <2>1. symtab \in Tables
    BY AsmInit DEF AsmInv
  <2> QED
    BY <1>1, <2>1 DEF Proper, NewSym, RBABS, RBUND
<1>3. ASSUME NEW typ \in ListTypes PROVE Listed(out, typ) = <<>>
  <2>1. out \in Objects
    BY AsmInit DEF AsmInv, ObjectRight, Good
  <2>2. Listed(out, typ) = ItemsIn(out.blks, typ)
    BY <1>1, <2>1, ListedType
  <2>3. ItemsIn(<<>>, typ) = <<>>
    BY DEF ItemsIn, FlattenSeq
  <2> QED
    BY <1>1, <2>2, <2>3
<1>4. \A n \in Names : symtab[n].typ = STNEW /\ ~symtab[n].dp2
  BY <1>1 DEF NewSym
<1> QED
  BY <1>1, <1>2, <1>3, <1>4 DEF ListsInv, InPass1

LEMMA ListsStep == AsmInv /\ ListsInv /\ [Next]_vars => ListsInv'
<1> SUFFICES ASSUME AsmInv, ListsInv, [Next]_vars PROVE ListsInv'
  OBVIOUS
<1>1. CASE Assemble
  BY <1>1, StartPassLists, InterludeLists, EndPassLists, EndLists, LabelLists, DataLists, InstrLists,
     AlignLists, BlockLists, OrgLists, AbsLists, SectLists, SectNewLists, GlobalLists, EquLists, IfLists,
     BranchLists DEF Assemble
<1>2. CASE UNCHANGED asmvars
  BY <1>2 DEF asmvars, ListsInv, Proper, InPass1, InPass2, SectionsNumbered, TextIsFirst, ListsTrue,
              SectionListed, SymbolListed, SectionStands
<1>3. Convert => UNCHANGED asmvars
  BY DEF Convert, Begin, Ignored, EndPass1, Interpass, EndPass2, Sections1, Symbols1, Text1,
         Sections2, Symbols2, Text2
<1>4. UNCHANGED vars => UNCHANGED asmvars
  BY DEF vars
<1> QED
  BY <1>1, <1>2, <1>3, <1>4 DEF Next

LEMMA ItemsListed ==
  ASSUME AsmInv, apc = "ended", NEW typ \in ListTypes
  PROVE  /\ Items(typ) = Listed(out, typ) /\ Items(typ) \in Seq(ListItems)
         /\ DOMAIN Items(typ) = 1 .. Len(Listed(out, typ))
<1>1. out \in Objects /\ out.cur = None
  BY DEF AsmInv, ObjectRight, Good
<1>2. Items(typ) = ItemsIn(out.blks, typ)
  BY DEF Items, ItemsIn, ItemsOf
<1>3. Items(typ) = Listed(out, typ) /\ Items(typ) \in Seq(ListItems)
  BY <1>1, <1>2, ListedType
<1> QED
  BY <1>3

LEMMA ListsTell == AsmInv /\ ListsInv => ListsHold
<1> SUFFICES ASSUME AsmInv, ListsInv, apc = "ended", errs = {}, KnownInPass1
             PROVE  /\ \A r \in 1 .. secct - 1 : r \in DOMAIN Items("OBSEC") /\ Items("OBSEC")[r] = sectab[r].sym
                    /\ \A typ \in {"OBGLO", "OBLOC"} : \A i \in DOMAIN Items(typ) : \A d \in defs :
                         Items(typ)[i].name = d.name => Items(typ)[i] = d
  BY DEF ListsHold
<1>1. \A typ \in ListTypes :
        Items(typ) = Listed(out, typ) /\ DOMAIN Items(typ) = 1 .. Len(Listed(out, typ))
  BY ItemsListed
<1>2. "OBSEC" \in ListTypes /\ "OBGLO" \in ListTypes /\ "OBLOC" \in ListTypes
  BY DEF ListTypes
<1>3. CASE ~pass2
  <2>1. InPass1 /\ SectionsNumbered
    BY <1>3 DEF ListsInv, InPass1
  <2>2. 1 \in 1 .. secct - 1
    BY <2>1, AsmAssumption DEF SectionsNumbered, AsmInv, PlacesType
  <2>3. sectab[1].sym \in Range(Items("OBSEC"))
    BY <2>2 DEF KnownInPass1
  <2>4. Range(Items("OBSEC")) = {}
    BY <1>1, <1>2, <2>1 DEF InPass1, Range
  <2> QED
    BY <2>3, <2>4
<1>4. CASE pass2
  <2>1. ListsTrue /\ (\A r \in 1 .. secct - 1 : SectionStands(r)) /\ (\A d \in defs : LabelStands(symtab, d))
    BY <1>4 DEF ListsInv, InPass2
  <2>2. ASSUME NEW r \in 1 .. secct - 1
        PROVE  r \in DOMAIN Items("OBSEC") /\ Items("OBSEC")[r] = sectab[r].sym
    <3>1. PICK n \in Names : n = sectab[r].sym /\ symtab[n].typ = STSEC /\ symtab[n].rel = r
      BY <2>1 DEF SectionStands
    <3>2. PICK k \in 1 .. Len(Listed(out, "OBSEC")) : Listed(out, "OBSEC")[k] = n
      <4>1. n \in Range(Items("OBSEC"))
        BY <3>1 DEF KnownInPass1
      <4> QED
        BY <1>1, <1>2, <4>1 DEF Range
    <3>3. SectionListed(k, n)
      BY <2>1, <3>2 DEF ListsTrue
    <3>4. r \in 1 .. Len(Listed(out, "OBSEC")) /\ Listed(out, "OBSEC")[r] = n
      BY <3>1, <3>3 DEF SectionListed
    <3> QED
      BY <1>1, <1>2, <3>1, <3>4
  <2>3. ASSUME NEW typ \in {"OBGLO", "OBLOC"}, NEW i \in DOMAIN Items(typ), NEW d \in defs,
               Items(typ)[i].name = d.name
        PROVE  Items(typ)[i] = d
    <3>1. PICK it : it = Items(typ)[i]
      OBVIOUS
    <3>2. SymbolListed(typ, it) /\ it.name = d.name
      <4>1. typ \in ListTypes
        BY DEF ListTypes
      <4>2. i \in 1 .. Len(Listed(out, typ)) /\ it = Listed(out, typ)[i]
        BY <1>1, <3>1, <4>1
      <4> QED
        BY <2>1, <2>3, <3>1, <4>2 DEF ListsTrue
    <3>3. it \in [name : Names, val : Int, sec : Int]
      BY <3>2 DEF SymbolListed
    <3>4. /\ d \in [name : Names, val : Int, sec : Sections]
          /\ symtab[d.name].typ = STLAB /\ symtab[d.name].val = d.val /\ symtab[d.name].rel = d.sec
      BY <2>1 DEF LabelStands
    <3>5. CASE it.sec # RBUND
      <4>1. it.val = d.val /\ it.sec = d.sec
        BY <3>2, <3>4, <3>5 DEF SymbolListed
      <4> QED
        BY <3>1, <3>2, <3>3, <3>4, <4>1
    <3>6. CASE it.sec = RBUND /\ typ = "OBGLO"
      <4>1. d.sec >= RBEXT
        BY <3>2, <3>4, <3>6 DEF SymbolListed
      <4>2. d.sec \in Sections
        BY <3>4
      <4> QED
        BY <4>1, <4>2, SectionIsNot DEF RBEXT
    <3>7. CASE it.sec = RBUND /\ typ = "OBLOC"
      BY <2>3, <3>1, <3>7 DEF KnownInPass1
    <3> QED
      BY <3>5, <3>6, <3>7
  <2> QED
    BY <2>2, <2>3
<1> QED
  BY <1>3, <1>4

(* However many sections and symbols there are, and in whatever order the  *)
(* symbol chains hold them: without an error, and if pass 2 has defined    *)
(* nothing that pass 1 had not met, a section is listed in the object file *)
(* under the number that the text blocks of pass 2 carry, and a symbol     *)
(* with the value and the section its label had in pass 2 (aascom.c        *)
(* dopass(), interlude(), assign(), asz8k.c newsec()).                     *)
THEOREM ListsCorrect == Spec => []ListsHold
<1>1. Init => AsmInv /\ ListsInv
  BY AsmInit, ListsInit
<1>2. AsmInv /\ ListsInv /\ [Next]_vars => (AsmInv /\ ListsInv)'
  BY AsmStep, ListsStep
<1>3. AsmInv /\ ListsInv => ListsHold
  BY ListsTell
<1> QED
  BY <1>1, <1>2, <1>3, PTL DEF Spec
-----------------------------------------------------------------------------
(***************************************************************************)
(* The two passes of the assembler agree: in a program whose addresses do  *)
(* not depend on the pass, pass 2 makes of every label what pass 1 made of *)
(* it.  A layout says where a pass stands by the source alone, without the *)
(* symbol table: both passes go from the opening layout from one to the    *)
(* next, so that what pass 2 meets is what pass 1 has met.                 *)
(***************************************************************************)

(* An operand that names no symbol.                                        *)
FixedPrimary(p, loc, sec) ==
  IF p.k = "con" THEN [val |-> p.v, rel |-> RBABS] ELSE [val |-> loc, rel |-> sec]
Fixed(x, loc, sec) ==
  LET l == FixedPrimary(x.x, loc, sec)
      r == FixedPrimary(x.y, loc, sec)
      base == IF x.f = "add" /\ l.rel = RBABS THEN r ELSE l
      wrong == \/ x.f = "add" /\ l.rel # RBABS /\ r.rel # RBABS
               \/ x.f = "sub" /\ l.rel # r.rel /\ r.rel # RBABS
  IN  IF wrong THEN [val |-> 0, rel |-> RBABS, bad |-> TRUE]
      ELSE CASE x.f = "add" -> [val |-> l.val + r.val, rel |-> base.rel, bad |-> FALSE]
             [] x.f = "sub" -> [val |-> l.val - r.val, rel |-> IF l.rel = r.rel THEN RBABS ELSE l.rel, bad |-> FALSE]
             [] x.f = "eq" -> [val |-> IF l.val = r.val /\ l.rel = r.rel THEN -1 ELSE 0, rel |-> RBABS, bad |-> FALSE]
             [] OTHER -> [val |-> l.val, rel |-> l.rel, bad |-> FALSE]

(* A layout q: where a pass of the program of c stands, and what has been  *)
(* met so far: the first thing that each name was to be, unless an operand *)
(* was in error.                                                           *)
Stmt(c, q) == c.src[q.line]
Given1(c, q) == Fixed(Stmt(c, q).args[1], q.loc, q.sec)
FieldSize(kind, seg) ==
  CASE kind = "byte" -> 1
    [] kind \in {"long", "imm32"} -> 4
    [] kind = "addr" /\ seg -> 4
    [] OTHER -> 2
Left(q) == [q.locs EXCEPT ![q.sec] = q.loc]
ToOld(c, q) == Stmt(c, q).op = "sect" /\ Stmt(c, q).lab # NoName /\ q.met[Stmt(c, q).lab].typ = STSEC
ToNew(c, q) == Stmt(c, q).op = "sect" /\ Stmt(c, q).lab # NoName /\ q.met[Stmt(c, q).lab].typ # STSEC
Spot(c, q) ==
  LET s == Stmt(c, q)  x == Given1(c, q) IN
  CASE s.op \in {"word", "long"} /\ q.argn = 0 -> Even(q.loc)
    [] s.op = "instr" -> Even(q.loc)
    [] s.op = "align" /\ x.rel = RBABS /\ x.val \in 0 .. 32 ->
         -((-q.loc) \div PowerOf2[x.val]) * PowerOf2[x.val]
    [] s.op = "org" /\ x.rel = q.sec -> x.val
    [] s.op = "abs" -> Left(q)[0]
    [] OTHER -> q.loc

(* What the statement makes of its label: a section, a label, a variable.  *)
Nothing == [n |-> NoName, typ |-> STLAB, val |-> 0, rel |-> 0, bad |-> FALSE]
Named(n, typ, val, rel, bad) == [n |-> n, typ |-> typ, val |-> val, rel |-> rel, bad |-> bad]
Attempt(c, q) ==
  LET s == Stmt(c, q)  x == Given1(c, q) IN
  CASE s.op \in {"label", "block", "instr", "align"} -> Named(s.lab, STLAB, Spot(c, q), q.sec, FALSE)
    [] s.op \in {"byte", "word", "long"} /\ q.argn = 0 -> Named(s.lab, STLAB, Spot(c, q), q.sec, FALSE)
    [] s.op = "org" /\ x.rel = q.sec -> Named(s.lab, STLAB, x.val, q.sec, FALSE)
    [] s.op = "abs" -> Named(s.lab, STLAB, Spot(c, q), 0, FALSE)
    [] ToNew(c, q) -> Named(s.lab, STSEC, 0, q.ct, FALSE)
    [] s.op = "equ" -> Named(s.lab, STLAB, x.val, x.rel, x.bad)
    [] s.op = "set" -> Named(s.lab, STVAR, x.val, x.rel, x.bad)
    [] OTHER -> Nothing
MetBy(met, t) ==
  [n \in Names |-> IF n = t.n /\ ~t.bad /\ met[n] = None
                   THEN [typ |-> t.typ, val |-> t.val, rel |-> t.rel] ELSE met[n]]

MoreTo(c, q) == Stmt(c, q).op \in {"byte", "word", "long"} /\ q.argn + 1 < Len(Stmt(c, q).args)
LineAfter(c, q) ==
  IF MoreTo(c, q) THEN q.line ELSE IF Stmt(c, q).op = "end" THEN Len(c.src) + 1 ELSE q.line + 1
SecAfter(c, q) ==
  CASE Stmt(c, q).op = "abs" -> 0
    [] ToOld(c, q) -> q.met[Stmt(c, q).lab].rel
    [] ToNew(c, q) -> q.ct
    [] OTHER -> q.sec
Leaves(c, q) == Stmt(c, q).op = "abs" \/ ToOld(c, q) \/ ToNew(c, q)
LocAfter(c, q) ==
  LET s == Stmt(c, q)  x == Given1(c, q) IN
  CASE s.op \in {"byte", "word", "long"} -> Spot(c, q) + FieldSize(s.op, c.segflg)
    [] s.op = "instr" -> Spot(c, q) + (IF s.kind = "rel8" THEN 2 ELSE 2 + FieldSize(s.kind, c.segflg))
    [] s.op = "block" /\ x.rel = RBABS -> q.loc + x.val
    [] ToOld(c, q) -> Left(q)[q.met[s.lab].rel]
    [] ToNew(c, q) -> 0
    [] OTHER -> Spot(c, q)
After(c, q) ==
  [line |-> LineAfter(c, q), argn |-> IF MoreTo(c, q) THEN q.argn + 1 ELSE 0,
   sec |-> SecAfter(c, q), loc |-> LocAfter(c, q), locs |-> IF Leaves(c, q) THEN Left(q) ELSE q.locs,
   ct |-> IF ToNew(c, q) THEN q.ct + 1 ELSE q.ct, met |-> MetBy(q.met, Attempt(c, q))]
Opening ==
  [line |-> 1, argn |-> 0, sec |-> 1, loc |-> 0, locs |-> [s \in Nat |-> 0], ct |-> 2,
   met |-> [n \in Names |-> IF n = "__text" THEN [typ |-> STSEC, val |-> 0, rel |-> 1] ELSE None]]

(* The state stands where the layout says.                                 *)
StandsAt(q) ==
  /\ line = q.line /\ argn = q.argn /\ cursec = q.sec /\ curloc = q.loc /\ secct = q.ct
  /\ \A s \in 0 .. secct - 1 : s # cursec => sectab[s].loc = q.locs[s]

(* What pass 1 and pass 2 know of the names; m is what was met so far, all *)
(* what is met in the whole program.                                       *)
Agrees(s, m) == s.typ = m.typ /\ (m.typ # STVAR => s.val = m.val /\ s.rel = m.rel)
Known1(m) ==
  \A n \in Names : IF m[n] = None THEN symtab[n].typ \in {STNEW, STUND} ELSE Agrees(symtab[n], m[n])
Known2(m, all) ==
  \A n \in Names :
    /\ IF all[n] = None THEN symtab[n].typ # STSEC ELSE Agrees(symtab[n], all[n])
    /\ m[n] # None /\ m[n].typ # STVAR => symtab[n].dp2
    /\ symtab[n].typ = STSEC /\ symtab[n].dp2 => m[n] # None

(* Every step of a pass looks names up, then tries to make something of    *)
(* one of them, then looks more names up.                                  *)
Noticed(tab, new) ==
  \A n \in Names : /\ new[n].val = tab[n].val /\ new[n].rel = tab[n].rel /\ new[n].dp2 = tab[n].dp2
                   /\ new[n].typ = tab[n].typ \/ (tab[n].typ = STNEW /\ new[n].typ = STUND)
Result(tab, t) ==
  IF t.bad /\ ~pass2 THEN [tab |-> tab, e |-> {}] ELSE Assign(tab, t.n, t.typ, t.val, t.rel)
ErrorsBy(es, bad) ==
  /\ errs \subseteq errs'
  /\ \A e \in errs' : e \in errs \/ (e[2] = "P" => "P" \in es /\ (bad => <<e[1], "E">> \in errs'))
TriedFrom(tab, t) ==
  /\ Proper(tab) /\ Noticed(symtab, tab) /\ (t.n # NoName => tab[t.n].typ # STNEW)
  /\ Noticed(Result(tab, t).tab, symtab') /\ ErrorsBy(Result(tab, t).e, t.bad)
Tried(t) == \E tab : TriedFrom(tab, t)

(* An operand that names no symbol has the same value in any table.        *)
LEMMA FixedValue ==
  ASSUME NEW tab, NEW x \in Operands, NEW loc \in Int, cursec \in Sections, Syms(x) = {}
  PROVE  LET v == Expression(tab, x, loc)  y == Fixed(x, loc, cursec) IN
         v.val = y.val /\ v.rel = y.rel /\ v.e = IF y.bad THEN {"E"} ELSE {}
<1> DEFINE l == Primary(tab, x.x, loc)
           r == Primary(tab, x.y, loc)
           fl == FixedPrimary(x.x, loc, cursec)
           fr == FixedPrimary(x.y, loc, cursec)
<1>1. x.x \in Primaries /\ x.y \in Primaries /\ x.f \in {"pri", "add", "sub", "eq"}
  BY DEF Operands
<1>2. ASSUME NEW p \in {x.x, x.y} PROVE p.k \in {"con", "here"}
  <2>1. p.k # "sym"
    BY DEF Syms
  <2> QED
    BY <1>1, <2>1 DEF Primaries
<1>3. l.val = fl.val /\ l.rel = fl.rel /\ l.e = {} /\ r.val = fr.val /\ r.rel = fr.rel /\ r.e = {}
  <2>1. ASSUME NEW p \in {x.x, x.y}
        PROVE  LET a == Primary(tab, p, loc)  b == FixedPrimary(p, loc, cursec) IN
               a.val = b.val /\ a.rel = b.rel /\ a.e = {}
    <3>1. CASE p.k = "con"
      BY <3>1 DEF Primary, FixedPrimary, Value
    <3>2. CASE p.k = "here"
      BY <3>2 DEF Primary, FixedPrimary, Value
    <3> QED
      BY <1>2, <3>1, <3>2
  <2> QED
    BY <2>1
<1> DEFINE wrong == \/ x.f = "add" /\ l.rel # RBABS /\ r.rel # RBABS
                    \/ x.f = "sub" /\ l.rel # r.rel /\ r.rel # RBABS
           e == l.e \cup r.e \cup (IF wrong THEN {"E"} ELSE {})
           base == IF x.f = "add" /\ l.rel = RBABS THEN r ELSE l
           fbase == IF x.f = "add" /\ fl.rel = RBABS THEN fr ELSE fl
           fwrong == \/ x.f = "add" /\ fl.rel # RBABS /\ fr.rel # RBABS
                     \/ x.f = "sub" /\ fl.rel # fr.rel /\ fr.rel # RBABS
<1>4. Expression(tab, x, loc) =
        IF "E" \in e THEN Value(0, RBABS, NoName, e)
        ELSE CASE x.f = "add" -> Value(l.val + r.val, base.rel, base.of, e)
               [] x.f = "sub" -> IF l.rel = r.rel THEN Value(l.val - r.val, RBABS, NoName, e)
                                 ELSE Value(l.val - r.val, l.rel, l.of, e)
               [] x.f = "eq" -> Value(IF l.val = r.val /\ l.rel = r.rel THEN -1 ELSE 0, RBABS, NoName, e)
               [] OTHER -> l
  BY DEF Expression
<1>5. Fixed(x, loc, cursec) =
        IF fwrong THEN [val |-> 0, rel |-> RBABS, bad |-> TRUE]
        ELSE CASE x.f = "add" -> [val |-> fl.val + fr.val, rel |-> fbase.rel, bad |-> FALSE]
               [] x.f = "sub" -> [val |-> fl.val - fr.val, rel |-> IF fl.rel = fr.rel THEN RBABS ELSE fl.rel, bad |-> FALSE]
               [] x.f = "eq" -> [val |-> IF fl.val = fr.val /\ fl.rel = fr.rel THEN -1 ELSE 0, rel |-> RBABS, bad |-> FALSE]
               [] OTHER -> [val |-> fl.val, rel |-> fl.rel, bad |-> FALSE]
  BY DEF Fixed
<1>6. wrong <=> fwrong
  BY <1>3
<1>7. e = IF wrong THEN {"E"} ELSE {}
  BY <1>3
<1>8. base.rel = fbase.rel
  BY <1>3
<1> HIDE DEF l, r, fl, fr, base, fbase, e
<1>9. CASE wrong
  <2>1. "E" \in e /\ e = {"E"}
    BY <1>7, <1>9
  <2>2. fwrong
    BY <1>6, <1>9
  <2> HIDE DEF wrong, fwrong
  <2> QED
    BY <1>4, <1>5, <2>1, <2>2 DEF Value
<1>10. CASE ~wrong
  <2>1. e = {}
    BY <1>7, <1>10
  <2>2. CASE x.f = "add"
    BY <1>3, <1>4, <1>5, <1>6, <1>8, <1>10, <2>1, <2>2 DEF Value
  <2>3. CASE x.f = "sub"
    BY <1>3, <1>4, <1>5, <1>6, <1>8, <1>10, <2>1, <2>3 DEF Value
  <2>4. CASE x.f = "eq"
    BY <1>3, <1>4, <1>5, <1>6, <1>8, <1>10, <2>1, <2>4 DEF Value
  <2>5. CASE x.f = "pri"
    BY <1>3, <1>4, <1>5, <1>6, <1>8, <1>10, <2>1, <2>5 DEF Value
  <2> QED
    BY <1>1, <2>2, <2>3, <2>4, <2>5
<1> QED
  BY <1>9, <1>10

LEMMA NoticedTrans ==
  ASSUME NEW tab, NEW mid, NEW new, Noticed(tab, mid), Noticed(mid, new)
  PROVE  Noticed(tab, new)
  BY DEF Noticed, STNEW, STUND

LEMMA NoticedSame == ASSUME NEW tab PROVE Noticed(tab, tab)
  BY DEF Noticed

(* sylook() changes nothing but that a new name is undefined.              *)
LEMMA LookNotices ==
  ASSUME NEW tab, Proper(tab), NEW ns
  PROVE  Noticed(tab, Look(tab, ns)) /\ Proper(Look(tab, ns))
         /\ \A n \in Names : n \in ns => Look(tab, ns)[n].typ # STNEW
<1>1. tab \in Tables
  BY DEF Proper
<1>2. ASSUME NEW n \in Names
      PROVE  /\ Look(tab, ns)[n].val = tab[n].val /\ Look(tab, ns)[n].rel = tab[n].rel /\ Look(tab, ns)[n].dp2 = tab[n].dp2
             /\ Look(tab, ns)[n].typ = tab[n].typ \/ (tab[n].typ = STNEW /\ Look(tab, ns)[n].typ = STUND)
             /\ n \in ns => Look(tab, ns)[n].typ # STNEW
  <2>1. tab[n] \in Symbols
    BY <1>1 DEF Tables
  <2>2. LET s == [tab[n] EXCEPT !.typ = STUND] IN
        s.typ = STUND /\ s.val = tab[n].val /\ s.rel = tab[n].rel /\ s.dp2 = tab[n].dp2
    BY <2>1 DEF Symbols
  <2> QED
    BY <2>2 DEF Look, STUND, STNEW
<1>3. Proper(Look(tab, ns))
  BY LookGrown DEF Grown
<1> QED
  BY <1>2, <1>3 DEF Noticed

(* What is tried: a label; an operand, besides, makes no phase error.      *)
LEMMA LabelTried ==
  ASSUME ListsInv, st.lab \in Labels, NEW loc, NEW sec, NEW es, "P" \notin es,
         Noticed(Labelled(loc, sec).tab, symtab'), Errors(Labelled(loc, sec).e \cup es)
  PROVE  Tried(Named(st.lab, STLAB, loc, sec, FALSE))
<1> DEFINE t == Named(st.lab, STLAB, loc, sec, FALSE)
           tab == Look(symtab, {st.lab})
<1>1. t.n = st.lab /\ t.typ = STLAB /\ t.val = loc /\ t.rel = sec /\ t.bad = FALSE
  BY DEF Named
<1>2. Noticed(symtab, tab) /\ Proper(tab) /\ (t.n # NoName => tab[t.n].typ # STNEW)
  BY <1>1, LookNotices DEF ListsInv, Labels
<1>3. Result(tab, t) = Labelled(loc, sec)
  BY <1>1 DEF Result, Labelled
<1> HIDE DEF t, tab
<1>4. ErrorsBy(Labelled(loc, sec).e, t.bad)
  BY <1>1 DEF Errors, ErrorsBy
<1>5. TriedFrom(tab, t)
  BY <1>2, <1>3, <1>4 DEF TriedFrom
<1> QED
  BY <1>5 DEF Tried, t

(* Nothing is tried: names are looked up at most.                          *)
LEMMA NothingTried ==
  ASSUME ListsInv, Noticed(symtab, symtab'), errs \subseteq errs', \A e \in errs' : e \in errs \/ e[2] # "P"
  PROVE  Tried(Nothing)
<1>1. Nothing.n = NoName /\ Nothing.bad = FALSE
  BY DEF Nothing
<1>2. Result(symtab, Nothing) = [tab |-> symtab, e |-> {}]
  BY <1>1 DEF Result, Assign
<1>3. TriedFrom(symtab, Nothing)
  BY <1>1, <1>2, NoticedSame DEF TriedFrom, ErrorsBy, ListsInv
<1> QED
  BY <1>3 DEF Tried

(* What an attempt comes to: refused, a phase error, or the symbol is new. *)
Refused(tab, t) == LET a == Assign(tab, t.n, t.typ, t.val, t.rel) IN
  a.tab = tab /\ a.e = {"M"} /\ Redefined(tab[t.n])
OutOfPhase(tab, t) == LET a == Assign(tab, t.n, t.typ, t.val, t.rel) IN
  /\ a.tab = tab /\ a.e = {"P"} /\ ~Redefined(tab[t.n])
  /\ tab[t.n].typ # STUND /\ PhaseError(tab[t.n], t.typ, t.val, t.rel)
Made(tab, t) == LET a == Assign(tab, t.n, t.typ, t.val, t.rel) IN
  /\ a.e = {} /\ ~Redefined(tab[t.n])
  /\ tab[t.n].typ = STUND \/ ~PhaseError(tab[t.n], t.typ, t.val, t.rel)
  /\ a.tab[t.n].typ = t.typ /\ a.tab[t.n].val = t.val /\ a.tab[t.n].rel = t.rel
  /\ pass2 => a.tab[t.n].dp2
  /\ \A n \in Names : n # t.n => a.tab[n] = tab[n]

(* assign() of a name is one of the three.                                 *)
LEMMA AttemptComesTo ==
  ASSUME NEW tab \in Tables, NEW t, t.n \in Names
  PROVE  Refused(tab, t) \/ OutOfPhase(tab, t) \/ Made(tab, t)
<1> DEFINE a == Assign(tab, t.n, t.typ, t.val, t.rel)
           s == tab[t.n]
           new == [s EXCEPT !.typ = t.typ, !.val = t.val, !.rel = t.rel, !.dp2 = @ \/ pass2]
<1>0. t.n # NoName
  BY AsmAssumption
<1>1. CASE Redefined(s)
  <2>1. a = [tab |-> tab, e |-> {"M"}]
    BY <1>0, <1>1 DEF Assign
  <2> QED
    BY <1>1, <2>1 DEF Refused
<1>2. CASE ~Redefined(s) /\ s.typ # STUND /\ PhaseError(s, t.typ, t.val, t.rel)
  <2>1. a = [tab |-> tab, e |-> {"P"}]
    BY <1>0, <1>2 DEF Assign
  <2> QED
    BY <1>2, <2>1 DEF OutOfPhase
<1>3. CASE ~Redefined(s) /\ ~(s.typ # STUND /\ PhaseError(s, t.typ, t.val, t.rel))
  <2>1. a.tab = [tab EXCEPT ![t.n] = new] /\ a.e = {}
    BY <1>0, <1>3 DEF Assign
  <2>2. tab \in [Names -> Symbols] /\ s \in Symbols
    BY DEF Tables
  <2>3. new.typ = t.typ /\ new.val = t.val /\ new.rel = t.rel /\ (pass2 => new.dp2)
    <3>1. new.dp2 = (s.dp2 \/ pass2)
      BY <2>2 DEF Symbols
    <3>2. new.typ = t.typ /\ new.val = t.val /\ new.rel = t.rel
      BY <2>2 DEF Symbols
    <3> HIDE DEF new
    <3> QED
      BY <3>1, <3>2
  <2> HIDE DEF new
  <2>4. a.tab[t.n] = new /\ \A n \in Names : n # t.n => a.tab[n] = tab[n]
    BY <2>1, <2>2
  <2> HIDE DEF a
  <2>5. (pass2 => a.tab[t.n].dp2) /\ a.tab[t.n].typ = t.typ /\ a.tab[t.n].val = t.val /\ a.tab[t.n].rel = t.rel
    BY <2>3, <2>4
  <2>6. s.typ = STUND \/ ~PhaseError(s, t.typ, t.val, t.rel)
    BY <1>3
  <2> QED
    BY <1>3, <2>1, <2>4, <2>5, <2>6 DEF Made, a
<1> QED
  BY <1>1, <1>2, <1>3

MetTypes == {STSEC, STLAB, STVAR}
MetRight(m) == \A n \in Names : m[n] # None => m[n].typ \in MetTypes
Trial(t, m) ==
  /\ t.n \in Labels /\ t.typ \in MetTypes
  /\ t.n \in Names /\ m[t.n] # None /\ m[t.n].typ = STVAR => t.typ = STVAR

(* An attempt adds at most its own name, and only the first time.          *)
LEMMA MetByIs ==
  ASSUME NEW m, NEW t, NEW n \in Names
  PROVE  /\ n # t.n \/ t.bad \/ m[n] # None => MetBy(m, t)[n] = m[n]
         /\ n = t.n /\ ~t.bad /\ m[n] = None =>
              LET x == MetBy(m, t)[n] IN x # None /\ x.typ = t.typ /\ x.val = t.val /\ x.rel = t.rel
<1> DEFINE x == [typ |-> t.typ, val |-> t.val, rel |-> t.rel]
<1>1. MetBy(m, t)[n] = IF n = t.n /\ ~t.bad /\ m[n] = None THEN x ELSE m[n]
  BY DEF MetBy
<1>2. x.typ = t.typ /\ x.val = t.val /\ x.rel = t.rel
  OBVIOUS
<1>3. x # None
  <2>1. DOMAIN x = {"typ", "val", "rel"} /\ DOMAIN None = {"typ"}
    BY DEF None
  <2> HIDE DEF x
  <2> QED
    BY <2>1
<1> HIDE DEF x
<1> QED
  BY <1>1, <1>2, <1>3

(* Pass 1: an attempt makes the symbol what it is met as.                  *)
LEMMA TableStep1 ==
  ASSUME NEW CONSTANT m, NEW CONSTANT t, ~pass2, Known1(m), MetRight(m), Trial(t, m), Tried(t)
  PROVE  Known1(MetBy(m, t))'
<1>1. PICK tab : TriedFrom(tab, t)
  BY DEF Tried
<1> DEFINE res == Result(tab, t).tab
<1>2. Proper(tab) /\ tab \in Tables /\ Noticed(symtab, tab) /\ Noticed(res, symtab')
  BY <1>1 DEF TriedFrom, Proper
<1>3. ASSUME NEW n \in Names
      PROVE  IF MetBy(m, t)[n] = None THEN res[n].typ \in {STNEW, STUND} ELSE Agrees(res[n], MetBy(m, t)[n])
  <2>1. IF m[n] = None THEN tab[n].typ \in {STNEW, STUND} ELSE Agrees(tab[n], m[n])
    <3>1. IF m[n] = None THEN symtab[n].typ \in {STNEW, STUND} ELSE Agrees(symtab[n], m[n])
      BY DEF Known1
    <3>2. /\ tab[n].val = symtab[n].val /\ tab[n].rel = symtab[n].rel
          /\ tab[n].typ = symtab[n].typ \/ (symtab[n].typ = STNEW /\ tab[n].typ = STUND)
      BY <1>2 DEF Noticed
    <3>3. m[n] # None => m[n].typ # STNEW
      BY DEF MetRight, MetTypes, STNEW, STSEC, STLAB, STVAR
    <3> QED
      BY <3>1, <3>2, <3>3 DEF Agrees
  <2>2. CASE t.bad \/ n # t.n
    <3>1. MetBy(m, t)[n] = m[n]
      BY <2>2, MetByIs
    <3>2. res[n] = tab[n]
      <4>1. CASE t.bad
        BY <4>1 DEF Result
      <4>2. CASE ~t.bad /\ t.n \notin Names
        <5>1. t.n = NoName
          BY <4>2 DEF Trial, Labels
        <5> QED
          BY <4>2, <5>1 DEF Result, Assign
      <4>3. CASE ~t.bad /\ t.n \in Names
        <5>1. res = Assign(tab, t.n, t.typ, t.val, t.rel).tab
          BY <4>3 DEF Result
        <5>2. Refused(tab, t) \/ OutOfPhase(tab, t) \/ Made(tab, t)
          BY <1>2, <4>3, AttemptComesTo
        <5> QED
          BY <2>2, <4>3, <5>1, <5>2 DEF Refused, OutOfPhase, Made
      <4> QED
        BY <4>1, <4>2, <4>3
    <3> QED
      BY <2>1, <3>1, <3>2
  <2>3. CASE ~t.bad /\ n = t.n
    <3>1. res = Assign(tab, t.n, t.typ, t.val, t.rel).tab
      BY <2>3 DEF Result
    <3>2. Refused(tab, t) \/ OutOfPhase(tab, t) \/ Made(tab, t)
      BY <1>2, <2>3, AttemptComesTo
    <3>3. n # NoName /\ tab[n].typ # STNEW
      BY <1>1, <2>3, AsmAssumption DEF TriedFrom
    <3>4. CASE m[n] = None
      <4>1. tab[n].typ = STUND
        BY <2>1, <3>3, <3>4
      <4>2. Made(tab, t)
        BY <2>3, <3>2, <4>1 DEF Refused, OutOfPhase, Redefined
      <4>3. res[n].typ = t.typ /\ res[n].val = t.val /\ res[n].rel = t.rel
        BY <2>3, <3>1, <4>2 DEF Made
      <4>4. LET x == MetBy(m, t)[n] IN x # None /\ x.typ = t.typ /\ x.val = t.val /\ x.rel = t.rel
        BY <2>3, <3>4, MetByIs
      <4> QED
        BY <4>3, <4>4 DEF Agrees
    <3>5. CASE m[n] # None
      <4>1. MetBy(m, t)[n] = m[n] /\ Agrees(tab[n], m[n]) /\ m[n].typ # STUND
        BY <2>1, <3>5, MetByIs DEF MetRight, MetTypes, STUND, STSEC, STLAB, STVAR
      <4>2. CASE m[n].typ = STVAR
        <5>1. t.typ = STVAR /\ tab[n].typ = STVAR
          BY <2>3, <3>5, <4>1, <4>2 DEF Trial, Agrees
        <5>2. res[n].typ = STVAR
          BY <2>3, <3>1, <3>2, <5>1 DEF Refused, OutOfPhase, Made
        <5> QED
          BY <3>5, <4>1, <4>2, <5>2 DEF Agrees
      <4>3. CASE m[n].typ # STVAR
        <5>1. Redefined(tab[n])
          BY <4>1, <4>3 DEF Agrees, Redefined
        <5>2. res = tab
          BY <2>3, <3>1, <3>2, <5>1 DEF Refused, OutOfPhase, Made
        <5> QED
          BY <3>5, <4>1, <5>2
      <4> QED
        BY <4>2, <4>3
    <3> QED
      BY <3>4, <3>5
  <2> QED
    BY <2>2, <2>3
<1> HIDE DEF res
<1>4. ASSUME NEW n \in Names
      PROVE  IF MetBy(m, t)[n] = None THEN symtab'[n].typ \in {STNEW, STUND}
             ELSE Agrees(symtab'[n], MetBy(m, t)[n])
  <2>1. /\ symtab'[n].val = res[n].val /\ symtab'[n].rel = res[n].rel
        /\ symtab'[n].typ = res[n].typ \/ (res[n].typ = STNEW /\ symtab'[n].typ = STUND)
    BY <1>2 DEF Noticed
  <2>2. MetBy(m, t)[n] # None => MetBy(m, t)[n].typ # STNEW
    <3>1. m[n] # None => m[n].typ # STNEW
      BY DEF MetRight, MetTypes, STNEW, STSEC, STLAB, STVAR
    <3>2. t.typ # STNEW
      BY DEF Trial, MetTypes, STNEW, STSEC, STLAB, STVAR
    <3> QED
      BY <3>1, <3>2, MetByIs
  <2> QED
    BY <1>3, <2>1, <2>2 DEF Agrees
<1> QED
  BY <1>4 DEF Known1

(* Pass 2: an attempt agrees with what pass 1 made of the symbol, unless   *)
(* its operand is in error.                                                *)
ErrorsFine == \A e \in errs : e[2] = "P" => <<e[1], "E">> \in errs
Foretold(m, t, all) == \A n \in Names : MetBy(m, t)[n] # None => all[n] = MetBy(m, t)[n]
Known(s, x, a) ==
  /\ IF a = None THEN s.typ # STSEC ELSE Agrees(s, a)
  /\ x # None /\ x.typ # STVAR => s.dp2
  /\ s.typ = STSEC /\ s.dp2 => x # None

(* A phase error only where the operand was in error: otherwise the name   *)
(* was met as what it is to be now, and the table agrees with it.          *)
LEMMA NoneOutOfPhase ==
  ASSUME NEW m, NEW t, NEW all, NEW tab, Foretold(m, t, all), MetRight(m), Trial(t, m), pass2,
         t.n \in Names, Known(tab[t.n], m[t.n], all[t.n]), OutOfPhase(tab, t)
  PROVE  t.bad
<1> SUFFICES ASSUME ~t.bad PROVE FALSE
  OBVIOUS
<1> DEFINE s == tab[t.n]
           x == MetBy(m, t)[t.n]
<1>1. ~Redefined(s) /\ PhaseError(s, t.typ, t.val, t.rel)
  BY DEF OutOfPhase
<1>2. x # None => all[t.n] = x
  BY DEF Foretold
<1>3. CASE m[t.n] = None
  <2>1. x # None /\ x.typ = t.typ /\ x.val = t.val /\ x.rel = t.rel
    BY <1>3, MetByIs
  <2> HIDE DEF x
  <2>2. Agrees(s, x)
    BY <1>2, <2>1 DEF Known
  <2> QED
    BY <1>1, <2>1, <2>2 DEF Agrees, PhaseError
<1>4. CASE m[t.n] # None
  <2>1. x = m[t.n]
    BY <1>4, MetByIs
  <2>2. Agrees(s, m[t.n])
    BY <1>2, <1>4, <2>1 DEF Known
  <2>3. CASE m[t.n].typ = STVAR
    BY <1>1, <1>4, <2>2, <2>3 DEF Agrees, PhaseError, Trial
  <2>4. CASE m[t.n].typ # STVAR
    BY <1>1, <1>4, <2>2, <2>4 DEF Agrees, Redefined, Known
  <2> QED
    BY <2>3, <2>4
<1> QED
  BY <1>3, <1>4

(* An assignment of pass 2 leaves the symbol as pass 1 had made it.        *)
LEMMA MadeKnown ==
  ASSUME NEW m, NEW t, NEW all, NEW tab, Proper(tab), Foretold(m, t, all), MetRight(all), Trial(t, m), pass2,
         t.n \in Names, Known(tab[t.n], m[t.n], all[t.n]), Made(tab, t), t.bad => t.typ # STSEC
  PROVE  Known(Assign(tab, t.n, t.typ, t.val, t.rel).tab[t.n], MetBy(m, t)[t.n], all[t.n])
<1> DEFINE s == tab[t.n]
           u == Assign(tab, t.n, t.typ, t.val, t.rel).tab[t.n]
           x == MetBy(m, t)[t.n]
<1>1. /\ u.typ = t.typ /\ u.val = t.val /\ u.rel = t.rel /\ u.dp2
      /\ s.typ = STUND \/ ~PhaseError(s, t.typ, t.val, t.rel)
  BY DEF Made
<1>2. t.typ = STSEC => x # None
  <2>1. t.typ = STSEC => ~t.bad
    OBVIOUS
  <2>2. ~t.bad => x # None
    BY MetByIs
  <2> QED
    BY <2>1, <2>2
<1>3. x # None => all[t.n] = x
  BY DEF Foretold
<1>4. s.rel # RBUND
  BY DEF Proper
<1> HIDE DEF u, x
<1>5. all[t.n] # None => Agrees(u, all[t.n])
  <2> SUFFICES ASSUME all[t.n] # None PROVE Agrees(u, all[t.n])
    OBVIOUS
  <2>1. Agrees(s, all[t.n]) /\ all[t.n].typ # STUND
    BY DEF Known, MetRight, MetTypes, STUND, STSEC, STLAB, STVAR
  <2>2. ~PhaseError(s, t.typ, t.val, t.rel)
    BY <1>1, <2>1 DEF Agrees
  <2> QED
    BY <1>1, <1>4, <2>1, <2>2 DEF Agrees, PhaseError
<1>6. Known(u, x, all[t.n])
  BY <1>1, <1>2, <1>3, <1>5 DEF Known
<1> QED
  BY <1>6 DEF u, x

LEMMA TableStep2 ==
  ASSUME NEW CONSTANT m, NEW CONSTANT t, NEW CONSTANT all, pass2, Known2(m, all), MetRight(m), MetRight(all),
         Trial(t, m), Foretold(m, t, all), t.bad => t.typ # STSEC, Tried(t), ErrorsFine
  PROVE  Known2(MetBy(m, t), all)' /\ ErrorsFine'
<1>1. PICK tab : TriedFrom(tab, t)
  BY DEF Tried
<1> DEFINE a == Result(tab, t)
<1>2. /\ Proper(tab) /\ tab \in Tables /\ Noticed(symtab, tab) /\ Noticed(a.tab, symtab') /\ ErrorsBy(a.e, t.bad)
      /\ a = Assign(tab, t.n, t.typ, t.val, t.rel)
  BY <1>1 DEF TriedFrom, Proper, Result
<1>3. ASSUME NEW n \in Names PROVE Known(tab[n], m[n], all[n])
  <2>1. Known(symtab[n], m[n], all[n])
    BY DEF Known2, Known
  <2>2. /\ tab[n].val = symtab[n].val /\ tab[n].rel = symtab[n].rel /\ tab[n].dp2 = symtab[n].dp2
        /\ tab[n].typ = symtab[n].typ \/ (symtab[n].typ = STNEW /\ tab[n].typ = STUND)
    BY <1>2 DEF Noticed
  <2>3. all[n] # None => all[n].typ # STNEW
    BY DEF MetRight, MetTypes, STNEW, STSEC, STLAB, STVAR
  <2> QED
    BY <2>1, <2>2, <2>3 DEF Known, Agrees, STUND, STSEC
<1>4. ASSUME t.n \notin Names
      PROVE  (\A n \in Names : Known(a.tab[n], MetBy(m, t)[n], all[n])) /\ ("P" \in a.e => t.bad)
  <2>1. t.n = NoName
    BY <1>4 DEF Trial, Labels
  <2>2. a.tab = tab /\ a.e = {}
    BY <1>2, <2>1 DEF Assign
  <2>3. \A n \in Names : Known(a.tab[n], MetBy(m, t)[n], all[n])
    BY <1>3, <1>4, <2>2, MetByIs
  <2> QED
    BY <2>2, <2>3
<1>5. ASSUME t.n \in Names
      PROVE  (\A n \in Names : Known(a.tab[n], MetBy(m, t)[n], all[n])) /\ ("P" \in a.e => t.bad)
  <2>1. Refused(tab, t) \/ OutOfPhase(tab, t) \/ Made(tab, t)
    BY <1>2, <1>5, AttemptComesTo
  <2>2. \A n \in Names : n # t.n => Known(a.tab[n], MetBy(m, t)[n], all[n])
    BY <1>2, <1>3, <2>1, MetByIs DEF Refused, OutOfPhase, Made
  <2>3. Known(a.tab[t.n], MetBy(m, t)[t.n], all[t.n])
    <3>0. Known(tab[t.n], m[t.n], all[t.n])
      BY <1>3, <1>5
    <3>1. CASE Refused(tab, t)
      <4>1. a.tab = tab /\ tab[t.n].dp2
        BY <1>2, <3>1 DEF Refused, Redefined
      <4>2. m[t.n] # None => MetBy(m, t)[t.n] # None
        BY <1>5, MetByIs
      <4> QED
        BY <3>0, <4>1, <4>2 DEF Known
    <3>2. CASE OutOfPhase(tab, t)
      <4>1. a.tab = tab
        BY <1>2, <3>2 DEF OutOfPhase
      <4>2. t.bad
        BY <1>5, <3>0, <3>2, NoneOutOfPhase
      <4>3. MetBy(m, t)[t.n] = m[t.n]
        BY <1>5, <4>2, MetByIs
      <4> QED
        BY <3>0, <4>1, <4>3
    <3>3. CASE Made(tab, t)
      BY <1>2, <1>5, <3>0, <3>3, MadeKnown
    <3> QED
      BY <2>1, <3>1, <3>2, <3>3
  <2>4. "P" \in a.e => t.bad
    <3>1. "P" \in a.e => OutOfPhase(tab, t)
      BY <1>2, <2>1 DEF Refused, Made
    <3>2. Known(tab[t.n], m[t.n], all[t.n])
      BY <1>3, <1>5
    <3> QED
      BY <1>5, <3>1, <3>2, NoneOutOfPhase
  <2> QED
    BY <2>2, <2>3, <2>4
<1>6. (\A n \in Names : Known(a.tab[n], MetBy(m, t)[n], all[n])) /\ ("P" \in a.e => t.bad)
  BY <1>4, <1>5
<1> HIDE DEF a
<1>7. ASSUME NEW n \in Names PROVE Known(symtab'[n], MetBy(m, t)[n], all[n])
  <2>1. Known(a.tab[n], MetBy(m, t)[n], all[n])
    BY <1>6
  <2>2. /\ symtab'[n].val = a.tab[n].val /\ symtab'[n].rel = a.tab[n].rel /\ symtab'[n].dp2 = a.tab[n].dp2
        /\ symtab'[n].typ = a.tab[n].typ \/ (a.tab[n].typ = STNEW /\ symtab'[n].typ = STUND)
    BY <1>2 DEF Noticed
  <2>3. all[n] # None => all[n].typ # STNEW
    BY DEF MetRight, MetTypes, STNEW, STSEC, STLAB, STVAR
  <2> QED
    BY <2>1, <2>2, <2>3 DEF Known, Agrees, STUND, STSEC
<1>8. Known2(MetBy(m, t), all)'
  BY <1>7 DEF Known2, Known
<1>9. ErrorsFine'
  BY <1>2, <1>6 DEF ErrorsBy, ErrorsFine
<1> QED
  BY <1>8, <1>9

-----------------------------------------------------------------------------
(* The statements go from layout to layout, in either pass.                *)
SettledProgram == \A s \in Range(cmd.src) : Settled(s)
SectionsAgree(m) ==
  \A n \in Names : /\ OldSection(n) <=> m[n].typ = STSEC
                   /\ OldSection(n) => m[n].rel = symtab[n].rel /\ m[n].rel \in 0 .. secct - 1
Ready(c, q) ==
  /\ AsmInv /\ ListsInv /\ cmd = c /\ SettledProgram /\ StandsAt(q)
  /\ q.locs \in [Nat -> Int] /\ SectionsAgree(q.met)
Follows(c, q) == StandsAt(After(c, q))' /\ Tried(Attempt(c, q))

(* The next layout, part by part.                                          *)
LEMMA AfterIs ==
  ASSUME NEW c, NEW q
  PROVE  LET r == After(c, q) IN
         /\ r.line = LineAfter(c, q) /\ r.argn = IF MoreTo(c, q) THEN q.argn + 1 ELSE 0
         /\ r.sec = SecAfter(c, q) /\ r.loc = LocAfter(c, q)
         /\ r.locs = IF Leaves(c, q) THEN Left(q) ELSE q.locs
         /\ r.ct = IF ToNew(c, q) THEN q.ct + 1 ELSE q.ct
         /\ r.met = MetBy(q.met, Attempt(c, q))
  BY DEF After

(* Where a layout stands, its statement is the one that is read.           *)
LEMMA Here ==
  ASSUME NEW c, NEW q, Ready(c, q)
  PROVE  /\ Stmt(c, q) = st /\ line = q.line /\ argn = q.argn /\ cursec = q.sec /\ curloc = q.loc /\ secct = q.ct
         /\ curloc \in Int /\ cursec \in Sections /\ cursec \in Int /\ Proper(symtab) /\ secct \in Int
         /\ Reading => st \in Range(cmd.src) /\ st.lab \in Labels
<1>1. cmd = c /\ StandsAt(q) /\ AsmInv /\ ListsInv
  BY DEF Ready
<1>2. curloc \in Int /\ cursec \in Sections /\ cursec \in Int /\ Proper(symtab) /\ secct \in Int
  BY <1>1 DEF AsmInv, PlacesType, Sections, ListsInv
<1>3. Reading => st \in Range(cmd.src)
  <2> SUFFICES ASSUME Reading PROVE st \in Range(cmd.src)
    OBVIOUS
  <2>1. cmd.src \in Seq(Statements)
    BY <1>1, CommandAssumption DEF AsmInv, SourceType
  <2>2. line \in 1 .. Len(cmd.src)
    BY <1>1, <2>1 DEF AsmInv, SourceType, Reading
  <2>3. line \in DOMAIN cmd.src
    BY <2>1, <2>2
  <2> QED
    BY <2>3 DEF st, Range
<1>4. Reading => st.lab \in Labels
  BY <1>1, StatementType
<1> QED
  BY <1>1, <1>2, <1>3, <1>4 DEF StandsAt, Stmt, st

(* Where the section stays.                                                *)
LEMMA StandsOn ==
  ASSUME NEW CONSTANT c, NEW CONSTANT q, Ready(c, q), ~Leaves(c, q), UNCHANGED <<cursec, sectab, secct>>,
         curloc' = LocAfter(c, q), line' = LineAfter(c, q), argn' = IF MoreTo(c, q) THEN q.argn + 1 ELSE 0
  PROVE  StandsAt(After(c, q))'
<1> DEFINE r == After(c, q)
<1>1. r.sec = q.sec /\ r.locs = q.locs /\ r.ct = q.ct
  BY AfterIs DEF Leaves, SecAfter
<1>2. r.line = line' /\ r.argn = argn' /\ r.loc = curloc'
  BY AfterIs
<1> HIDE DEF r
<1>3. StandsAt(r)'
  BY <1>1, <1>2 DEF StandsAt, Ready
<1> QED
  BY <1>3 DEF r

(* NextLine goes where the layout goes.                                    *)
LEMMA LineOn ==
  ASSUME NEW c, NEW q, Ready(c, q), NextLine, st.op \notin {"byte", "word", "long", "end"}
  PROVE  line' = LineAfter(c, q) /\ argn' = IF MoreTo(c, q) THEN q.argn + 1 ELSE 0
  BY Here DEF LineAfter, MoreTo, NextLine

(* An operand looks names up; it is never a phase error.                   *)
LEMMA OperandNotices ==
  ASSUME NEW tab, Proper(tab), NEW x \in Operands, NEW loc \in Int, cursec \in Sections
  PROVE  /\ Noticed(tab, Operand(tab, x, loc).tab) /\ Proper(Operand(tab, x, loc).tab)
         /\ Operand(tab, x, loc).v \in Values /\ "P" \notin Operand(tab, x, loc).v.e
<1>1. Operand(tab, x, loc).tab = Look(tab, Syms(x))
  BY DEF Operand
<1>2. Operand(tab, x, loc).v \in Values
  BY OperandGrown
<1>3. "P" \notin Operand(tab, x, loc).v.e
  BY <1>2 DEF Values
<1> QED
  BY <1>1, <1>2, <1>3, LookNotices

(* The operand of a directive that moves the location counter is the one   *)
(* that the layout computes.                                               *)
LEMMA GivenValue ==
  ASSUME NEW c, NEW q, Ready(c, q), Reading, st.op \in {"org", "block", "align", "equ", "set"},
         NEW tab, Proper(tab)
  PROVE  LET x == Operand(tab, st.args[1], curloc)  y == Given1(c, q) IN
         /\ x.v.val = y.val /\ x.v.rel = y.rel /\ x.v.e = (IF y.bad THEN {"E"} ELSE {})
         /\ x.v.val \in Int /\ x.v.rel \in Int /\ Noticed(tab, x.tab) /\ Proper(x.tab)
<1>1. /\ Stmt(c, q) = st /\ curloc = q.loc /\ cursec = q.sec /\ curloc \in Int /\ cursec \in Sections
      /\ st \in Range(cmd.src)
  BY Here
<1>2. st.args[1] \in Operands
  BY StatementType, FirstOperand DEF Ready, WithOperand
<1>3. Syms(st.args[1]) = {}
  BY <1>1 DEF Ready, SettledProgram, Settled
<1> DEFINE x == Operand(tab, st.args[1], curloc)
           v == Expression(Look(tab, Syms(st.args[1])), st.args[1], curloc)
           y == Fixed(st.args[1], curloc, cursec)
<1>4. x.v = v
  BY DEF Operand
<1>5. v.val = y.val /\ v.rel = y.rel /\ v.e = IF y.bad THEN {"E"} ELSE {}
  BY <1>1, <1>2, <1>3, FixedValue
<1>6. Given1(c, q) = y
  BY <1>1 DEF Given1
<1>7. Noticed(tab, x.tab) /\ Proper(x.tab) /\ x.v \in Values
  BY <1>1, <1>2, OperandNotices
<1> HIDE DEF v, y, x
<1>8. x.v.val \in Int /\ x.v.rel \in Int
  BY <1>7 DEF Values
<1> QED
  BY <1>4, <1>5, <1>6, <1>7, <1>8 DEF x

(* A field has a length that does not depend on the value.                 *)
LEMMA FieldLength ==
  ASSUME NEW kind \in {"byte", "word", "long"} \cup (Kinds \ {"rel8"}), NEW x
  PROVE  Len(Field(kind, x)) = FieldSize(kind, cmd.segflg)
<1>1. ASSUME NEW v, NEW rel PROVE Word(v, rel) \in Seq({Byte(v \div 256, rel), Byte(v, NoRel)}) /\ Len(Word(v, rel)) = 2
  BY DEF Word
<1>2. Len(LongSeg(x)) = 4
  BY <1>1 DEF LongSeg, Word
<1>3. Len(ShortSeg(x)) = 2
  BY <1>1 DEF ShortSeg
<1>4. ASSUME NEW rel PROVE Len(Long(x.val, rel)) = 4
  BY <1>1 DEF Long, Word
<1>5. CASE kind = "byte"
  BY <1>5 DEF Field, FieldSize
<1>6. CASE kind = "imm8"
  BY <1>6 DEF Field, FieldSize
<1>7. CASE kind \in {"word", "imm16"}
  BY <1>1, <1>7 DEF Field, FieldSize
<1>8. CASE kind \in {"long", "imm32"}
  BY <1>2, <1>4, <1>8 DEF Field, FieldSize
<1>9. CASE kind = "addr"
  BY <1>1, <1>2, <1>9 DEF Field, FieldSize
<1>10. CASE kind = "saddr"
  BY <1>1, <1>3, <1>10 DEF Field, FieldSize
<1> QED
  BY <1>5, <1>6, <1>7, <1>8, <1>9, <1>10 DEF Kinds

(* One lemma for each statement: what it makes of the places and of its    *)
(* label is what the layout says.                                          *)
LEMMA LabelFollows ==
  ASSUME NEW CONSTANT c, NEW CONSTANT q, Ready(c, q), Label
  PROVE  Follows(c, q)
<1>1. /\ Stmt(c, q) = st /\ curloc = q.loc /\ cursec = q.sec /\ st.lab \in Labels /\ st.op = "label"
      /\ ListsInv
  BY Here DEF Label, Assembling, Ready
<1>2. NextLine /\ UNCHANGED <<cursec, curloc, sectab, secct>> /\ symtab' = Labelled(curloc, cursec).tab
      /\ Errors(Labelled(curloc, cursec).e)
  BY DEF Label, places
<1>3. Attempt(c, q) = Named(st.lab, STLAB, curloc, cursec, FALSE)
  BY <1>1 DEF Attempt, Spot, ToNew
<1>4. Tried(Attempt(c, q))
  <2>1. Errors(Labelled(curloc, cursec).e \cup {})
    BY <1>2
  <2> QED
    BY <1>1, <1>2, <1>3, <2>1, NoticedSame, LabelTried
<1>5. LocAfter(c, q) = curloc
  BY <1>1 DEF LocAfter, Spot, ToOld, ToNew
<1>6. ~Leaves(c, q)
  BY <1>1 DEF Leaves, ToOld, ToNew
<1>7. StandsAt(After(c, q))'
  BY <1>1, <1>2, <1>5, <1>6, LineOn, StandsOn
<1> QED
  BY <1>4, <1>7 DEF Follows

LEMMA DataFollows ==
  ASSUME NEW CONSTANT c, NEW CONSTANT q, Ready(c, q), Data
  PROVE  Follows(c, q)
<1>1. /\ Stmt(c, q) = st /\ curloc = q.loc /\ cursec = q.sec /\ argn = q.argn /\ line = q.line
      /\ st.lab \in Labels /\ st.op \in {"byte", "word", "long"} /\ cmd = c
      /\ ListsInv /\ Reading /\ AsmInv /\ curloc \in Int /\ cursec \in Sections /\ Proper(symtab)
  BY Here DEF Data, Assembling, Ready
<1> DEFINE loc == IF argn = 0 /\ st.op # "byte" THEN Even(curloc) ELSE curloc
           a == IF argn = 0 THEN Labelled(loc, cursec) ELSE [tab |-> symtab, e |-> {}]
           x == Operand(a.tab, st.args[argn + 1], loc)
<1>2. /\ Emit(loc, Field(st.op, x.v)) /\ symtab' = x.tab /\ Errors(a.e \cup x.v.e)
      /\ IF argn + 1 < Len(st.args) THEN argn' = argn + 1 /\ UNCHANGED line ELSE NextLine
      /\ UNCHANGED <<cursec, sectab, secct>>
  BY DEF Data
<1>3. loc \in Int /\ loc = Spot(c, q)
  <2>1. loc \in Int
    BY <1>1 DEF Even
  <2> QED
    BY <1>1, <2>1 DEF Spot
<1>4. st.args[argn + 1] \in Operands
  <2>1. st.args \in Seq(Operands) /\ st.args # <<>>
    BY <1>1, StatementType DEF WithOperand
  <2>2. argn \in Nat /\ (argn > 0 => argn < Len(st.args))
    BY <1>1 DEF AsmInv, SourceType, st
  <2>3. Len(st.args) \in Nat /\ Len(st.args) > 0
    BY <2>1
  <2> QED
    BY <2>1, <2>2, <2>3
<1>5. Proper(a.tab)
  <2>1. CASE argn = 0
    <3>1. Proper(Labelled(loc, cursec).tab)
      BY <1>1, <1>3, LabelledGrown DEF Grown
    <3> QED
      BY <2>1, <3>1
  <2>2. CASE argn # 0
    BY <1>1, <2>2
  <2> QED
    BY <2>1, <2>2
<1> HIDE DEF loc
<1>6. Noticed(a.tab, x.tab) /\ x.v \in Values /\ "P" \notin x.v.e
  <2> HIDE DEF a
  <2> QED
    BY <1>1, <1>3, <1>4, <1>5, OperandNotices
<1> HIDE DEF x
<1>7. Tried(Attempt(c, q))
  <2>1. CASE argn = 0
    <3>1. Attempt(c, q) = Named(st.lab, STLAB, loc, cursec, FALSE)
      BY <1>1, <1>3, <2>1 DEF Attempt, ToNew
    <3>2. a = Labelled(loc, cursec)
      BY <2>1
    <3> HIDE DEF a
    <3> QED
      BY <1>1, <1>2, <1>6, <3>1, <3>2, LabelTried
  <2>2. CASE argn # 0
    <3>1. Attempt(c, q) = Nothing
      BY <1>1, <2>2 DEF Attempt, ToNew
    <3>2. Noticed(symtab, symtab') /\ Errors(x.v.e)
      BY <1>2, <1>6, <2>2
    <3>3. errs \subseteq errs' /\ \A e \in errs' : e \in errs \/ e[2] # "P"
      BY <1>6, <3>2 DEF Errors
    <3> QED
      BY <1>1, <3>1, <3>2, <3>3, NothingTried
  <2> QED
    BY <2>1, <2>2
<1>8. curloc' = LocAfter(c, q)
  <2>1. Len(Field(st.op, x.v)) = FieldSize(st.op, c.segflg)
    BY <1>1, FieldLength
  <2>2. curloc' = loc + Len(Field(st.op, x.v))
    BY <1>2 DEF Emit
  <2> QED
    BY <1>1, <1>3, <2>1, <2>2 DEF LocAfter, ToOld, ToNew
<1>9. ~Leaves(c, q)
  BY <1>1 DEF Leaves, ToOld, ToNew
<1>10. line' = LineAfter(c, q) /\ argn' = IF MoreTo(c, q) THEN q.argn + 1 ELSE 0
  BY <1>1, <1>2 DEF LineAfter, MoreTo, NextLine
<1>11. StandsAt(After(c, q))'
  BY <1>2, <1>8, <1>9, <1>10, StandsOn
<1> QED
  BY <1>7, <1>11 DEF Follows

LEMMA InstrFollows ==
  ASSUME NEW CONSTANT c, NEW CONSTANT q, Ready(c, q), Instr
  PROVE  Follows(c, q)
<1>1. /\ Stmt(c, q) = st /\ curloc = q.loc /\ cursec = q.sec /\ st.lab \in Labels /\ st.op = "instr" /\ cmd = c
      /\ ListsInv /\ Reading /\ AsmInv /\ curloc \in Int /\ cursec \in Sections /\ Proper(symtab)
  BY Here DEF Instr, Assembling, Ready
<1> DEFINE loc == Even(curloc)
           a == Labelled(loc, cursec)
           x == Operand(a.tab, st.args[1], loc)
           dist == x.v.val - loc - 2
           far == x.v.rel # cursec \/ dist % 2 # 0 \/ dist \notin -256 .. 255
           bs == IF st.kind = "rel8" THEN <<Byte(0, NoRel), Byte(dist \div 2, NoRel)>>
                 ELSE <<Byte(0, NoRel), Byte(0, NoRel)>> \o Field(st.kind, x.v)
           es == x.v.e \cup (IF st.kind = "rel8" /\ far THEN {"E"} ELSE {})
<1>2. /\ Emit(loc, bs) /\ symtab' = x.tab /\ NextLine /\ UNCHANGED <<cursec, sectab, secct>>
  BY DEF Instr
<1>3. Errors(a.e \cup es)
  <2>1. Errors(a.e \cup x.v.e \cup (IF st.kind = "rel8" /\ far THEN {"E"} ELSE {}))
    BY DEF Instr
  <2>2. a.e \cup es = a.e \cup x.v.e \cup (IF st.kind = "rel8" /\ far THEN {"E"} ELSE {})
    OBVIOUS
  <2> QED
    BY <2>1, <2>2
<1>4. loc \in Int /\ loc = Spot(c, q)
  BY <1>1 DEF Even, Spot
<1>5. st.args[1] \in Operands /\ st.kind \in Kinds
  BY <1>1, StatementType, FirstOperand
<1> HIDE DEF loc
<1>6. Proper(a.tab)
  BY <1>1, <1>4, LabelledGrown DEF Grown
<1>7. Noticed(a.tab, x.tab) /\ x.v \in Values /\ "P" \notin x.v.e
  <2> HIDE DEF a
  <2> QED
    BY <1>1, <1>4, <1>5, <1>6, OperandNotices
<1>8. "P" \notin es
  BY <1>7
<1>9. Len(bs) = IF st.kind = "rel8" THEN 2 ELSE 2 + FieldSize(st.kind, c.segflg)
  <2>1. CASE st.kind = "rel8"
    <3>1. bs = <<Byte(0, NoRel), Byte(dist \div 2, NoRel)>>
      BY <2>1
    <3> QED
      BY <2>1, <3>1
  <2>2. CASE st.kind # "rel8"
    <3>1. Len(Field(st.kind, x.v)) = FieldSize(st.kind, c.segflg)
      BY <1>1, <1>5, <2>2, FieldLength
    <3>2. Emittable(Field(st.kind, x.v))
      BY <1>5, <1>7, <2>2, FieldType
    <3>3. Field(st.kind, x.v) \in Seq(Bytes)
      BY <3>2 DEF Emittable
    <3>4. bs = <<Byte(0, NoRel), Byte(0, NoRel)>> \o Field(st.kind, x.v)
      BY <2>2
    <3> QED
      BY <2>2, <3>1, <3>3, <3>4
  <2> QED
    BY <2>1, <2>2
<1> HIDE DEF bs, es, x
<1>10. Tried(Attempt(c, q))
  <2>1. Attempt(c, q) = Named(st.lab, STLAB, loc, cursec, FALSE)
    BY <1>1, <1>4 DEF Attempt, ToNew
  <2> QED
    BY <1>1, <1>2, <1>3, <1>7, <1>8, <2>1, LabelTried
<1>11. curloc' = LocAfter(c, q)
  <2>1. curloc' = loc + Len(bs)
    BY <1>2 DEF Emit
  <2> QED
    BY <1>1, <1>4, <1>9, <2>1 DEF LocAfter, ToOld, ToNew
<1>12. ~Leaves(c, q)
  BY <1>1 DEF Leaves, ToOld, ToNew
<1>13. StandsAt(After(c, q))'
  BY <1>1, <1>2, <1>11, <1>12, LineOn, StandsOn
<1> QED
  BY <1>10, <1>13 DEF Follows

(* What is tried: an assignment, after names have been looked up.          *)
LEMMA AssignTried ==
  ASSUME NEW tab, Proper(tab), Noticed(symtab, tab), NEW t, t.n # NoName => tab[t.n].typ # STNEW,
         NEW es, "P" \notin es, t.bad => "E" \in es,
         symtab' = Result(tab, t).tab, Errors(Result(tab, t).e \cup es)
  PROVE  Tried(t)
<1>1. ErrorsBy(Result(tab, t).e, t.bad)
  BY DEF Errors, ErrorsBy
<1>2. TriedFrom(tab, t)
  BY <1>1, NoticedSame DEF TriedFrom
<1> QED
  BY <1>2 DEF Tried

(* The table after the label and the operand have been looked up.          *)
LEMMA LookedUp ==
  ASSUME NEW c, NEW q, Ready(c, q), Reading, st.op \in {"org", "block", "align", "equ", "set"}
  PROVE  LET tab == Operand(Look(symtab, {st.lab}), st.args[1], curloc).tab IN
         /\ Proper(tab) /\ Noticed(symtab, tab) /\ (st.lab # NoName => tab[st.lab].typ # STNEW)
<1> DEFINE t == Look(symtab, {st.lab})
           tab == Operand(t, st.args[1], curloc).tab
<1>1. Proper(symtab) /\ st.lab \in Labels
  BY Here
<1>2. Proper(t) /\ Noticed(symtab, t) /\ (st.lab # NoName => t[st.lab].typ # STNEW)
  BY <1>1, LookNotices DEF Labels
<1> HIDE DEF t
<1>3. Noticed(t, tab) /\ Proper(tab)
  BY <1>2, GivenValue
<1> HIDE DEF tab
<1>4. st.lab # NoName => tab[st.lab].typ # STNEW
  BY <1>1, <1>2, <1>3 DEF Noticed, Labels, STNEW, STUND
<1>5. Noticed(symtab, tab)
  BY <1>2, <1>3, NoticedTrans
<1> QED
  BY <1>3, <1>4, <1>5 DEF tab, t

LEMMA AlignFollows ==
  ASSUME NEW CONSTANT c, NEW CONSTANT q, Ready(c, q), Align
  PROVE  Follows(c, q)
<1> DEFINE x == Operand(Look(symtab, {st.lab}), st.args[1], curloc)
           y == Given1(c, q)
           ok == x.v.rel = RBABS /\ x.v.val \in 0 .. 32
           loc == IF ok THEN -((-curloc) \div PowerOf2[x.v.val]) * PowerOf2[x.v.val] ELSE curloc
           a == Assign(x.tab, st.lab, STLAB, loc, cursec)
           es == x.v.e \cup (IF ok THEN {} ELSE {"E"})
           t == Named(st.lab, STLAB, loc, cursec, FALSE)
<1>1. /\ Stmt(c, q) = st /\ curloc = q.loc /\ cursec = q.sec /\ st.lab \in Labels /\ st.op = "align" /\ Reading
      /\ curloc \in Int /\ Proper(symtab)
  BY Here DEF Align, Assembling
<1>2. /\ IF ok THEN Move(loc) ELSE UNCHANGED <<curloc, out, high>>
      /\ symtab' = a.tab /\ NextLine /\ UNCHANGED <<cursec, sectab, secct>>
  BY DEF Align
<1>3. Errors(a.e \cup es)
  <2>1. Errors(a.e \cup x.v.e \cup (IF ok THEN {} ELSE {"E"}))
    BY DEF Align
  <2>2. a.e \cup es = a.e \cup x.v.e \cup (IF ok THEN {} ELSE {"E"})
    OBVIOUS
  <2> QED
    BY <2>1, <2>2
<1>4. /\ Proper(x.tab) /\ Noticed(symtab, x.tab) /\ (st.lab # NoName => x.tab[st.lab].typ # STNEW)
  BY <1>1, LookedUp
<1>5. x.v.val = y.val /\ x.v.rel = y.rel /\ x.v.e = (IF y.bad THEN {"E"} ELSE {})
  <2>1. Proper(Look(symtab, {st.lab}))
    BY <1>1, LookNotices
  <2> QED
    BY <1>1, <2>1, GivenValue
<1> HIDE DEF x, y
<1>6. loc = Spot(c, q) /\ "P" \notin es
  BY <1>1, <1>5 DEF Spot, y
<1>7. curloc' = loc
  BY <1>2 DEF Move
<1> HIDE DEF loc, es, ok
<1>8. Attempt(c, q) = t
  BY <1>1, <1>6 DEF Attempt, ToNew
<1>9. t.n = st.lab /\ ~t.bad /\ Result(x.tab, t) = a
  BY DEF Named, Result
<1> HIDE DEF t, a
<1>10. Tried(t)
  BY <1>2, <1>3, <1>4, <1>6, <1>9, AssignTried
<1>11. LocAfter(c, q) = curloc'
  BY <1>1, <1>6, <1>7 DEF LocAfter, ToOld, ToNew
<1>12. ~Leaves(c, q)
  BY <1>1 DEF Leaves, ToOld, ToNew
<1>13. StandsAt(After(c, q))'
  BY <1>1, <1>2, <1>11, <1>12, LineOn, StandsOn
<1> QED
  BY <1>8, <1>10, <1>13 DEF Follows

LEMMA BlockFollows ==
  ASSUME NEW CONSTANT c, NEW CONSTANT q, Ready(c, q), Block
  PROVE  Follows(c, q)
<1> DEFINE a == Labelled(curloc, cursec)
           x == Operand(a.tab, st.args[1], curloc)
           y == Given1(c, q)
           ok == x.v.rel = RBABS
           es == x.v.e \cup (IF ok THEN {} ELSE {"E"})
<1>1. /\ Stmt(c, q) = st /\ curloc = q.loc /\ cursec = q.sec /\ st.lab \in Labels /\ st.op = "block" /\ Reading
      /\ curloc \in Int /\ cursec \in Sections /\ Proper(symtab) /\ ListsInv
  BY Here DEF Block, Assembling, Ready
<1>2. /\ IF ok THEN Move(curloc + x.v.val) ELSE UNCHANGED <<curloc, out, high>>
      /\ symtab' = x.tab /\ NextLine /\ UNCHANGED <<cursec, sectab, secct>>
  BY DEF Block
<1>3. Errors(a.e \cup es)
  <2>1. Errors(a.e \cup x.v.e \cup (IF ok THEN {} ELSE {"E"}))
    BY DEF Block
  <2>2. a.e \cup es = a.e \cup x.v.e \cup (IF ok THEN {} ELSE {"E"})
    OBVIOUS
  <2> QED
    BY <2>1, <2>2
<1>4. Proper(a.tab)
  BY <1>1, LabelledGrown DEF Grown
<1>5. x.v.val = y.val /\ x.v.rel = y.rel /\ x.v.e = (IF y.bad THEN {"E"} ELSE {}) /\ Noticed(a.tab, x.tab)
  <2> HIDE DEF a
  <2> QED
    BY <1>1, <1>4, GivenValue
<1> HIDE DEF x, y
<1>6. "P" \notin es
  BY <1>5
<1>7. curloc' = IF y.rel = RBABS THEN curloc + y.val ELSE curloc
  BY <1>2, <1>5 DEF Move
<1> HIDE DEF es, ok
<1>8. Attempt(c, q) = Named(st.lab, STLAB, curloc, cursec, FALSE)
  BY <1>1 DEF Attempt, ToNew, Spot
<1>9. Tried(Attempt(c, q))
  BY <1>1, <1>2, <1>3, <1>5, <1>6, <1>8, LabelTried
<1>10. LocAfter(c, q) = curloc'
  BY <1>1, <1>7 DEF LocAfter, ToOld, ToNew, Spot, y
<1>11. ~Leaves(c, q)
  BY <1>1 DEF Leaves, ToOld, ToNew
<1>12. StandsAt(After(c, q))'
  BY <1>1, <1>2, <1>10, <1>11, LineOn, StandsOn
<1> QED
  BY <1>9, <1>12 DEF Follows

LEMMA OrgFollows ==
  ASSUME NEW CONSTANT c, NEW CONSTANT q, Ready(c, q), Org
  PROVE  Follows(c, q)
<1> DEFINE x == Operand(Look(symtab, {st.lab}), st.args[1], curloc)
           y == Given1(c, q)
           ok == x.v.rel = cursec
           a == IF ok THEN Assign(x.tab, st.lab, STLAB, x.v.val, cursec) ELSE [tab |-> x.tab, e |-> {}]
           es == x.v.e \cup (IF ok THEN {} ELSE {"E"})
           t == Named(st.lab, STLAB, x.v.val, cursec, FALSE)
<1>1. /\ Stmt(c, q) = st /\ curloc = q.loc /\ cursec = q.sec /\ st.lab \in Labels /\ st.op = "org" /\ Reading
      /\ curloc \in Int /\ Proper(symtab) /\ ListsInv
  BY Here DEF Org, Assembling, Ready
<1>2. /\ IF ok THEN Move(x.v.val) ELSE UNCHANGED <<curloc, out, high>>
      /\ symtab' = a.tab /\ NextLine /\ UNCHANGED <<cursec, sectab, secct>>
  BY DEF Org
<1>3. Errors(a.e \cup es)
  <2>1. Errors(a.e \cup x.v.e \cup (IF ok THEN {} ELSE {"E"}))
    BY DEF Org
  <2>2. a.e \cup es = a.e \cup x.v.e \cup (IF ok THEN {} ELSE {"E"})
    OBVIOUS
  <2> QED
    BY <2>1, <2>2
<1>4. /\ Proper(x.tab) /\ Noticed(symtab, x.tab) /\ (st.lab # NoName => x.tab[st.lab].typ # STNEW)
  BY <1>1, LookedUp
<1>5. x.v.val = y.val /\ x.v.rel = y.rel /\ x.v.e = (IF y.bad THEN {"E"} ELSE {})
  <2>1. Proper(Look(symtab, {st.lab}))
    BY <1>1, LookNotices
  <2> QED
    BY <1>1, <2>1, GivenValue
<1> HIDE DEF x, y
<1>6. "P" \notin es
  BY <1>5
<1>7. curloc' = IF y.rel = q.sec THEN y.val ELSE q.loc
  BY <1>1, <1>2, <1>5 DEF Move
<1>8. Tried(Attempt(c, q))
  <2>1. CASE ok
    <3>1. Attempt(c, q) = t
      BY <1>1, <1>5, <2>1 DEF Attempt, ToNew, y
    <3>2. t.n = st.lab /\ ~t.bad /\ Result(x.tab, t) = a
      BY <2>1 DEF Named, Result
    <3> HIDE DEF t, a, es
    <3> QED
      BY <1>2, <1>3, <1>4, <1>6, <3>1, <3>2, AssignTried
  <2>2. CASE ~ok
    <3>1. Attempt(c, q) = Nothing
      BY <1>1, <1>5, <2>2 DEF Attempt, ToNew, y
    <3>2. a.tab = x.tab /\ a.e = {}
      BY <2>2
    <3> HIDE DEF a, es
    <3>3. Noticed(symtab, symtab')
      BY <1>2, <1>4, <3>2
    <3>4. errs \subseteq errs' /\ \A e \in errs' : e \in errs \/ e[2] # "P"
      BY <1>3, <1>6, <3>2 DEF Errors
    <3> QED
      BY <1>1, <3>1, <3>3, <3>4, NothingTried
  <2> QED
    BY <2>1, <2>2
<1>9. LocAfter(c, q) = curloc'
  BY <1>1, <1>7 DEF LocAfter, ToOld, ToNew, Spot, y
<1>10. ~Leaves(c, q)
  BY <1>1 DEF Leaves, ToOld, ToNew
<1>11. StandsAt(After(c, q))'
  BY <1>1, <1>2, <1>9, <1>10, LineOn, StandsOn
<1> QED
  BY <1>8, <1>11 DEF Follows

LEMMA EquFollows ==
  ASSUME NEW CONSTANT c, NEW CONSTANT q, Ready(c, q), Equ
  PROVE  Follows(c, q)
<1> DEFINE x == Operand(Look(symtab, {st.lab}), st.args[1], curloc)
           y == Given1(c, q)
           typ == IF st.op = "equ" THEN STLAB ELSE STVAR
           a == IF x.v.e = {} \/ pass2 THEN Assign(x.tab, st.lab, typ, x.v.val, x.v.rel)
                ELSE [tab |-> x.tab, e |-> {}]
           es == x.v.e \cup (IF st.lab = NoName THEN {"L"} ELSE {})
           t == Named(st.lab, typ, y.val, y.rel, y.bad)
<1>1. /\ Stmt(c, q) = st /\ curloc = q.loc /\ cursec = q.sec /\ st.lab \in Labels /\ st.op \in {"equ", "set"}
      /\ Reading /\ curloc \in Int /\ Proper(symtab) /\ ListsInv
  BY Here DEF Equ, Assembling, Ready
<1>2. symtab' = a.tab /\ NextLine /\ UNCHANGED <<cursec, curloc, sectab, secct>>
  BY DEF Equ, places
<1>3. Errors(a.e \cup es)
  <2>1. Errors(a.e \cup x.v.e \cup (IF st.lab = NoName THEN {"L"} ELSE {}))
    BY DEF Equ
  <2>2. a.e \cup es = a.e \cup x.v.e \cup (IF st.lab = NoName THEN {"L"} ELSE {})
    OBVIOUS
  <2> QED
    BY <2>1, <2>2
<1>4. /\ Proper(x.tab) /\ Noticed(symtab, x.tab) /\ (st.lab # NoName => x.tab[st.lab].typ # STNEW)
  BY <1>1, LookedUp
<1>5. x.v.val = y.val /\ x.v.rel = y.rel /\ x.v.e = (IF y.bad THEN {"E"} ELSE {})
  <2>1. Proper(Look(symtab, {st.lab}))
    BY <1>1, LookNotices
  <2> QED
    BY <1>1, <2>1, GivenValue
<1> HIDE DEF x, y
<1>6. "P" \notin es /\ (y.bad => "E" \in es)
  BY <1>5
<1>7. Attempt(c, q) = t
  BY <1>1 DEF Attempt, ToNew, y
<1>8. t.n = st.lab /\ t.bad = y.bad
  BY DEF Named
<1>9. Result(x.tab, t) = a
  BY <1>5 DEF Named, Result
<1> HIDE DEF t, a, es
<1>10. Tried(Attempt(c, q))
  BY <1>2, <1>3, <1>4, <1>6, <1>7, <1>8, <1>9, AssignTried
<1>11. LocAfter(c, q) = curloc
  BY <1>1 DEF LocAfter, ToOld, ToNew, Spot
<1>12. ~Leaves(c, q)
  BY <1>1 DEF Leaves, ToOld, ToNew
<1>13. StandsAt(After(c, q))'
  BY <1>1, <1>2, <1>11, <1>12, LineOn, StandsOn
<1> QED
  BY <1>10, <1>13 DEF Follows

(* Where the section changes.                                              *)
LEMMA SavedPlaces ==
  ASSUME NEW CONSTANT c, NEW CONSTANT q, Ready(c, q), NEW s \in 0 .. secct - 1
  PROVE  /\ [sectab EXCEPT ![cursec].loc = curloc][s].loc = Left(q)[s] /\ s \in Sections
         /\ [sectab EXCEPT ![cursec].loc = curloc] \in [Sections -> [sym : Labels, loc : Int]]
<1>1. /\ cursec \in Sections /\ secct \in 1 .. SECSIZ /\ sectab \in [Sections -> [sym : Labels, loc : Int]]
      /\ curloc \in Int
  BY DEF Ready, AsmInv, PlacesType
<1>2. s \in Sections /\ s \in Nat /\ cursec \in Nat
  BY <1>1, AsmAssumption DEF Sections
<1>3. q.sec = cursec /\ q.loc = curloc /\ q.locs \in [Nat -> Int] /\ (s # cursec => sectab[s].loc = q.locs[s])
  BY DEF Ready, StandsAt
<1> DEFINE u == [sectab[cursec] EXCEPT !.loc = curloc]
<1>4. u.loc = curloc /\ u \in [sym : Labels, loc : Int]
  BY <1>1
<1> HIDE DEF u
<1>5. [sectab EXCEPT ![cursec] = u][s].loc = IF s = cursec THEN curloc ELSE sectab[s].loc
  BY <1>1, <1>2, <1>4
<1>6. Left(q)[s] = IF s = cursec THEN curloc ELSE q.locs[s]
  BY <1>2, <1>3 DEF Left
<1>7. [sectab EXCEPT ![cursec] = u] \in [Sections -> [sym : Labels, loc : Int]]
  BY <1>1, <1>4
<1> QED
  BY <1>2, <1>3, <1>5, <1>6, <1>7 DEF u

(* setsec() to a section that there is.                                    *)
LEMMA SetSecGoes ==
  ASSUME NEW CONSTANT c, NEW CONSTANT q, Ready(c, q), NEW sec \in 0 .. secct - 1, SetSec(sec), UNCHANGED secct,
         Leaves(c, q), ~ToNew(c, q), SecAfter(c, q) = sec, LocAfter(c, q) = Left(q)[sec],
         line' = LineAfter(c, q), argn' = IF MoreTo(c, q) THEN q.argn + 1 ELSE 0
  PROVE  StandsAt(After(c, q))' /\ curloc' = Left(q)[sec]
<1> DEFINE r == After(c, q)
<1>1. r.sec = sec /\ r.locs = Left(q) /\ r.ct = q.ct /\ r.line = line' /\ r.argn = argn' /\ r.loc = Left(q)[sec]
  BY AfterIs
<1>2. sectab' = [sectab EXCEPT ![cursec].loc = curloc] /\ cursec' = sec /\ curloc' = sectab'[sec].loc
  BY DEF SetSec
<1>3. \A s \in 0 .. secct - 1 : sectab'[s].loc = Left(q)[s]
  BY <1>2, SavedPlaces
<1>4. secct' = q.ct
  BY DEF Ready, StandsAt
<1> HIDE DEF r
<1>5. curloc' = r.loc
  BY <1>1, <1>2, <1>3
<1>6. StandsAt(r)'
  BY <1>1, <1>2, <1>3, <1>4, <1>5 DEF StandsAt
<1> QED
  BY <1>1, <1>5, <1>6 DEF r

LEMMA AbsFollows ==
  ASSUME NEW CONSTANT c, NEW CONSTANT q, Ready(c, q), Abs
  PROVE  Follows(c, q)
<1>1. /\ Stmt(c, q) = st /\ st.lab \in Labels /\ st.op = "abs" /\ ListsInv /\ SetSec(0) /\ UNCHANGED secct
      /\ NextLine
  BY Here DEF Abs, Assembling, Ready
<1>2. symtab' = Labelled(curloc', 0).tab /\ Errors(Labelled(curloc', 0).e)
  BY DEF Abs
<1>3. ~ToNew(c, q) /\ ~ToOld(c, q) /\ Leaves(c, q) /\ SecAfter(c, q) = 0
  BY <1>1 DEF ToNew, ToOld, Leaves, SecAfter
<1>4. Spot(c, q) = Left(q)[0]
  BY <1>1 DEF Spot
<1>5. LocAfter(c, q) = Left(q)[0]
  BY <1>1, <1>3, <1>4 DEF LocAfter
<1>6. 0 \in 0 .. secct - 1
  BY DEF Ready, AsmInv, PlacesType
<1>7. StandsAt(After(c, q))' /\ curloc' = Left(q)[0]
  BY <1>1, <1>3, <1>5, <1>6, LineOn, SetSecGoes
<1>8. Attempt(c, q) = Named(st.lab, STLAB, curloc', 0, FALSE)
  BY <1>1, <1>3, <1>4, <1>7 DEF Attempt
<1>9. Tried(Attempt(c, q))
  <2>1. PICK loc : loc = curloc'
    OBVIOUS
  <2>2. symtab' = Labelled(loc, 0).tab /\ Errors(Labelled(loc, 0).e \cup {})
    BY <1>2, <2>1
  <2>3. Attempt(c, q) = Named(st.lab, STLAB, loc, 0, FALSE)
    BY <1>8, <2>1
  <2> QED
    BY <1>1, <2>2, <2>3, NoticedSame, LabelTried
<1> QED
  BY <1>7, <1>9 DEF Follows

LEMMA SectOldFollows ==
  ASSUME NEW CONSTANT c, NEW CONSTANT q, Ready(c, q), SectOld
  PROVE  Follows(c, q)
<1>1. /\ Stmt(c, q) = st /\ st.lab \in Names /\ st.lab # NoName /\ st.op = "sect" /\ ListsInv
      /\ OldSection(st.lab) /\ SetSec(symtab[st.lab].rel) /\ NextLine /\ UNCHANGED <<secct, symtab, errs>>
  BY Here DEF SectOld, Assembling, Ready, Labels
<1>2. q.met[st.lab].typ = STSEC /\ q.met[st.lab].rel = symtab[st.lab].rel /\ symtab[st.lab].rel \in 0 .. secct - 1
  BY <1>1 DEF Ready, SectionsAgree
<1>3. ToOld(c, q) /\ ~ToNew(c, q) /\ Leaves(c, q)
  BY <1>1, <1>2 DEF ToOld, ToNew, Leaves
<1>4. SecAfter(c, q) = symtab[st.lab].rel
  BY <1>1, <1>2, <1>3 DEF SecAfter
<1>5. LocAfter(c, q) = Left(q)[symtab[st.lab].rel]
  BY <1>1, <1>2, <1>3 DEF LocAfter
<1>6. StandsAt(After(c, q))'
  BY <1>1, <1>2, <1>3, <1>4, <1>5, LineOn, SetSecGoes
<1>7. Attempt(c, q) = Nothing
  BY <1>1, <1>3 DEF Attempt
<1>8. Tried(Nothing)
  BY <1>1, NoticedSame, NothingTried
<1> QED
  BY <1>6, <1>7, <1>8 DEF Follows

(* newsec(), unless there are too many sections.                           *)
LEMMA SectNewFollows ==
  ASSUME NEW CONSTANT c, NEW CONSTANT q, Ready(c, q), SectNew
  PROVE  Follows(c, q) \/ (apc' = "exit" /\ UNCHANGED errs)
<1>1. CASE TooMany
  BY <1>1 DEF SectNew
<1>2. CASE ~TooMany
  <2> DEFINE n == st.lab
             t == Named(st.lab, STSEC, 0, q.ct, FALSE)
             tab == Look(symtab, {n})
             r == After(c, q)
  <2>1. /\ Stmt(c, q) = st /\ n \in Names /\ n # NoName /\ st.op = "sect" /\ secct = q.ct /\ Proper(symtab)
        /\ ~OldSection(n) /\ NewSec(tab, n) /\ NextLine
    BY <1>2, Here DEF SectNew, Assembling, Labels
  <2>2. q.met[st.lab].typ # STSEC
    BY <2>1 DEF Ready, SectionsAgree
  <2>3. ToNew(c, q) /\ ~ToOld(c, q) /\ Leaves(c, q)
    BY <2>1, <2>2 DEF ToOld, ToNew, Leaves
  <2>4. SecAfter(c, q) = q.ct /\ LocAfter(c, q) = 0 /\ Attempt(c, q) = t
    <3>1. SecAfter(c, q) = q.ct
      BY <2>1, <2>3 DEF SecAfter
    <3>2. LocAfter(c, q) = 0
      BY <2>1, <2>3 DEF LocAfter
    <3>3. Attempt(c, q) = t
      BY <2>1, <2>3 DEF Attempt
    <3> QED
      BY <3>1, <3>2, <3>3
  <2>5. Tried(t)
    <3>1. Proper(tab) /\ Noticed(symtab, tab) /\ tab[n].typ # STNEW
      BY <2>1, LookNotices
    <3>2. Result(tab, t) = Assign(tab, n, STSEC, 0, secct) /\ t.n = n /\ ~t.bad
      BY <2>1 DEF Result, Named
    <3>3. symtab' = Assign(tab, n, STSEC, 0, secct).tab /\ Errors(Assign(tab, n, STSEC, 0, secct).e \cup {})
      BY <2>1 DEF NewSec
    <3> HIDE DEF t, tab
    <3> QED
      BY <3>1, <3>2, <3>3, AssignTried
  <2>6. StandsAt(r)'
    <3>1. r.sec = q.ct /\ r.locs = Left(q) /\ r.ct = q.ct + 1 /\ r.line = line' /\ r.argn = argn' /\ r.loc = 0
      BY <2>1, <2>3, <2>4, AfterIs, LineOn
    <3>2. cursec' = secct /\ secct' = secct + 1 /\ curloc' = 0 /\ secct \in Int /\ secct \in Sections
      BY <1>2, <2>1, AsmAssumption DEF NewSec, Ready, AsmInv, PlacesType, TooMany, Sections
    <3>3. ASSUME NEW s \in 0 .. secct' - 1, s # cursec' PROVE sectab'[s].loc = Left(q)[s]
      <4> DEFINE w == [sectab EXCEPT ![cursec].loc = curloc]
      <4>1. s \in 0 .. secct - 1 /\ s # secct
        BY <3>2, <3>3
      <4>2. w[s].loc = Left(q)[s] /\ s \in Sections /\ w \in [Sections -> [sym : Labels, loc : Int]]
        BY <4>1, SavedPlaces
      <4>3. sectab' = [w EXCEPT ![secct].sym = n]
        BY <2>1 DEF NewSec
      <4> HIDE DEF w
      <4>4. sectab'[s] = w[s]
        BY <4>1, <4>2, <4>3
      <4> QED
        BY <4>2, <4>4
    <3> HIDE DEF r
    <3> QED
      BY <2>1, <3>1, <3>2, <3>3 DEF StandsAt
  <2> QED
    BY <2>4, <2>5, <2>6 DEF Follows
<1> QED
  BY <1>1, <1>2

(* Where the layout only goes to the next line.                            *)
LEMMA QuietFollows ==
  ASSUME NEW CONSTANT c, NEW CONSTANT q, Ready(c, q), UNCHANGED <<cursec, curloc, sectab, secct>>,
         st.op \in {"global", "else", "endif", "end"} \/ (st.op = "sect" /\ st.lab = NoName),
         line' = LineAfter(c, q), argn' = IF MoreTo(c, q) THEN q.argn + 1 ELSE 0,
         Noticed(symtab, symtab'), errs \subseteq errs', \A e \in errs' : e \in errs \/ e[2] # "P"
  PROVE  Follows(c, q)
<1>1. Stmt(c, q) = st /\ curloc = q.loc /\ ListsInv
  BY Here DEF Ready
<1>2. ~ToOld(c, q) /\ ~ToNew(c, q) /\ ~Leaves(c, q)
  BY <1>1 DEF ToOld, ToNew, Leaves
<1>3. Attempt(c, q) = Nothing
  BY <1>1, <1>2 DEF Attempt
<1>4. LocAfter(c, q) = curloc
  BY <1>1, <1>2 DEF LocAfter, Spot
<1>5. StandsAt(After(c, q))'
  BY <1>2, <1>4, StandsOn
<1> QED
  BY <1>1, <1>3, <1>5, NothingTried DEF Follows

(* .global, .else, .endif, .end and .sect without a label move nothing and *)
(* try nothing.                                                            *)
LEMMA OthersFollow ==
  ASSUME NEW CONSTANT c, NEW CONSTANT q, Ready(c, q), SectNoLabel \/ Global \/ Else \/ Endif \/ End
  PROVE  Follows(c, q)
<1>1. Stmt(c, q) = st /\ Proper(symtab) /\ cmd = c /\ curloc \in Int /\ cursec \in Sections
  BY Here DEF Ready
<1>2. CASE SectNoLabel
  <2>1. /\ st.op = "sect" /\ st.lab = NoName /\ Errors({"L"}) /\ NextLine /\ UNCHANGED <<cursec, curloc, sectab, secct, symtab>>
    BY <1>2 DEF SectNoLabel, Assembling, places
  <2>2. errs \subseteq errs' /\ \A e \in errs' : e \in errs \/ e[2] # "P"
    BY <2>1 DEF Errors
  <2> QED
    BY <2>1, <2>2, NoticedSame, LineOn, QuietFollows
<1>3. CASE Global
  <2>1. st.op = "global" /\ NextLine /\ UNCHANGED <<cursec, curloc, sectab, secct, errs>>
    BY <1>3 DEF Global, Assembling, places
  <2> DEFINE t == Look(symtab, Range(st.args) \cup {st.lab})
  <2>2. symtab' = [n \in Names |-> IF n \in Range(st.args) THEN [t[n] EXCEPT !.glo = TRUE] ELSE t[n]]
    BY <1>3 DEF Global
  <2>3. Noticed(symtab, t) /\ t \in Tables
    BY <1>1, LookNotices DEF Proper
  <2> HIDE DEF t
  <2>4. \A n \in Names : /\ symtab'[n].val = t[n].val /\ symtab'[n].rel = t[n].rel
                         /\ symtab'[n].typ = t[n].typ /\ symtab'[n].dp2 = t[n].dp2
    <3> SUFFICES ASSUME NEW n \in Names
                 PROVE  /\ symtab'[n].val = t[n].val /\ symtab'[n].rel = t[n].rel
                        /\ symtab'[n].typ = t[n].typ /\ symtab'[n].dp2 = t[n].dp2
      OBVIOUS
    <3>1. t[n] \in Symbols
      BY <2>3 DEF Tables
    <3>2. symtab'[n] = IF n \in Range(st.args) THEN [t[n] EXCEPT !.glo = TRUE] ELSE t[n]
      BY <2>2
    <3> QED
      BY <3>1, <3>2 DEF Symbols
  <2>5. Noticed(symtab, symtab')
    BY <2>3, <2>4 DEF Noticed
  <2> QED
    BY <2>1, <2>5, LineOn, QuietFollows
<1>4. CASE Else
  <2>1. st.op = "else" /\ NextLine /\ UNCHANGED <<cursec, curloc, sectab, secct>> /\ symtab' = Look(symtab, {st.lab})
    BY <1>4 DEF Else, Assembling, places
  <2>2. Errors({}) \/ Errors({"C"})
    BY <1>4 DEF Else
  <2>3. errs \subseteq errs' /\ \A e \in errs' : e \in errs \/ e[2] # "P"
    BY <2>2 DEF Errors
  <2> QED
    BY <1>1, <2>1, <2>3, LookNotices, LineOn, QuietFollows
<1>5. CASE Endif
  <2>1. st.op = "endif" /\ NextLine /\ UNCHANGED <<cursec, curloc, sectab, secct>> /\ symtab' = Look(symtab, {st.lab})
    BY <1>5 DEF Endif, Assembling, places
  <2>2. Errors({}) \/ Errors({"C"})
    BY <1>5 DEF Endif
  <2>3. errs \subseteq errs' /\ \A e \in errs' : e \in errs \/ e[2] # "P"
    BY <2>2 DEF Errors
  <2> QED
    BY <1>1, <2>1, <2>3, LookNotices, LineOn, QuietFollows
<1>6. CASE End
  <2> DEFINE t == Look(symtab, {st.lab})
             x == Operand(t, st.args[1], curloc)
  <2>1. /\ st.op = "end" /\ Reading /\ UNCHANGED <<cursec, curloc, sectab, secct>>
        /\ line' = Len(c.src) + 1 /\ argn' = 0
        /\ IF st.args = <<>> THEN symtab' = t /\ UNCHANGED errs ELSE symtab' = x.tab /\ Errors(x.v.e)
    BY <1>1, <1>6 DEF End, Assembling, places
  <2>2. Proper(t) /\ Noticed(symtab, t)
    BY <1>1, LookNotices
  <2>3. st.args # <<>> => st.args[1] \in Operands
    BY <2>1, StatementType, FirstOperand DEF Ready, Others
  <2> HIDE DEF t
  <2>4. st.args # <<>> => Noticed(t, x.tab) /\ "P" \notin x.v.e
    BY <1>1, <2>2, <2>3, OperandNotices
  <2> HIDE DEF x
  <2>5. Noticed(symtab, symtab')
    <3>1. CASE st.args = <<>>
      BY <2>1, <2>2, <3>1
    <3>2. CASE st.args # <<>>
      BY <2>1, <2>2, <2>4, <3>2, NoticedTrans
    <3> QED
      BY <3>1, <3>2
  <2>6. errs \subseteq errs' /\ \A e \in errs' : e \in errs \/ e[2] # "P"
    <3>1. CASE st.args = <<>>
      BY <2>1, <3>1
    <3>2. CASE st.args # <<>>
      BY <2>1, <2>4, <3>2 DEF Errors
    <3> QED
      BY <3>1, <3>2
  <2>7. line' = LineAfter(c, q) /\ argn' = IF MoreTo(c, q) THEN q.argn + 1 ELSE 0
    BY <1>1, <2>1 DEF LineAfter, MoreTo
  <2> QED
    BY <2>1, <2>5, <2>6, <2>7, QuietFollows
<1> QED
  BY <1>2, <1>3, <1>4, <1>5, <1>6

-----------------------------------------------------------------------------
(* What every layout is, and what the sections of the table are by it.     *)
Kept(m, all) == \A n \in Names : m[n] # None => all[n] = m[n]
VariableOf(c, n) == \E s \in Range(c.src) : s.op = "set" /\ s.lab = n
Sane(c, q) ==
  /\ MetRight(q.met) /\ q.locs \in [Nat -> Int]
  /\ \A n \in Names : q.met[n].typ = STSEC => q.met[n].rel \in 0 .. q.ct - 1
  /\ \A n \in Names : q.met[n].typ = STVAR => VariableOf(c, n)

(* An attempt is for the label of the statement; a new section gets the    *)
(* next number.                                                            *)
LEMMA AttemptIs ==
  ASSUME NEW c, NEW q
  PROVE  LET t == Attempt(c, q)  s == Stmt(c, q) IN
         \/ t = Nothing
         \/ /\ t.n = s.lab /\ t.typ \in MetTypes /\ (t.typ = STVAR <=> s.op = "set")
            /\ t.typ = STSEC => t.rel = q.ct /\ ToNew(c, q)
            /\ t.bad => t.typ # STSEC
<1> DEFINE t == Attempt(c, q)
           s == Stmt(c, q)
           x == Given1(c, q)
<1>1. ASSUME NEW typ \in {STLAB, STVAR}, NEW val, NEW rel, NEW bad, t = Named(s.lab, typ, val, rel, bad)
      PROVE  t.n = s.lab /\ t.typ = typ /\ typ \in MetTypes /\ typ # STSEC
  BY <1>1 DEF Named, MetTypes, STLAB, STVAR, STSEC
<1>2. CASE s.op \in {"label", "block", "instr", "align"}
  <2>1. t = Named(s.lab, STLAB, Spot(c, q), q.sec, FALSE)
    BY <1>2 DEF Attempt, ToNew
  <2> QED
    BY <1>1, <1>2, <2>1 DEF STLAB, STVAR
<1>3. CASE s.op \in {"byte", "word", "long"}
  <2>1. t = Nothing \/ t = Named(s.lab, STLAB, Spot(c, q), q.sec, FALSE)
    BY <1>3 DEF Attempt, ToNew
  <2> QED
    BY <1>1, <1>3, <2>1 DEF STLAB, STVAR
<1>4. CASE s.op = "org"
  <2>1. t = Nothing \/ t = Named(s.lab, STLAB, x.val, q.sec, FALSE)
    BY <1>4 DEF Attempt, ToNew
  <2> QED
    BY <1>1, <1>4, <2>1 DEF STLAB, STVAR
<1>5. CASE s.op = "abs"
  <2>1. t = Named(s.lab, STLAB, Spot(c, q), 0, FALSE)
    BY <1>5 DEF Attempt, ToNew
  <2> QED
    BY <1>1, <1>5, <2>1 DEF STLAB, STVAR
<1>6. CASE s.op = "equ"
  <2>1. t = Named(s.lab, STLAB, x.val, x.rel, x.bad)
    BY <1>6 DEF Attempt, ToNew
  <2> QED
    BY <1>1, <1>6, <2>1 DEF STLAB, STVAR
<1>7. CASE s.op = "set"
  <2>1. t = Named(s.lab, STVAR, x.val, x.rel, x.bad)
    BY <1>7 DEF Attempt, ToNew
  <2> QED
    BY <1>1, <1>7, <2>1 DEF STLAB, STVAR
<1>8. CASE ToNew(c, q)
  <2>1. s.op = "sect"
    BY <1>8 DEF ToNew
  <2>2. t = Named(s.lab, STSEC, 0, q.ct, FALSE)
    BY <1>8, <2>1 DEF Attempt
  <2>3. t.n = s.lab /\ t.typ = STSEC /\ t.rel = q.ct /\ t.bad = FALSE
    BY <2>2 DEF Named
  <2> QED
    BY <1>8, <2>1, <2>3 DEF MetTypes, STVAR, STSEC
<1>9. CASE s.op \notin {"label", "block", "instr", "align", "byte", "word", "long", "org", "abs", "equ", "set"}
           /\ ~ToNew(c, q)
  BY <1>9 DEF Attempt
<1> QED
  BY <1>2, <1>3, <1>4, <1>5, <1>6, <1>7, <1>8, <1>9

(* A variable is not tried as anything else: its name is defined by .set   *)
(* only.                                                                   *)
LEMMA TrialMade ==
  ASSUME NEW c, NEW q, Ready(c, q), Sane(c, q), Reading
  PROVE  LET t == Attempt(c, q) IN Trial(t, q.met) /\ (t.bad => t.typ # STSEC)
<1> DEFINE t == Attempt(c, q)
<1>1. Stmt(c, q) = st /\ st \in Range(cmd.src) /\ st.lab \in Labels /\ cmd = c
  BY Here DEF Ready
<1>2. CASE t = Nothing
  <2>1. t.n = NoName /\ t.typ = STLAB /\ ~t.bad
    BY <1>2 DEF Nothing
  <2> HIDE DEF t
  <2>2. Trial(t, q.met) /\ (t.bad => t.typ # STSEC)
    BY <2>1, AsmAssumption DEF Trial, MetTypes, Labels
  <2> QED
    BY <2>2 DEF t
<1>3. CASE t # Nothing
  <2>1. /\ t.n = st.lab /\ t.typ \in MetTypes /\ (t.typ = STVAR <=> st.op = "set") /\ (t.bad => t.typ # STSEC)
    BY <1>1, <1>3, AttemptIs
  <2> HIDE DEF t
  <2>2. ASSUME t.n \in Names, q.met[t.n].typ = STVAR PROVE t.typ = STVAR
    <3>1. PICK s \in Range(cmd.src) : s.op = "set" /\ s.lab = t.n
      BY <1>1, <2>2 DEF Sane, VariableOf
    <3>2. Settled(s)
      BY DEF Ready, SettledProgram
    <3>3. st.lab \in {s.lab} \ {NoName}
      BY <2>1, <2>2, <3>1, AsmAssumption
    <3>4. st.op = "set"
      BY <1>1, <3>1, <3>2, <3>3 DEF Settled
    <3> QED
      BY <2>1, <3>4
  <2>3. Trial(t, q.met) /\ (t.bad => t.typ # STSEC)
    BY <1>1, <2>1, <2>2 DEF Trial
  <2> QED
    BY <2>3 DEF t
<1> QED
  BY <1>2, <1>3

LEMMA LeftType ==
  ASSUME NEW c, NEW q, Ready(c, q)
  PROVE  Left(q) \in [Nat -> Int]
<1>1. cursec = q.sec /\ curloc = q.loc /\ curloc \in Int /\ cursec \in Sections
  BY Here
<1>2. q.sec \in Nat /\ q.loc \in Int
  BY <1>1, AsmAssumption DEF Sections
<1>3. q.locs \in [Nat -> Int]
  BY DEF Ready
<1> QED
  BY <1>2, <1>3 DEF Left

(* A layout that is sane leads to one that is.                             *)
LEMMA SaneAfter ==
  ASSUME NEW c, NEW q, Ready(c, q), Sane(c, q), Reading
  PROVE  Sane(c, After(c, q))
<1> DEFINE t == Attempt(c, q)
           r == After(c, q)
<1>1. /\ Stmt(c, q) = st /\ st \in Range(c.src) /\ q.ct \in Nat
  BY Here DEF Ready, AsmInv, PlacesType
<1>2. Trial(t, q.met)
  BY TrialMade
<1>3. r.met = MetBy(q.met, t) /\ r.locs = (IF Leaves(c, q) THEN Left(q) ELSE q.locs)
      /\ r.ct = (IF ToNew(c, q) THEN q.ct + 1 ELSE q.ct)
  BY AfterIs
<1>4. r.locs \in [Nat -> Int]
  BY <1>3, LeftType DEF Sane
<1>5. t = Nothing \/ (/\ t.n = st.lab /\ (t.typ = STVAR <=> st.op = "set")
                      /\ t.typ = STSEC => t.rel = q.ct /\ ToNew(c, q))
  BY <1>1, AttemptIs
<1>6. t = Nothing => t.n \notin Names
  BY AsmAssumption DEF Nothing
<1> HIDE DEF t, r
<1>7. ASSUME NEW n \in Names
      PROVE  /\ r.met[n] # None => r.met[n].typ \in MetTypes
             /\ r.met[n].typ = STSEC => r.met[n].rel \in 0 .. r.ct - 1
             /\ r.met[n].typ = STVAR => VariableOf(c, n)
  <2>1. CASE r.met[n] = q.met[n]
    <3>1. r.ct \in Nat /\ r.ct >= q.ct
      BY <1>1, <1>3
    <3>2. q.met[n].typ = STSEC => q.met[n].rel \in 0 .. q.ct - 1
      BY DEF Sane
    <3>3. q.met[n].typ = STSEC => q.met[n].rel \in 0 .. r.ct - 1
      BY <1>1, <3>1, <3>2
    <3> QED
      BY <2>1, <3>3 DEF Sane, MetRight
  <2>2. CASE r.met[n] # q.met[n]
    <3>1. n = t.n /\ r.met[n].typ = t.typ /\ r.met[n].rel = t.rel
      BY <1>3, <2>2, MetByIs
    <3>2. t.typ \in MetTypes /\ n = st.lab /\ (t.typ = STVAR <=> st.op = "set")
          /\ (t.typ = STSEC => t.rel = q.ct /\ ToNew(c, q))
      BY <1>2, <1>5, <1>6, <3>1 DEF Trial
    <3>3. t.typ = STSEC => r.met[n].rel \in 0 .. r.ct - 1
      BY <1>1, <1>3, <3>1, <3>2
    <3>4. t.typ = STVAR => VariableOf(c, n)
      BY <1>1, <3>2 DEF VariableOf
    <3> QED
      BY <3>1, <3>2, <3>3, <3>4
  <2> QED
    BY <2>1, <2>2
<1>8. Sane(c, r)
  BY <1>4, <1>7 DEF Sane, MetRight
<1> QED
  BY <1>8 DEF r

(* What sections there are, the table and the layout agree on: in pass 1   *)
(* ...                                                                     *)
LEMMA SectionsAgree1 ==
  ASSUME NEW c, NEW q, StandsAt(q), Sane(c, q), ~pass2, Known1(q.met)
  PROVE  SectionsAgree(q.met)
<1> SUFFICES ASSUME NEW n \in Names
             PROVE  /\ OldSection(n) <=> q.met[n].typ = STSEC
                    /\ OldSection(n) => q.met[n].rel = symtab[n].rel /\ q.met[n].rel \in 0 .. secct - 1
  BY DEF SectionsAgree
<1>1. IF q.met[n] = None THEN symtab[n].typ \in {STNEW, STUND} ELSE Agrees(symtab[n], q.met[n])
  BY DEF Known1
<1>2. None.typ # STSEC
  BY DEF None, STSEC
<1>3. OldSection(n) <=> symtab[n].typ = STSEC
  BY DEF OldSection
<1>4. q.met[n].typ = STSEC => q.met[n].rel \in 0 .. secct - 1
  BY DEF Sane, StandsAt
<1> QED
  BY <1>1, <1>2, <1>3, <1>4 DEF Agrees, STSEC, STVAR, STNEW, STUND

(* ... and in pass 2, which has met part of what there is.                 *)
LEMMA SectionsAgree2 ==
  ASSUME NEW c, NEW q, NEW all, StandsAt(q), Sane(c, q), pass2, Known2(q.met, all), Kept(q.met, all)
  PROVE  SectionsAgree(q.met)
<1> SUFFICES ASSUME NEW n \in Names
             PROVE  /\ OldSection(n) <=> q.met[n].typ = STSEC
                    /\ OldSection(n) => q.met[n].rel = symtab[n].rel /\ q.met[n].rel \in 0 .. secct - 1
  BY DEF SectionsAgree
<1>1. /\ IF all[n] = None THEN symtab[n].typ # STSEC ELSE Agrees(symtab[n], all[n])
      /\ q.met[n] # None /\ q.met[n].typ # STVAR => symtab[n].dp2
      /\ symtab[n].typ = STSEC /\ symtab[n].dp2 => q.met[n] # None
  BY DEF Known2
<1>2. None.typ # STSEC
  BY DEF None, STSEC
<1>3. OldSection(n) <=> symtab[n].typ = STSEC /\ symtab[n].dp2
  BY DEF OldSection
<1>4. q.met[n].typ = STSEC => q.met[n].rel \in 0 .. secct - 1
  BY DEF Sane, StandsAt
<1>5. q.met[n] # None => all[n] = q.met[n]
  BY DEF Kept
<1> QED
  BY <1>1, <1>2, <1>3, <1>4, <1>5 DEF Agrees, STSEC, STVAR

-----------------------------------------------------------------------------
(* The layouts of a program, from its opening on.                          *)
Trail(c, tr, k) ==
  /\ k \in Nat /\ tr[0] = Opening
  /\ \A i \in 0 .. k - 1 : tr[i].line <= Len(c.src) /\ tr[i + 1] = After(c, tr[i])
Led(c, q) == \E tr, k : Trail(c, tr, k) /\ tr[k] = q
AtEnd(c, q) == q.line > Len(c.src)

(* Both passes begin with the opening, ...                                 *)
LEMMA LedOpening == ASSUME NEW c PROVE Led(c, Opening)
<1> DEFINE tr == [i \in {0} |-> Opening]
<1>1. tr[0] = Opening
  OBVIOUS
<1> HIDE DEF tr
<1>2. Trail(c, tr, 0)
  BY <1>1 DEF Trail
<1> QED
  BY <1>1, <1>2 DEF Led

(* ... and go on.                                                          *)
LEMMA LedAfter ==
  ASSUME NEW c, NEW q, Led(c, q), q.line <= Len(c.src)
  PROVE  Led(c, After(c, q))
<1>1. PICK tr, k : Trail(c, tr, k) /\ tr[k] = q
  BY DEF Led
<1> DEFINE on == [i \in 0 .. k + 1 |-> IF i <= k THEN tr[i] ELSE After(c, q)]
<1>2. k \in Nat
  BY <1>1 DEF Trail
<1>3. on[k + 1] = After(c, q) /\ \A i \in 0 .. k : on[i] = tr[i]
  BY <1>2
<1> HIDE DEF on
<1>4. ASSUME NEW i \in 0 .. k PROVE on[i].line <= Len(c.src) /\ on[i + 1] = After(c, on[i])
  <2>1. CASE i = k
    BY <1>1, <1>2, <1>3, <2>1
  <2>2. CASE i # k
    <3>1. i \in 0 .. k - 1 /\ i + 1 \in 0 .. k
      BY <1>2, <2>2
    <3> QED
      BY <1>1, <1>3, <3>1 DEF Trail
  <2> QED
    BY <2>1, <2>2
<1>5. Trail(c, on, k + 1)
  <2>1. on[0] = Opening
    BY <1>1, <1>2, <1>3 DEF Trail
  <2>2. k + 1 \in Nat /\ (k + 1) - 1 = k
    BY <1>2
  <2> QED
    BY <1>4, <2>1, <2>2 DEF Trail
<1> QED
  BY <1>3, <1>5 DEF Led

(* What has been met once stays as it was met.                             *)
LEMMA MetKept ==
  ASSUME NEW m, NEW t
  PROVE  Kept(m, MetBy(m, t))
  BY MetByIs DEF Kept

(* What a layout has met, a later one of its trail has met as well.        *)
LEMMA TrailKept ==
  ASSUME NEW c, NEW tr, NEW k, Trail(c, tr, k), NEW i \in 0 .. k
  PROVE  Kept(tr[i].met, tr[k].met)
<1> DEFINE S == {j \in Nat : i + j <= k => Kept(tr[i].met, tr[i + j].met)}
<1>1. k \in Nat /\ i \in Nat
  BY DEF Trail
<1>2. 0 \in S
  BY <1>1 DEF Kept
<1>3. ASSUME NEW j \in Nat, j \in S PROVE j + 1 \in S
  <2>1. CASE i + (j + 1) <= k
    <3>1. i + j \in 0 .. k - 1 /\ i + j <= k /\ i + (j + 1) = (i + j) + 1
      BY <1>1, <2>1
    <3>2. tr[(i + j) + 1] = After(c, tr[i + j])
      BY <3>1 DEF Trail
    <3>3. tr[i + (j + 1)].met = MetBy(tr[i + j].met, Attempt(c, tr[i + j]))
      BY <3>1, <3>2, AfterIs
    <3>4. Kept(tr[i].met, tr[i + j].met) /\ Kept(tr[i + j].met, tr[i + (j + 1)].met)
      BY <1>3, <3>1, <3>3, MetKept
    <3> QED
      BY <3>4 DEF Kept
  <2>2. CASE ~(i + (j + 1) <= k)
    BY <2>2
  <2> QED
    BY <2>1, <2>2
<1>4. Nat \subseteq S
  <2> HIDE DEF S
  <2> QED
    BY <1>2, <1>3, NatSetInduction
<1>5. k - i \in Nat /\ i + (k - i) = k
  BY <1>1
<1> QED
  BY <1>4, <1>5

-----------------------------------------------------------------------------
(* Pass 1 stands on a layout that it has led to, and pass 2 on one of      *)
(* those of pass 1, which has met all that pass 2 is to meet.              *)
Unmet == [n \in Names |-> None]
Stands1(c) == \E q : Led(c, q) /\ StandsAt(q) /\ Sane(c, q) /\ Known1(q.met)
Knows1(c) == \E q : Led(c, q) /\ AtEnd(c, q) /\ MetRight(q.met) /\ Known1(q.met)
Stands2(c) ==
  \E tr, k : \E i \in 0 .. k :
    /\ Trail(c, tr, k) /\ AtEnd(c, tr[k]) /\ MetRight(tr[k].met)
    /\ StandsAt(tr[i]) /\ Sane(c, tr[i]) /\ Known2(tr[i].met, tr[k].met)
Knows2(c) == \E q : Led(c, q) /\ AtEnd(c, q) /\ MetRight(q.met) /\ Known2(Unmet, q.met)

PhasesInv ==
  SettledProgram =>
    /\ ErrorsFine
    /\ apc = "start" /\ ~pass2 => Known1(Unmet)
    /\ apc = "pass" => condlev = 0 /\ truelev = 0 /\ IF pass2 THEN Stands2(cmd) ELSE Stands1(cmd)
    /\ apc = "interlude" => Knows1(cmd)
    /\ apc = "start" /\ pass2 => Knows2(cmd)

Statement ==
  \/ Label \/ Data \/ Instr \/ Align \/ Block \/ Org \/ Abs \/ SectOld \/ SectNew \/ Equ
  \/ SectNoLabel \/ Global \/ Else \/ Endif \/ End

(* Every statement leads to the next layout, or asz8k gives up.            *)
LEMMA StatementFollows ==
  ASSUME NEW CONSTANT c, NEW CONSTANT q, Ready(c, q), Statement
  PROVE  Follows(c, q) \/ (apc' = "exit" /\ UNCHANGED errs)
  BY LabelFollows, DataFollows, InstrFollows, AlignFollows, BlockFollows, OrgFollows, AbsFollows,
     SectOldFollows, SectNewFollows, EquFollows, OthersFollow DEF Statement

LEMMA StatementReads ==
  ASSUME Statement
  PROVE  /\ Reading /\ UNCHANGED <<cmd, pass2>> /\ apc' \in {"pass", "exit"}
<1>1. ASSUME Label \/ Data \/ Instr \/ Align \/ Block \/ Org \/ Abs \/ SectOld \/ SectNew \/ Equ
             \/ SectNoLabel \/ Global \/ End
      PROVE  Reading /\ UNCHANGED <<cmd, pass2>> /\ apc' \in {"pass", "exit"}
  <2>1. ASSUME Label \/ Abs \/ SectNoLabel \/ SectOld \/ Global \/ Equ \/ End
        PROVE  Reading /\ UNCHANGED <<cmd, apc, pass2, levels>>
    BY <2>1 DEF Label, Abs, SectNoLabel, SectOld, Global, Equ, End, Assembling
  <2>2. ASSUME Data \/ Instr \/ Align \/ Block \/ Org
        PROVE  Reading /\ UNCHANGED <<cmd, apc, pass2, levels>>
    BY <2>2 DEF Data, Instr, Align, Block, Org, Assembling
  <2>3. ASSUME SectNew
        PROVE  Reading /\ UNCHANGED <<cmd, pass2, levels>> /\ (apc' = "exit" \/ UNCHANGED apc)
    BY <2>3 DEF SectNew, Assembling
  <2> QED
    BY <1>1, <2>1, <2>2, <2>3 DEF Reading, levels
<1>2. ASSUME Else \/ Endif
      PROVE  Reading /\ UNCHANGED <<cmd, apc, pass2>>
  BY <1>2 DEF Else, Endif, Assembling
<1> QED
  BY <1>1, <1>2 DEF Statement, Reading

(* .else and .endif without an .if are errors and open nothing.            *)
LEMMA LevelsStay ==
  ASSUME Statement, condlev = 0, truelev = 0
  PROVE  condlev' = 0 /\ truelev' = 0
<1>1. Else => condlev' = 0 /\ truelev' = 0
  BY DEF Else
<1>2. Endif => condlev' = 0 /\ truelev' = 0
  BY DEF Endif, levels
<1>3. ASSUME Label \/ Data \/ Instr \/ Align \/ Block \/ Org \/ Abs \/ SectOld \/ SectNew \/ Equ
             \/ SectNoLabel \/ Global \/ End
      PROVE  condlev' = 0 /\ truelev' = 0
  BY <1>3 DEF Label, Data, Instr, Align, Block, Org, Abs, SectOld, SectNew, Equ, SectNoLabel, Global, End, levels
<1> QED
  BY <1>1, <1>2, <1>3 DEF Statement

(* A statement of pass 1: the layouts are led on.                          *)
LEMMA StandsStep1 ==
  ASSUME NEW CONSTANT c, c = cmd, AsmInv, ListsInv, SettledProgram, ~pass2, Stands1(c), Statement
  PROVE  Stands1(c)' \/ apc' = "exit"
<1>1. PICK q : Led(c, q) /\ StandsAt(q) /\ Sane(c, q) /\ Known1(q.met)
  BY DEF Stands1
<1>2. Ready(c, q)
  BY <1>1, SectionsAgree1 DEF Ready, Sane
<1>3. Reading /\ line = q.line
  BY <1>1, StatementReads DEF StandsAt
<1>4. Trial(Attempt(c, q), q.met) /\ Sane(c, After(c, q))
  BY <1>1, <1>2, <1>3, TrialMade, SaneAfter
<1>5. ASSUME Follows(c, q) PROVE Stands1(c)'
  <2>1. PICK r : r = After(c, q)
    OBVIOUS
  <2>2. PICK t : t = Attempt(c, q)
    OBVIOUS
  <2>3. PICK m : m = q.met
    OBVIOUS
  <2>4. Known1(MetBy(m, t))'
    <3>1. Known1(m) /\ MetRight(m) /\ Trial(t, m) /\ Tried(t)
      BY <1>1, <1>4, <1>5, <2>2, <2>3 DEF Follows, Sane
    <3> QED
      BY <3>1, TableStep1
  <2>5. r.met = MetBy(m, t)
    BY <2>1, <2>2, <2>3, AfterIs
  <2>6. StandsAt(r)' /\ Sane(c, r)
    BY <1>4, <1>5, <2>1 DEF Follows
  <2>7. Led(c, r)
    BY <1>1, <1>3, <2>1, LedAfter DEF Reading
  <2>8. Known1(r.met)'
    BY <2>4, <2>5
  <2> QED
    BY <2>6, <2>7, <2>8 DEF Stands1
<1> QED
  BY <1>2, <1>5, StatementFollows

(* A statement of pass 2: the next layout of the trail is met as pass 1    *)
(* has met it, and there is no phase error that an error of the operand    *)
(* does not explain.                                                       *)
LEMMA StandsStep2 ==
  ASSUME NEW CONSTANT c, c = cmd, AsmInv, ListsInv, SettledProgram, pass2, Stands2(c), ErrorsFine, Statement
  PROVE  ErrorsFine' /\ (Stands2(c)' \/ apc' = "exit")
<1>1. PICK tr, k : \E i \in 0 .. k :
        /\ Trail(c, tr, k) /\ AtEnd(c, tr[k]) /\ MetRight(tr[k].met)
        /\ StandsAt(tr[i]) /\ Sane(c, tr[i]) /\ Known2(tr[i].met, tr[k].met)
  BY DEF Stands2
<1>2. PICK i \in 0 .. k :
        /\ Trail(c, tr, k) /\ AtEnd(c, tr[k]) /\ MetRight(tr[k].met)
        /\ StandsAt(tr[i]) /\ Sane(c, tr[i]) /\ Known2(tr[i].met, tr[k].met)
  BY <1>1
<1>3. PICK q : q = tr[i]
  OBVIOUS
<1>4. PICK all : all = tr[k].met
  OBVIOUS
<1>5. StandsAt(q) /\ Sane(c, q) /\ Known2(q.met, all) /\ Kept(q.met, all) /\ MetRight(all)
  BY <1>2, <1>3, <1>4, TrailKept
<1>6. Ready(c, q)
  BY <1>5, SectionsAgree2 DEF Ready, Sane
<1>7. Reading /\ line = q.line /\ k \in Nat
  BY <1>2, <1>5, StatementReads DEF StandsAt, Trail
<1>8. i + 1 \in 0 .. k /\ tr[i + 1] = After(c, q)
  <2>1. i # k
    <3>1. c.src \in Seq(Statements)
      BY CommandAssumption DEF AsmInv, SourceType
    <3>2. Len(c.src) \in Nat /\ q.line <= Len(c.src) /\ q.line \in Nat
      BY <1>7, <3>1 DEF Reading, AsmInv, SourceType
    <3> QED
      BY <1>2, <1>3, <3>2 DEF AtEnd
  <2>2. i \in 0 .. k - 1 /\ i + 1 \in 0 .. k
    BY <1>7, <2>1
  <2> QED
    BY <1>2, <1>3, <2>2 DEF Trail
<1>9. Trial(Attempt(c, q), q.met) /\ (Attempt(c, q).bad => Attempt(c, q).typ # STSEC) /\ Sane(c, After(c, q))
  BY <1>5, <1>6, <1>7, TrialMade, SaneAfter
<1>10. Kept(After(c, q).met, all) /\ After(c, q).met = MetBy(q.met, Attempt(c, q))
  BY <1>2, <1>4, <1>8, TrailKept, AfterIs
<1>11. ASSUME Follows(c, q) PROVE Stands2(c)' /\ ErrorsFine'
  <2>1. PICK t : t = Attempt(c, q)
    OBVIOUS
  <2>2. PICK m : m = q.met
    OBVIOUS
  <2>3. Known2(MetBy(m, t), all)' /\ ErrorsFine'
    <3>1. /\ Known2(m, all) /\ MetRight(m) /\ MetRight(all) /\ Trial(t, m) /\ Foretold(m, t, all)
          /\ (t.bad => t.typ # STSEC) /\ Tried(t)
      BY <1>5, <1>9, <1>10, <1>11, <2>1, <2>2 DEF Follows, Sane, Foretold, Kept
    <3> QED
      BY <3>1, TableStep2
  <2>4. PICK j : j = i + 1
    OBVIOUS
  <2>5. tr[j].met = MetBy(m, t) /\ j \in 0 .. k
    BY <1>8, <1>10, <2>1, <2>2, <2>4
  <2>6. StandsAt(tr[j])' /\ Sane(c, tr[j])
    BY <1>8, <1>9, <1>11, <2>4 DEF Follows
  <2>7. Known2(tr[j].met, tr[k].met)'
    BY <1>4, <2>3, <2>5
  <2>8. Stands2(c)'
    BY <1>2, <2>5, <2>6, <2>7 DEF Stands2
  <2> QED
    BY <2>3, <2>8
<1>12. ASSUME apc' = "exit", UNCHANGED errs PROVE ErrorsFine'
  BY <1>12 DEF ErrorsFine
<1> QED
  BY <1>6, <1>11, <1>12, StatementFollows

-----------------------------------------------------------------------------
(* The passes and what is between them.                                    *)
LEMMA SettledStays ==
  ASSUME UNCHANGED cmd
  PROVE  SettledProgram' <=> SettledProgram
  BY DEF SettledProgram, Settled

(* dopass() begins at the opening, ...                                     *)
LEMMA OpeningStands ==
  ASSUME AsmInv, ListsInv, StartPass
  PROVE  StandsAt(Opening)' /\ Sane(cmd, Opening) /\ Led(cmd, Opening)
<1> DEFINE txt == [typ |-> STSEC, val |-> 0, rel |-> 1]
<1>1. /\ Opening.line = 1 /\ Opening.argn = 0 /\ Opening.sec = 1 /\ Opening.loc = 0 /\ Opening.ct = 2
      /\ Opening.locs = [s \in Nat |-> 0]
      /\ Opening.met = [n \in Names |-> IF n = "__text" THEN txt ELSE None]
  BY DEF Opening
<1>2. /\ line' = 1 /\ argn' = 0 /\ cursec' = 1 /\ curloc' = 0 /\ secct' = 2
      /\ sectab' = [sectab EXCEPT ![0].loc = 0, ![1].sym = "__text"]
  BY DEF StartPass
<1>3. 0 \in Sections /\ 1 \in Sections /\ sectab \in [Sections -> [sym : Labels, loc : Int]]
  BY AsmAssumption DEF Sections, AsmInv, PlacesType
<1>4. sectab'[0].loc = 0
  BY <1>2, <1>3
<1>5. StandsAt(Opening)'
  <2>1. \A s \in 0 .. 1 : s # 1 => s = 0
    OBVIOUS
  <2>2. [s \in Nat |-> 0][0] = 0
    OBVIOUS
  <2> QED
    BY <1>1, <1>2, <1>4, <2>1, <2>2 DEF StandsAt
<1>6. None.typ \notin {STSEC, STVAR} /\ txt.typ = STSEC /\ txt.rel = 1
  BY DEF None, STSEC, STVAR
<1> HIDE DEF txt
<1>7. ASSUME NEW n \in Names
      PROVE  \/ Opening.met[n] = None
             \/ Opening.met[n].typ = STSEC /\ Opening.met[n].rel = 1
  BY <1>1, <1>6
<1>8. STSEC # STVAR /\ STSEC \in MetTypes
  BY DEF STSEC, STVAR, MetTypes
<1>9. Opening.locs \in [Nat -> Int] /\ 1 \in 0 .. Opening.ct - 1
  BY <1>1
<1>10. Sane(cmd, Opening)
  BY <1>6, <1>7, <1>8, <1>9 DEF Sane, MetRight
<1> QED
  BY <1>5, <1>10, LedOpening

(* ... and is what a pass that has met nothing makes of __text.            *)
TextNamed == Named("__text", STSEC, 0, 1, FALSE)
LEMMA OpeningTried ==
  ASSUME AsmInv, ListsInv, StartPass
  PROVE  /\ Tried(TextNamed) /\ Trial(TextNamed, Unmet) /\ MetRight(Unmet)
         /\ TextNamed.typ = STSEC /\ ~TextNamed.bad /\ Opening.met = MetBy(Unmet, TextNamed)
<1> DEFINE t == TextNamed
           tab == Look(symtab, {"__text"})
<1>1. t.n = "__text" /\ t.typ = STSEC /\ t.val = 0 /\ t.rel = 1 /\ t.bad = FALSE
  BY DEF TextNamed, Named
<1>2. "__text" \in Names /\ Proper(symtab)
  BY AsmAssumption DEF ListsInv
<1>3. Proper(tab) /\ Noticed(symtab, tab) /\ tab["__text"].typ # STNEW
  BY <1>2, LookNotices
<1>4. symtab' = Assign(tab, "__text", STSEC, 0, 1).tab /\ UNCHANGED errs
  BY DEF StartPass
<1> HIDE DEF t, tab
<1>5. Result(tab, t) = Assign(tab, "__text", STSEC, 0, 1)
  BY <1>1 DEF Result
<1>6. TriedFrom(tab, t)
  BY <1>1, <1>3, <1>4, <1>5, NoticedSame DEF TriedFrom, ErrorsBy
<1>7. \A n \in Names : Unmet[n] = None
  BY DEF Unmet
<1>8. Trial(t, Unmet) /\ MetRight(Unmet)
  BY <1>1, <1>2, <1>7 DEF Trial, MetTypes, MetRight, Labels
<1>9. Opening.met = MetBy(Unmet, t)
  <2>1. Opening.met = [n \in Names |-> IF n = "__text" THEN [typ |-> STSEC, val |-> 0, rel |-> 1] ELSE None]
    BY DEF Opening
  <2>2. ASSUME NEW n \in Names
        PROVE  (IF n = t.n /\ ~t.bad /\ Unmet[n] = None THEN [typ |-> t.typ, val |-> t.val, rel |-> t.rel] ELSE Unmet[n])
                 = (IF n = "__text" THEN [typ |-> STSEC, val |-> 0, rel |-> 1] ELSE None)
    BY <1>1, <1>7
  <2> QED
    BY <2>1, <2>2 DEF MetBy
<1> QED
  BY <1>1, <1>6, <1>8, <1>9 DEF Tried, t

(* A pass begins; pass 2 has a trail before it to which its opening        *)
(* belongs.                                                                *)
LEMMA StartPassPhases ==
  ASSUME AsmInv, ListsInv, PhasesInv, StartPass
  PROVE  PhasesInv'
<1>1. apc = "start" /\ apc' = "pass" /\ condlev' = 0 /\ truelev' = 0 /\ UNCHANGED <<cmd, pass2, errs>>
  BY DEF StartPass
<1> SUFFICES ASSUME SettledProgram PROVE PhasesInv'
  BY <1>1, SettledStays DEF PhasesInv
<1>2. PICK c : c = cmd
  OBVIOUS
<1>3. PICK m : m = Unmet
  OBVIOUS
<1>4. PICK t : t = TextNamed
  OBVIOUS
<1>5. StandsAt(Opening)' /\ Sane(c, Opening) /\ Led(c, Opening)
  BY <1>2, OpeningStands
<1>6. Tried(t) /\ Trial(t, m) /\ MetRight(m) /\ t.typ = STSEC /\ ~t.bad /\ Opening.met = MetBy(m, t)
  BY <1>3, <1>4, OpeningTried
<1>7. ErrorsFine
  BY DEF PhasesInv
<1>8. ErrorsFine'
  BY <1>1, <1>7 DEF ErrorsFine
<1>9. ASSUME ~pass2 PROVE Stands1(c)'
  <2>1. Known1(m)
    BY <1>1, <1>3, <1>9 DEF PhasesInv
  <2>2. Known1(MetBy(m, t))'
    BY <1>6, <1>9, <2>1, TableStep1
  <2>3. Known1(Opening.met)'
    BY <1>6, <2>2
  <2> QED
    BY <1>5, <2>3 DEF Stands1
<1>10. ASSUME pass2 PROVE Stands2(c)'
  <2>1. PICK q : Led(c, q) /\ AtEnd(c, q) /\ MetRight(q.met) /\ Known2(Unmet, q.met)
    BY <1>1, <1>2, <1>10 DEF PhasesInv, Knows2
  <2>2. PICK tr, k : Trail(c, tr, k) /\ tr[k] = q
    BY <2>1 DEF Led
  <2>3. PICK all : all = q.met
    OBVIOUS
  <2>4. 0 \in 0 .. k /\ tr[0] = Opening
    BY <2>2 DEF Trail
  <2>5. Kept(Opening.met, all)
    BY <2>2, <2>3, <2>4, TrailKept
  <2>6. Known2(m, all) /\ MetRight(all) /\ Foretold(m, t, all)
    BY <1>3, <1>6, <2>1, <2>3, <2>5 DEF Foretold, Kept
  <2>7. Known2(MetBy(m, t), all)'
    BY <1>6, <1>7, <1>10, <2>6, TableStep2
  <2>8. Known2(tr[0].met, tr[k].met)'
    BY <1>6, <2>2, <2>3, <2>4, <2>7
  <2>9. StandsAt(tr[0])' /\ Sane(c, tr[0])
    BY <1>5, <2>4
  <2>10. Trail(c, tr, k) /\ AtEnd(c, tr[k]) /\ MetRight(tr[k].met)
    BY <2>1, <2>2
  <2> QED
    BY <2>4, <2>8, <2>9, <2>10 DEF Stands2
<1>11. pass2' = pass2 /\ cmd' = c
  BY <1>1, <1>2
<1>12. IF pass2' THEN Stands2(cmd)' ELSE Stands1(cmd)'
  BY <1>9, <1>10, <1>11 DEF Stands1, Stands2
<1> QED
  BY <1>1, <1>8, <1>12 DEF PhasesInv

(* Pass 1 ends where its trail ends.                                       *)
LEMMA EndPassPhases ==
  ASSUME AsmInv, ListsInv, PhasesInv, EndPass
  PROVE  PhasesInv'
<1>1. /\ apc = "pass" /\ line > Len(cmd.src) /\ UNCHANGED <<cmd, pass2, symtab, errs>>
      /\ IF pass2 THEN apc' = "ended" ELSE apc' = "interlude"
  BY DEF EndPass
<1> SUFFICES ASSUME SettledProgram PROVE PhasesInv'
  BY <1>1, SettledStays DEF PhasesInv
<1>2. ErrorsFine'
  BY <1>1 DEF PhasesInv, ErrorsFine
<1>3. ASSUME ~pass2 PROVE Knows1(cmd)'
  <2>1. PICK q : Led(cmd, q) /\ StandsAt(q) /\ Sane(cmd, q) /\ Known1(q.met)
    BY <1>1, <1>3 DEF PhasesInv, Stands1
  <2>2. Led(cmd, q) /\ AtEnd(cmd, q) /\ MetRight(q.met)
    BY <1>1, <2>1 DEF AtEnd, StandsAt, Sane
  <2>3. Known1(q.met)'
    BY <1>1, <2>1 DEF Known1
  <2> QED
    BY <1>1, <2>2, <2>3 DEF Knows1
<1> QED
  BY <1>1, <1>2, <1>3 DEF PhasesInv

(* The interlude makes externals of names that are not defined, so that no *)
(* symbol that was met changes, and no section is new.                     *)
LEMMA InterludePhases ==
  ASSUME AsmInv, ListsInv, PhasesInv, Interlude
  PROVE  PhasesInv'
<1>1. /\ apc = "interlude" /\ apc' = "start" /\ pass2' = TRUE /\ UNCHANGED <<cmd, errs>> /\ ~pass2
  BY DEF Interlude, AsmInv, ObjectRight
<1> SUFFICES ASSUME SettledProgram PROVE PhasesInv'
  BY <1>1, SettledStays DEF PhasesInv
<1>2. ErrorsFine'
  BY <1>1 DEF PhasesInv, ErrorsFine
<1>3. PICK q : Led(cmd, q) /\ AtEnd(cmd, q) /\ MetRight(q.met) /\ Known1(q.met)
  BY <1>1 DEF PhasesInv, Knows1
<1>4. ASSUME NEW n \in Names
      PROVE  /\ IF q.met[n] = None THEN symtab'[n].typ # STSEC ELSE Agrees(symtab'[n], q.met[n])
             /\ Unmet[n] = None
             /\ symtab'[n].typ = STSEC => ~symtab'[n].dp2
  <2>1. IF q.met[n] = None THEN symtab[n].typ \in {STNEW, STUND} ELSE Agrees(symtab[n], q.met[n])
    BY <1>3 DEF Known1
  <2>2. ~symtab[n].dp2
    BY <1>1 DEF ListsInv, InPass1
  <2>3. /\ ~Numbered(n) => symtab'[n] = symtab[n]
        /\ Numbered(n) => symtab'[n].typ = STLAB
    BY InterludeNumbers DEF ListsInv
  <2>4. Numbered(n) => q.met[n] = None
    BY <1>3, <2>1 DEF Numbered, Agrees, MetRight, MetTypes, STUND, STSEC, STLAB, STVAR
  <2>5. Unmet[n] = None
    BY DEF Unmet
  <2> QED
    BY <2>1, <2>2, <2>3, <2>4, <2>5 DEF STNEW, STUND, STSEC, STLAB
<1>5. Known2(Unmet, q.met)'
  BY <1>4 DEF Known2, Agrees, Unmet
<1>6. Knows2(cmd)'
  BY <1>1, <1>3, <1>5 DEF Knows2
<1> QED
  BY <1>1, <1>2, <1>6 DEF PhasesInv

-----------------------------------------------------------------------------
(* The specification.                                                      *)
LEMMA StatementPhases ==
  ASSUME AsmInv, ListsInv, PhasesInv, Statement, ListsInv'
  PROVE  PhasesInv'
<1>1. Reading /\ UNCHANGED <<cmd, pass2>> /\ apc' \in {"pass", "exit"}
  BY StatementReads
<1> SUFFICES ASSUME SettledProgram PROVE PhasesInv'
  BY <1>1, SettledStays DEF PhasesInv
<1>2. PICK c : c = cmd
  OBVIOUS
<1>3. /\ ErrorsFine /\ condlev = 0 /\ truelev = 0 /\ IF pass2 THEN Stands2(c) ELSE Stands1(c)
  BY <1>1, <1>2 DEF PhasesInv, Reading
<1>4. condlev' = 0 /\ truelev' = 0
  BY <1>3, LevelsStay
<1>5. CASE pass2
  <2>1. ErrorsFine' /\ (Stands2(c)' \/ apc' = "exit")
    BY <1>2, <1>3, <1>5, StandsStep2
  <2>2. Stands2(c)' => Stands2(cmd)'
    BY <1>1, <1>2 DEF Stands2
  <2> QED
    BY <1>1, <1>4, <1>5, <2>1, <2>2 DEF PhasesInv
<1>6. CASE ~pass2
  <2>1. Stands1(c)' \/ apc' = "exit"
    BY <1>2, <1>3, <1>6, StandsStep1
  <2>2. Stands1(c)' => Stands1(cmd)'
    BY <1>1, <1>2 DEF Stands1
  <2>3. ErrorsFine'
    BY <1>1, <1>6 DEF ListsInv, InPass1, ErrorsFine
  <2> QED
    BY <1>1, <1>4, <1>6, <2>1, <2>2, <2>3 DEF PhasesInv
<1> QED
  BY <1>5, <1>6

(* There is no .if, so that nothing is skipped.                            *)
LEMMA NoBranches ==
  ASSUME AsmInv, ListsInv, PhasesInv, If \/ Skip
  PROVE  PhasesInv'
<1>1. Reading /\ UNCHANGED cmd
  BY DEF If, Skip, Assembling
<1> SUFFICES ASSUME SettledProgram PROVE FALSE
  BY <1>1, SettledStays DEF PhasesInv
<1>2. condlev = 0 /\ truelev = 0
  BY <1>1 DEF PhasesInv, Reading
<1>3. ~Skip
  BY <1>2 DEF Skip
<1>4. st \in Range(cmd.src)
  <2>1. cmd.src \in Seq(Statements)
    BY CommandAssumption DEF AsmInv, SourceType
  <2>2. line \in 1 .. Len(cmd.src)
    BY <1>1, <2>1 DEF AsmInv, SourceType, Reading
  <2>3. line \in DOMAIN cmd.src
    BY <2>1, <2>2
  <2> QED
    BY <2>3 DEF st, Range
<1>5. st.op # "if"
  BY <1>4 DEF SettledProgram, Settled
<1>6. ~If
  BY <1>5 DEF If, Assembling
<1> QED
  BY <1>3, <1>6

(* The invariant holds at first, and every step keeps it.                  *)
LEMMA PhasesInit == Init => PhasesInv
<1> SUFFICES ASSUME Init PROVE PhasesInv
  OBVIOUS
<1>1. apc = "start" /\ pass2 = FALSE /\ errs = {} /\ symtab = [n \in Names |-> NewSym]
  BY DEF Init, Init1
<1>2. Known1(Unmet)
  BY <1>1 DEF Known1, Unmet, NewSym
<1> QED
  BY <1>1, <1>2 DEF PhasesInv, ErrorsFine

LEMMA PhasesStep == AsmInv /\ ListsInv /\ PhasesInv /\ [Next]_vars => PhasesInv'
<1> SUFFICES ASSUME AsmInv, ListsInv, PhasesInv, [Next]_vars PROVE PhasesInv'
  OBVIOUS
<1>1. CASE Assemble
  <2>1. ListsInv'
    BY ListsStep
  <2>2. Statement \/ If \/ Skip \/ StartPass \/ EndPass \/ Interlude
    BY <1>1 DEF Assemble, Statement
  <2> QED
    BY <2>1, <2>2, StatementPhases, NoBranches, StartPassPhases, EndPassPhases, InterludePhases
<1>2. CASE UNCHANGED asmvars
  <2>1. UNCHANGED <<cmd, apc, pass2, line, argn, cursec, curloc, sectab, secct, symtab, condlev, truelev, errs>>
    BY <1>2 DEF asmvars
  <2>2. SettledProgram' <=> SettledProgram
    BY <2>1, SettledStays
  <2>3. ASSUME NEW q PROVE StandsAt(q)' <=> StandsAt(q)
    BY <2>1 DEF StandsAt
  <2>4. ASSUME NEW m PROVE Known1(m)' <=> Known1(m)
    BY <2>1 DEF Known1
  <2>5. ASSUME NEW m, NEW all PROVE Known2(m, all)' <=> Known2(m, all)
    BY <2>1 DEF Known2
  <2>6. Stands1(cmd)' <=> Stands1(cmd)
    BY <2>1, <2>3, <2>4 DEF Stands1
  <2>7. Stands2(cmd)' <=> Stands2(cmd)
    BY <2>1, <2>3, <2>5 DEF Stands2
  <2>8. Knows1(cmd)' <=> Knows1(cmd)
    BY <2>1, <2>4 DEF Knows1
  <2>9. Knows2(cmd)' <=> Knows2(cmd)
    BY <2>1, <2>5 DEF Knows2
  <2>10. Known1(Unmet)' <=> Known1(Unmet)
    BY <2>4
  <2>11. ErrorsFine' <=> ErrorsFine
    BY <2>1 DEF ErrorsFine
  <2> QED
    BY <2>1, <2>2, <2>6, <2>7, <2>8, <2>9, <2>10, <2>11 DEF PhasesInv
<1>3. Convert => UNCHANGED asmvars
  BY DEF Convert, Begin, Ignored, EndPass1, Interpass, EndPass2, Sections1, Symbols1, Text1,
         Sections2, Symbols2, Text2
<1>4. UNCHANGED vars => UNCHANGED asmvars
  BY DEF vars
<1> QED
  BY <1>1, <1>2, <1>3, <1>4 DEF Next

(* For every command line and every order of the names: a settled program  *)
(* gets no phase error in pass 2 but where an operand is in error as well. *)
(* assign() compares what pass 2 makes of a label with what pass 1 made of *)
(* it, and the two passes make the same of it.                             *)
THEOREM PhasesCorrect == Spec => []NoPhaseError
<1>1. Init => AsmInv /\ ListsInv /\ PhasesInv
  BY AsmInit, ListsInit, PhasesInit
<1>2. AsmInv /\ ListsInv /\ PhasesInv /\ [Next]_vars => AsmInv' /\ ListsInv' /\ PhasesInv'
  BY AsmStep, ListsStep, PhasesStep
<1>3. PhasesInv => NoPhaseError
  BY DEF PhasesInv, NoPhaseError, ErrorsFine, SettledProgram
<1> QED
  BY <1>1, <1>2, <1>3, PTL DEF Spec
=============================================================================
