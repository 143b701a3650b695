----------------------------- MODULE XconProofs -----------------------------
(***************************************************************************)
(* What asz8k emits is in the file that xcon makes of it, where a reader   *)
(* looks for it, as long as no section grows beyond 64 K.                  *)
(***************************************************************************)
EXTENDS Asz8kProofs

-----------------------------------------------------------------------------
(* The text blocks of the object file, and how far they come.              *)
TextIn(o) == {b \in Range(o.blks) \cup {o.cur} : b.typ = "OBTXT"}
EndOf(b) == b.adr + Len(b.txt)
EndsAt(o, s, loc) == \E b \in TextIn(o) : b.sec = s /\ EndOf(b) = loc

(* The block that is being filled ends where the next byte goes.           *)
Flows(o) ==
  /\ o \in Objects
  /\ o.cur.typ = "OBTXT" => o.nxtloc = EndOf(o.cur) /\ o.nxtsec = o.cur.sec

(* The file begins with its start block and has not come to its end.       *)
Begun(o) ==
  /\ o.blks # <<>> /\ o.blks[1] = [typ |-> "OBOST"]
  /\ \A i \in 1 .. Len(o.blks) : o.blks[i].typ # "OBOND"
  /\ o.cur.typ # "OBOND"

(* n has the text blocks of o, but for those of a section that now come to *)
(* loc at most.                                                            *)
NoFurther(o, n, sec, loc) ==
  /\ \A b \in TextIn(n) : b \in TextIn(o) \/ (b.sec = sec /\ EndOf(b) <= loc)
  /\ \A b \in TextIn(o) : b \in TextIn(n) \/ (b.sec = sec /\ EndOf(b) <= loc)
Reaches(o, n, sec, loc) ==
  /\ Flows(n) /\ n.cur.typ = "OBTXT" /\ n.nxtloc = loc /\ n.nxtsec = sec
  /\ NoFurther(o, n, sec, loc) /\ (Begun(o) => Begun(n))

LEMMA TextInType ==
  ASSUME NEW o \in Objects
  PROVE  /\ TextIn(o) \subseteq TextBlocks
         /\ \A b \in TextIn(o) : EndOf(b) \in Int /\ b.sec \in Sections
<1>1. o.blks \in Seq(Blocks) /\ o.cur \in Blocks \cup {None}
  BY DEF Objects
<1>2. Range(o.blks) \subseteq Blocks
  BY <1>1 DEF Range
<1>3. TextIn(o) \subseteq TextBlocks
  BY <1>1, <1>2, TypeTells DEF TextIn
<1>4. ASSUME NEW b \in TextBlocks PROVE EndOf(b) \in Int /\ b.sec \in Sections
  <2>1. b.adr \in Int /\ b.txt \in Seq(0 .. 255) /\ b.sec \in Sections
    BY DEF TextBlocks
  <2> QED
    BY <2>1 DEF EndOf
<1> QED
  BY <1>3, <1>4

LEMMA OflushText ==
  ASSUME NEW o, Flows(o)
  PROVE  /\ Flows(Oflush(o)) /\ Oflush(o).cur = None
         /\ TextIn(Oflush(o)) = TextIn(o) /\ (Begun(o) => Begun(Oflush(o)))
<1>1. o \in Objects /\ o.blks \in Seq(Blocks) /\ o.cur \in Blocks \cup {None}
  BY DEF Flows, Objects
<1>2. None.typ = "none"
  BY DEF None
<1>3. CASE o.cur = None
  BY <1>3 DEF Oflush
<1>4. CASE o.cur # None
  <2> DEFINE bs == Append(o.blks, o.cur)
             n == Oflush(o)
  <2>1. o.cur \in Blocks
    BY <1>1, <1>4
  <2>2. /\ bs \in Seq(Blocks) /\ Len(bs) = Len(o.blks) + 1 /\ Len(o.blks) \in Nat
        /\ \A i \in 1 .. Len(o.blks) : bs[i] = o.blks[i]
        /\ bs[Len(o.blks) + 1] = o.cur
    BY <1>1, <2>1, AppendProperties
  <2>3. n = [blks |-> bs, cur |-> None, used |-> 0, nxtloc |-> o.nxtloc, nxtsec |-> o.nxtsec]
    BY <1>1, <1>4 DEF Oflush, Objects
  <2> HIDE DEF bs, n
  <2>4. n \in Objects /\ n.cur = None /\ n.blks = bs
    BY <1>1, <2>2, <2>3 DEF Objects
  <2>5. Range(bs) = Range(o.blks) \cup {o.cur}
    <3>1. DOMAIN bs = 1 .. Len(o.blks) + 1 /\ DOMAIN o.blks = 1 .. Len(o.blks)
      BY <1>1, <2>2
    <3> QED
      BY <2>2, <3>1 DEF Range
  <2>6. TextIn(n) = TextIn(o)
    BY <1>2, <2>4, <2>5 DEF TextIn
  <2>7. Begun(o) => Begun(n)
    <3> SUFFICES ASSUME Begun(o) PROVE Begun(n)
      OBVIOUS
    <3>1. Len(o.blks) >= 1 /\ o.blks[1] = [typ |-> "OBOST"]
      BY <1>1 DEF Begun
    <3>2. bs[1] = [typ |-> "OBOST"] /\ bs # <<>>
      BY <2>2, <3>1
    <3>3. \A i \in 1 .. Len(bs) : bs[i].typ # "OBOND"
      BY <2>2 DEF Begun
    <3> QED
      BY <1>2, <2>4, <3>2, <3>3 DEF Begun
  <2>8. Flows(n)
    BY <1>2, <2>4 DEF Flows
  <2> QED
    BY <2>4, <2>6, <2>7, <2>8 DEF n
<1> QED
  BY <1>1, <1>3, <1>4

(* Setorg() and emitb() come to loc, or to the byte behind it.             *)
LEMMA SetorgText ==
  ASSUME NEW o, Flows(o), NEW sec \in Sections, NEW loc \in Int
  PROVE  Reaches(o, Setorg(o, sec, loc), sec, loc)
<1>1. CASE o.cur.typ = "OBTXT" /\ o.nxtloc = loc /\ o.nxtsec = sec
  BY <1>1 DEF Setorg, Reaches, NoFurther
<1>2. CASE ~(o.cur.typ = "OBTXT" /\ o.nxtloc = loc /\ o.nxtsec = sec)
  <2> DEFINE f == Oflush(o)
             b == [typ |-> "OBTXT", adr |-> loc, sec |-> sec, txt |-> <<>>, rel |-> <<>>]
             n == Setorg(o, sec, loc)
  <2>1. n = [f EXCEPT !.cur = b, !.used = 6, !.nxtloc = loc, !.nxtsec = sec]
    BY <1>2 DEF Setorg
  <2>2. Flows(f) /\ f.cur = None /\ TextIn(f) = TextIn(o) /\ (Begun(o) => Begun(f))
    BY OflushText
  <2>3. b \in TextBlocks /\ b.typ = "OBTXT" /\ b.sec = sec /\ EndOf(b) = loc
    BY DEF TextBlocks, EndOf
  <2> HIDE DEF f, b, n
  <2>4. f \in Objects
    BY <2>2 DEF Flows
  <2>5. n = [blks |-> f.blks, cur |-> b, used |-> 6, nxtloc |-> loc, nxtsec |-> sec]
    BY <2>1, <2>4 DEF Objects
  <2>6. n \in Objects /\ n.blks = f.blks /\ n.cur = b /\ n.nxtloc = loc /\ n.nxtsec = sec
    <3>1. b \in Blocks \cup {None} /\ f.blks \in Seq(Blocks)
      BY <2>3, <2>4 DEF Blocks, Objects
    <3> QED
      BY <2>5, <3>1 DEF Objects
  <2>7. TextIn(n) = TextIn(f) \cup {b}
    BY <2>2, <2>3, <2>6 DEF TextIn, None
  <2>8. NoFurther(o, n, sec, loc)
    BY <2>2, <2>3, <2>7 DEF NoFurther
  <2>9. Begun(f) => Begun(n)
    BY <2>3, <2>6 DEF Begun
  <2>10. Flows(n)
    BY <2>3, <2>6 DEF Flows
  <2> QED
    BY <2>2, <2>3, <2>6, <2>8, <2>9, <2>10 DEF Reaches, n
<1> QED
  BY <1>1, <1>2

LEMMA ReachOn ==
  ASSUME NEW o, NEW p, NEW n, NEW sec, NEW loc \in Int, NEW l \in Int, l <= loc,
         Flows(o), Flows(p), NoFurther(o, p, sec, l), Begun(o) => Begun(p), Reaches(p, n, sec, loc)
  PROVE  Reaches(o, n, sec, loc)
<1>1. \A b \in TextIn(o) \cup TextIn(p) : EndOf(b) \in Int
  BY TextInType DEF Flows
<1>2. NoFurther(o, n, sec, loc)
  <2>1. ASSUME NEW b \in TextIn(n) PROVE b \in TextIn(o) \/ (b.sec = sec /\ EndOf(b) <= loc)
    BY <1>1 DEF NoFurther, Reaches
  <2>2. ASSUME NEW b \in TextIn(o) PROVE b \in TextIn(n) \/ (b.sec = sec /\ EndOf(b) <= loc)
    BY <1>1 DEF NoFurther, Reaches
  <2> QED
    BY <2>1, <2>2 DEF NoFurther
<1> QED
  BY <1>2 DEF Reaches

LEMMA EmitbText ==
  ASSUME NEW o, Flows(o), NEW sec \in Sections, NEW loc \in Int, NEW b \in Bytes
  PROVE  Reaches(o, Emitb(o, sec, loc, b), sec, loc + 1)
<1> DEFINE f == IF Room(o) < Need(b) THEN Oflush(o) ELSE o
           p == Setorg(f, sec, loc)
           r == p.cur
           c == BlockWith(b, r)
           grow == IF b.rel = NoRel THEN 1 ELSE 4
           n == Emitb(o, sec, loc, b)
<1>1. Flows(f) /\ TextIn(f) = TextIn(o) /\ (Begun(o) => Begun(f))
  BY OflushText
<1> HIDE DEF f
<1>2. Reaches(f, p, sec, loc)
  BY <1>1, SetorgText
<1>3. n = [p EXCEPT !.cur.txt = Append(@, b.val), !.cur.rel = RelsWith(b, r),
                   !.used = @ + grow, !.nxtloc = loc + 1]
  BY DEF Emitb, RelsWith, f
<1> HIDE DEF p, n
<1>4. p \in Objects /\ r \in TextBlocks /\ p.used \in Int /\ p.blks \in Seq(Blocks)
      /\ p.nxtsec = sec /\ r.sec = sec /\ EndOf(r) = loc
  <2>1. p \in Objects /\ r.typ = "OBTXT" /\ p.nxtsec = sec /\ r.sec = sec /\ EndOf(r) = loc
    BY <1>2 DEF Reaches, Flows
  <2>2. p.cur \in Blocks \cup {None} /\ p.blks \in Seq(Blocks) /\ p.used \in Int
    BY <2>1 DEF Objects
  <2> QED
    BY <2>1, <2>2, TypeTells
<1>5. /\ n.blks = p.blks /\ n.nxtloc = loc + 1 /\ n.nxtsec = sec
      /\ n.cur.typ = "OBTXT" /\ n.cur.sec = r.sec /\ n.cur.adr = r.adr
      /\ n.cur.txt = Append(r.txt, b.val) /\ n.cur.rel = RelsWith(b, r)
      /\ n.cur = [typ |-> "OBTXT", adr |-> r.adr, sec |-> r.sec, txt |-> n.cur.txt, rel |-> n.cur.rel]
      /\ n = [blks |-> p.blks, cur |-> n.cur, used |-> p.used + grow, nxtloc |-> loc + 1, nxtsec |-> sec]
  <2>1. p = [blks |-> p.blks, cur |-> r, used |-> p.used, nxtloc |-> p.nxtloc, nxtsec |-> p.nxtsec]
    BY <1>4 DEF Objects
  <2>2. r = [typ |-> "OBTXT", adr |-> r.adr, sec |-> r.sec, txt |-> r.txt, rel |-> r.rel]
    BY <1>4 DEF TextBlocks
  <2> DEFINE t == Append(r.txt, b.val)
             s == RelsWith(b, r)
             d == [r EXCEPT !.txt = Append(@, b.val), !.rel = RelsWith(b, r)]
             ra == r.adr
             rs == r.sec
             rt == r.txt
             rr == r.rel
  <2>3. n = [p EXCEPT !.cur = d, !.used = @ + grow, !.nxtloc = loc + 1]
    BY <1>3, <2>1, <2>2
  <2>4. d = [r EXCEPT !.txt = t, !.rel = s]
    BY <2>2
  <2>5. d = [typ |-> "OBTXT", adr |-> ra, sec |-> rs, txt |-> t, rel |-> s]
    <3>1. r = [typ |-> "OBTXT", adr |-> ra, sec |-> rs, txt |-> rt, rel |-> rr]
      BY <2>2
    <3> HIDE DEF ra, rs, rt, rr, r, t, s, d
    <3> QED
      BY <2>4, <3>1
  <2>6. n = [blks |-> p.blks, cur |-> d, used |-> p.used + grow, nxtloc |-> loc + 1, nxtsec |-> sec]
    <3> HIDE DEF r, d, grow
    <3> QED
      BY <1>4, <2>1, <2>3
  <2>7. /\ n.blks = p.blks /\ n.nxtloc = loc + 1 /\ n.nxtsec = sec /\ n.cur = d
    <3> HIDE DEF d
    <3> QED
      BY <2>6
  <2>8. d.typ = "OBTXT" /\ d.sec = rs /\ d.adr = ra /\ d.txt = t /\ d.rel = s
    <3> HIDE DEF ra, rs, t, s, d
    <3> QED
      BY <2>5
  <2> HIDE DEF d
  <2> QED
    BY <2>5, <2>6, <2>7, <2>8
<1> HIDE DEF c, grow
<1>6. /\ n.cur \in TextBlocks /\ EndOf(n.cur) = loc + 1 /\ n \in Objects
  <2>1. b.val \in 0 .. 255 /\ r.txt \in Seq(0 .. 255) /\ r.adr \in Int /\ r.sec \in Sections
    BY <1>4 DEF Bytes, TextBlocks
  <2>2. n.cur.txt \in Seq(0 .. 255) /\ Len(n.cur.txt) = Len(r.txt) + 1 /\ Len(r.txt) \in Nat
    BY <1>5, <2>1, AppendProperties
  <2>3. EndOf(n.cur) = loc + 1
    BY <1>4, <1>5, <2>1, <2>2 DEF EndOf
  <2>4. n.cur.rel \in Seq(PlacedRelocs)
    BY <1>4, <1>5, RelsWithType
  <2> DEFINE k == n.cur
  <2>5. k = [typ |-> "OBTXT", adr |-> r.adr, sec |-> r.sec, txt |-> k.txt, rel |-> k.rel]
    BY <1>5
  <2>6. k.txt \in Seq(0 .. 255) /\ k.rel \in Seq(PlacedRelocs)
    BY <2>2, <2>4
  <2> HIDE DEF k, r
  <2>7. k \in TextBlocks
    BY <2>1, <2>5, <2>6 DEF TextBlocks
  <2>8. k \in Blocks \cup {None} /\ p.used + grow \in Int /\ loc + 1 \in Int
    BY <1>4, <2>7 DEF Blocks, grow
  <2>9. n = [blks |-> p.blks, cur |-> k, used |-> p.used + grow, nxtloc |-> loc + 1, nxtsec |-> sec]
    BY <1>5 DEF k
  <2>10. n \in Objects
    BY <1>4, <2>8, <2>9 DEF Objects
  <2> QED
    BY <2>3, <2>7, <2>10 DEF k
<1>7. Flows(n) /\ (Begun(p) => Begun(n))
  BY <1>4, <1>5, <1>6 DEF Flows, Begun
<1>8. NoFurther(f, n, sec, loc + 1)
  <2>1. TextIn(n) = {x \in Range(p.blks) : x.typ = "OBTXT"} \cup {n.cur}
    BY <1>5 DEF TextIn
  <2>2. TextIn(p) = {x \in Range(p.blks) : x.typ = "OBTXT"} \cup {r}
    BY <1>2 DEF TextIn, Reaches
  <2>3. \A x \in TextIn(p) \cup TextIn(f) : EndOf(x) \in Int
    BY <1>1, <1>4, TextInType DEF Flows
  <2>4. r.sec = sec /\ EndOf(r) <= loc + 1 /\ n.cur.sec = sec /\ EndOf(n.cur) <= loc + 1
    BY <1>4, <1>5, <1>6
  <2>5. NoFurther(f, p, sec, loc)
    BY <1>2 DEF Reaches
  <2> HIDE DEF r
  <2>6. ASSUME NEW x \in TextIn(n) PROVE x \in TextIn(f) \/ (x.sec = sec /\ EndOf(x) <= loc + 1)
    <3>1. x = n.cur \/ x \in TextIn(p)
      BY <2>1, <2>2
    <3> QED
      BY <2>3, <2>4, <2>5, <3>1 DEF NoFurther
  <2>7. ASSUME NEW x \in TextIn(f) PROVE x \in TextIn(n) \/ (x.sec = sec /\ EndOf(x) <= loc + 1)
    <3>1. x \in TextIn(p) \/ (x.sec = sec /\ EndOf(x) <= loc)
      BY <2>5 DEF NoFurther
    <3>2. x \in TextIn(p) => x = r \/ x \in TextIn(n)
      BY <2>1, <2>2
    <3> QED
      BY <2>3, <2>4, <3>1, <3>2
  <2> QED
    BY <2>6, <2>7 DEF NoFurther
<1>9. NoFurther(o, n, sec, loc + 1)
  BY <1>1, <1>8 DEF NoFurther
<1> QED
  BY <1>1, <1>2, <1>5, <1>7, <1>9 DEF Reaches, n

LEMMA EmitAllText ==
  ASSUME NEW o, Flows(o), NEW sec \in Sections, NEW loc \in Int, NEW bs \in Seq(Bytes), bs # <<>>
  PROVE  Reaches(o, EmitAll(o, sec, loc, bs), sec, loc + Len(bs))
<1> DEFINE N == Len(bs)
<1>1. N \in Nat /\ N >= 1 /\ \A i \in 1 .. N : bs[i] \in Bytes
  OBVIOUS
<1>2. PICK p : EmitRun(p, o, sec, loc, bs)
  BY <1>1, EmitAllRuns
<1>3. /\ EmitAll(o, sec, loc, bs) = p[N] /\ p[0] = o
      /\ \A i \in 1 .. N : p[i] = Emitb(p[i - 1], sec, loc + i - 1, bs[i])
  BY <1>2 DEF EmitRun
<1> HIDE DEF N
<1> DEFINE T == {i \in Nat : i + 1 <= N => Reaches(o, p[i + 1], sec, loc + i + 1)}
<1>4. ASSUME NEW i \in Nat, i + 1 <= N
      PROVE  p[i + 1] = Emitb(p[i], sec, loc + i, bs[i + 1]) /\ bs[i + 1] \in Bytes
  <2>1. i + 1 \in 1 .. N /\ (i + 1) - 1 = i /\ loc + (i + 1) - 1 = loc + i
    BY <1>1, <1>4
  <2> QED
    BY <1>1, <1>3, <2>1
<1>5. 0 \in T
  <2>1. p[1] = Emitb(o, sec, loc, bs[1]) /\ bs[1] \in Bytes
    <3>1. loc + 0 = loc /\ 0 + 1 = 1
      OBVIOUS
    <3> QED
      BY <1>1, <1>3, <1>4, <3>1
  <2>2. Reaches(o, p[1], sec, loc + 1)
    BY <2>1, EmitbText
  <2>3. loc + 0 + 1 = loc + 1 /\ 0 + 1 = 1
    OBVIOUS
  <2> QED
    BY <2>2, <2>3
<1>6. ASSUME NEW i \in Nat, i \in T PROVE i + 1 \in T
  <2> SUFFICES ASSUME i + 1 + 1 <= N PROVE Reaches(o, p[i + 1 + 1], sec, loc + (i + 1) + 1)
    OBVIOUS
  <2>1. Reaches(o, p[i + 1], sec, loc + i + 1)
    BY <1>1, <1>6
  <2> DEFINE q == p[i + 1]
             l == loc + i + 1
             n == p[i + 1 + 1]
  <2>2. n = Emitb(q, sec, l, bs[i + 1 + 1]) /\ bs[i + 1 + 1] \in Bytes
    <3>1. loc + (i + 1) = l /\ i + 1 \in Nat
      OBVIOUS
    <3> QED
      BY <1>4, <3>1
  <2>3. l \in Int /\ loc + (i + 1) + 1 = l + 1 /\ l + 1 \in Int /\ l <= l + 1
    OBVIOUS
  <2> HIDE DEF q, l, n
  <2>4. Flows(q) /\ NoFurther(o, q, sec, l) /\ (Begun(o) => Begun(q))
    BY <2>1 DEF Reaches, q, l
  <2>5. Reaches(q, n, sec, l + 1)
    BY <2>2, <2>3, <2>4, EmitbText
  <2>6. Reaches(o, n, sec, l + 1)
    BY <2>3, <2>4, <2>5, ReachOn
  <2> QED
    BY <2>3, <2>6 DEF n
<1>7. Nat \subseteq T
  <2> HIDE DEF T
  <2> QED
    BY <1>5, <1>6, NatSetInduction
<1>8. N - 1 \in Nat /\ (N - 1) + 1 = N /\ loc + (N - 1) + 1 = loc + N
  BY <1>1
<1>9. Reaches(o, p[N], sec, loc + N)
  BY <1>7, <1>8
<1> QED
  BY <1>3, <1>9 DEF N

-----------------------------------------------------------------------------
(* How far pass 2 came in a section is where a block of it ends.           *)
HighRight(o, h) ==
  /\ h \in [Sections -> Nat]
  /\ \A b \in TextIn(o) : EndOf(b) <= h[b.sec]
  /\ \A s \in Sections : h[s] = 0 \/ EndsAt(o, s, h[s])
HighAfter(h, sec, loc) == [h EXCEPT ![sec] = IF loc > @ THEN loc ELSE @]

LEMMA HighGrows ==
  ASSUME NEW o, Flows(o), NEW n, NEW h, HighRight(o, h), NEW sec \in Sections, NEW loc \in Int,
         Reaches(o, n, sec, loc)
  PROVE  HighRight(n, HighAfter(h, sec, loc))
<1> DEFINE g == HighAfter(h, sec, loc)
<1>1. h \in [Sections -> Nat]
  BY DEF HighRight
<1>2. /\ g \in [Sections -> Nat] /\ g[sec] >= loc /\ \A s \in Sections : g[s] >= h[s]
      /\ \A s \in Sections : g[s] = h[s] \/ (s = sec /\ g[s] = loc /\ loc > h[s])
  BY <1>1 DEF HighAfter
<1> HIDE DEF g
<1>3. \A b \in TextIn(o) \cup TextIn(n) : EndOf(b) \in Int /\ b.sec \in Sections
  BY TextInType DEF Flows, Reaches
<1>4. ASSUME NEW b \in TextIn(n) PROVE EndOf(b) <= g[b.sec]
  <2>1. CASE b \in TextIn(o)
    <3>1. EndOf(b) <= h[b.sec] /\ h[b.sec] \in Nat /\ g[b.sec] \in Nat /\ g[b.sec] >= h[b.sec] /\ EndOf(b) \in Int
      BY <1>1, <1>2, <1>3, <2>1 DEF HighRight
    <3> QED
      BY <3>1
  <2>2. CASE b.sec = sec /\ EndOf(b) <= loc
    <3>1. g[sec] \in Nat /\ EndOf(b) \in Int
      BY <1>2, <1>3
    <3> QED
      BY <1>2, <2>2, <3>1
  <2> QED
    BY <2>1, <2>2 DEF Reaches, NoFurther
<1>5. EndsAt(n, sec, loc)
  <2>1. n.cur \in TextIn(n) /\ n.cur.sec = sec /\ EndOf(n.cur) = loc
    BY DEF Reaches, Flows, TextIn
  <2> QED
    BY <2>1 DEF EndsAt
<1>6. ASSUME NEW s \in Sections PROVE g[s] = 0 \/ EndsAt(n, s, g[s])
  <2>1. CASE s = sec /\ g[s] = loc
    BY <1>5, <2>1
  <2>2. CASE g[s] = h[s] /\ h[s] # 0
    <3>1. PICK b \in TextIn(o) : b.sec = s /\ EndOf(b) = h[s]
      BY <2>2 DEF HighRight, EndsAt
    <3>2. CASE b \in TextIn(n)
      BY <2>2, <3>1, <3>2 DEF EndsAt
    <3>3. CASE b \notin TextIn(n)
      <4>1. s = sec /\ EndOf(b) <= loc
        BY <3>1, <3>3 DEF Reaches, NoFurther
      <4>2. g[s] = loc
        <5>1. g[s] \in Nat /\ g[s] <= loc /\ g[s] >= loc
          BY <1>2, <2>2, <3>1, <4>1
        <5> QED
          BY <5>1
      <4> QED
        BY <2>1, <4>1, <4>2
    <3> QED
      BY <3>2, <3>3
  <2> QED
    BY <1>2, <2>1, <2>2
<1> QED
  BY <1>2, <1>4, <1>6 DEF HighRight, g

(* The same blocks of text, and no place further.                          *)
LEMMA HighSame ==
  ASSUME NEW o, NEW n, TextIn(n) = TextIn(o), NEW h, HighRight(o, h)
  PROVE  HighRight(n, h)
  BY DEF HighRight, EndsAt

-----------------------------------------------------------------------------
(* The object file in the two passes.                                      *)
Complete(o) ==
  /\ Len(o.blks) >= 2 /\ o.blks[1] = [typ |-> "OBOST"] /\ o.blks[Len(o.blks)] = [typ |-> "OBOND"]
  /\ \A i \in 1 .. Len(o.blks) - 1 : o.blks[i].typ # "OBOND"
BlocksInv ==
  /\ HighRight(out, high)
  /\ ~pass2 => out.blks = <<>> /\ apc # "ended"
  /\ pass2 /\ apc # "ended" => Begun(out) /\ apc # "interlude"
  /\ apc = "ended" => Complete(out)

LEMMA OutFlows == ASSUME AsmInv PROVE Flows(out) /\ cursec \in Sections
<1>1. Good(out, 0) /\ cursec \in Sections
  BY DEF AsmInv, ObjectRight, PlacesType
<1>2. out.cur.typ = "OBTXT" => out.nxtloc = EndOf(out.cur)
  BY <1>1 DEF Good, EndOf
<1> QED
  BY <1>1, <1>2 DEF Flows, Good

LEMMA ReachesKeeps ==
  ASSUME AsmInv, BlocksInv, apc = "pass", UNCHANGED <<apc, pass2>>, NEW loc \in Int, ReachTo(loc),
         pass2 => Reaches(out, out', cursec, loc), ~pass2 => UNCHANGED out
  PROVE  BlocksInv'
<1>1. Flows(out) /\ cursec \in Sections
  BY OutFlows
<1>2. HighRight(out', high')
  <2>1. CASE pass2
    <3>1. high' = HighAfter(high, cursec, loc)
      BY <2>1 DEF ReachTo, HighAfter
    <3> QED
      BY <1>1, <2>1, <3>1, HighGrows DEF BlocksInv
  <2>2. CASE ~pass2
    <3>1. UNCHANGED <<high, out>>
      BY <2>2 DEF ReachTo
    <3> QED
      BY <3>1 DEF BlocksInv
  <2> QED
    BY <2>1, <2>2
<1>3. pass2 => Begun(out')
  BY DEF BlocksInv, Reaches
<1> QED
  BY <1>2, <1>3 DEF BlocksInv

LEMMA EmitBlocks ==
  ASSUME AsmInv, BlocksInv, apc = "pass", UNCHANGED <<apc, pass2>>, NEW loc \in Int, NEW bs, Emittable(bs),
         bs # <<>>, Emit(loc, bs)
  PROVE  BlocksInv'
<1>1. bs \in Seq(Bytes) /\ loc + Len(bs) \in Int
  BY DEF Emittable
<1>2. Flows(out) /\ cursec \in Sections
  BY OutFlows
<1>3. ReachTo(loc + Len(bs)) /\ (~pass2 => UNCHANGED out)
  BY DEF Emit
<1>4. pass2 => out' = EmitAll(out, cursec, loc, bs)
  BY DEF Emit
<1>5. pass2 => Reaches(out, out', cursec, loc + Len(bs))
  BY <1>1, <1>2, <1>4, EmitAllText
<1> QED
  BY <1>1, <1>3, <1>5, ReachesKeeps

LEMMA MoveBlocks ==
  ASSUME AsmInv, BlocksInv, apc = "pass", UNCHANGED <<apc, pass2>>, NEW loc \in Int,
         Move(loc) \/ UNCHANGED <<curloc, out, high>>
  PROVE  BlocksInv'
<1>1. CASE Move(loc)
  <2>1. Flows(out) /\ cursec \in Sections
    BY OutFlows
  <2>2. ReachTo(loc) /\ (~pass2 => UNCHANGED out) /\ (pass2 => out' = Setorg(out, cursec, loc))
    BY <1>1 DEF Move
  <2>3. pass2 => Reaches(out, out', cursec, loc)
    BY <2>1, <2>2, SetorgText
  <2> QED
    BY <2>2, <2>3, ReachesKeeps
<1>2. CASE UNCHANGED <<curloc, out, high>>
  BY <1>2 DEF BlocksInv
<1> QED
  BY <1>1, <1>2

LEMMA DataBlocks == ASSUME AsmInv, BlocksInv, Data PROVE BlocksInv'
<1>1. /\ st.op \in {"byte", "word", "long"} /\ apc = "pass"
      /\ st.lab \in Labels /\ st.args \in Seq(Operands) /\ st.args # <<>>
  BY StatementType DEF Data, Assembling, Reading, WithOperand
<1>2. st.args[argn + 1] \in Operands
  <2>1. argn \in Nat /\ (argn > 0 => argn < Len(st.args))
    BY DEF AsmInv, SourceType, st
  <2>2. Len(st.args) \in Nat /\ Len(st.args) > 0
    BY <1>1
  <2>3. argn < Len(st.args)
    BY <2>1, <2>2
  <2> QED
    BY <1>1, <2>1, <2>2, <2>3
<1>3. curloc \in Int /\ cursec \in Int
  BY DEF AsmInv, PlacesType, Sections
<1> DEFINE loc == IF argn = 0 /\ st.op # "byte" THEN Even(curloc) ELSE curloc
           a == IF argn = 0 THEN Labelled(loc, cursec) ELSE [tab |-> symtab, e |-> {}]
           x == Operand(a.tab, st.args[argn + 1], loc)
           bs == Field(st.op, x.v)
<1>4. loc \in Int
  BY <1>3 DEF Even
<1>5. a.tab \in Tables
  <2>1. Labelled(loc, cursec).tab \in Tables
    <3> HIDE DEF loc
    <3> QED
      BY <1>1, <1>3, <1>4, LabelledType
  <2>2. symtab \in Tables
    BY DEF AsmInv
  <2> QED
    BY <2>1, <2>2
<1>6. x.v \in Values
  <2> HIDE DEF a, loc
  <2> QED
    BY <1>2, <1>3, <1>4, <1>5, OperandType
<1>7. Emittable(bs) /\ bs # <<>>
  <2> HIDE DEF x
  <2>1. Emittable(bs)
    BY <1>1, <1>6, FieldType
  <2>2. Len(bs) = FieldSize(st.op, cmd.segflg)
    BY <1>1, FieldLength
  <2>3. Len(bs) # 0
    BY <1>1, <2>2 DEF FieldSize
  <2> HIDE DEF bs
  <2> QED
    BY <2>1, <2>3
<1>8. Emit(loc, bs) /\ UNCHANGED <<apc, pass2>>
  BY DEF Data
<1> HIDE DEF bs, loc
<1> QED
  BY <1>1, <1>4, <1>7, <1>8, EmitBlocks

LEMMA InstrBlocks == ASSUME AsmInv, BlocksInv, Instr PROVE BlocksInv'
<1>1. /\ apc = "pass" /\ st.lab \in Labels /\ st.args \in Seq(Operands) /\ st.args # <<>> /\ st.kind \in Kinds
  BY StatementType, Zenon DEF Instr, Assembling, Reading
<1>2. curloc \in Int /\ cursec \in Int
  BY DEF AsmInv, PlacesType, Sections
<1> DEFINE loc == Even(curloc)
           a == Labelled(loc, cursec)
           x == Operand(a.tab, st.args[1], loc)
           dist == x.v.val - loc - 2
           bs == IF st.kind = "rel8" THEN <<Byte(0, NoRel), Byte(dist \div 2, NoRel)>>
                 ELSE <<Byte(0, NoRel), Byte(0, NoRel)>> \o Field(st.kind, x.v)
<1>3. loc \in Int
  BY <1>2 DEF Even
<1>4. a.tab \in Tables
  <2> HIDE DEF loc
  <2> QED
    BY <1>1, <1>2, <1>3, LabelledType
<1>5. x.v \in Values
  <2>1. st.args[1] \in Operands
    BY <1>1, FirstOperand
  <2> HIDE DEF a, loc
  <2> QED
    BY <1>2, <1>3, <1>4, <2>1, OperandType
<1>6. Emittable(bs) /\ bs # <<>>
  <2>1. dist \div 2 \in Int
    <3>1. x.v.val \in Int
      BY <1>5 DEF Values
    <3> HIDE DEF x, loc
    <3> QED
      BY <1>3, <3>1
  <2>2. CASE st.kind = "rel8"
    <3>1. Emittable(Field("byte", x.v))
      <4> HIDE DEF x
      <4> QED
        BY <1>5, FieldType
    <3>2. Emittable(<<Byte(0, NoRel), Byte(dist \div 2, NoRel)>>)
      <4> HIDE DEF dist
      <4> QED
        BY <2>1, <3>1, InstrBytes
    <3>3. <<Byte(0, NoRel), Byte(dist \div 2, NoRel)>> # <<>>
      OBVIOUS
    <3> QED
      BY <2>2, <3>2, <3>3
  <2>3. CASE st.kind # "rel8"
    <3> DEFINE q == Field(st.kind, x.v)
               two == <<Byte(0, NoRel), Byte(0, NoRel)>>
    <3>1. Emittable(q)
      <4> HIDE DEF x
      <4> QED
        BY <1>1, <1>5, <2>3, FieldType
    <3>2. Emittable(two \o q)
      BY <3>1, InstrBytes
    <3>3. two \o q # <<>>
      <4>1. q \in Seq(Bytes)
        BY <3>1 DEF Emittable
      <4>2. Byte(0, NoRel) \in Bytes
        BY ByteType
      <4>3. two \in Seq(Bytes) /\ Len(two) = 2
        BY <4>2
      <4> HIDE DEF two, q
      <4>4. Len(two \o q) = 2 + Len(q) /\ Len(q) \in Nat
        BY <4>1, <4>3, ConcatProperties
      <4> DEFINE r == two \o q
      <4>5. Len(r) # 0
        BY <4>4
      <4> HIDE DEF r
      <4>6. r # <<>>
        BY <4>5
      <4> QED
        BY <4>6 DEF r
    <3> QED
      BY <2>3, <3>2, <3>3
  <2> QED
    BY <2>2, <2>3
<1>7. Emit(loc, bs) /\ UNCHANGED <<apc, pass2>>
  BY Zenon DEF Instr
<1> HIDE DEF bs, loc
<1> QED
  BY <1>1, <1>3, <1>6, <1>7, EmitBlocks

LEMMA AlignBlocks == ASSUME AsmInv, BlocksInv, Align PROVE BlocksInv'
<1> DEFINE t == Look(symtab, {st.lab})
           x == Operand(t, st.args[1], curloc)
           ok == x.v.rel = RBABS /\ x.v.val \in 0 .. 32
           loc == IF ok THEN -((-curloc) \div PowerOf2[x.v.val]) * PowerOf2[x.v.val] ELSE curloc
<1>1. Reading /\ apc = "pass" /\ curloc \in Int
  BY Zenon DEF Align, Assembling, Reading, AsmInv, PlacesType
<1>2. loc \in Int
  <2> HIDE DEF x
  <2> QED
    BY <1>1, AlignedType
<1>3. (Move(loc) \/ UNCHANGED <<curloc, out, high>>) /\ UNCHANGED <<apc, pass2>>
  BY Zenon DEF Align
<1> HIDE DEF loc
<1> QED
  BY <1>1, <1>2, <1>3, MoveBlocks

LEMMA BlockBlocks == ASSUME AsmInv, BlocksInv, Block PROVE BlocksInv'
<1> DEFINE a == Labelled(curloc, cursec)
           x == Operand(a.tab, st.args[1], curloc)
           loc == curloc + x.v.val
<1>1. Reading /\ st.op \in WithOperand
  BY DEF Block, Assembling, WithOperand
<1>2. symtab \in Tables
  BY DEF AsmInv
<1>3. apc = "pass" /\ st.lab \in Labels /\ curloc \in Int /\ cursec \in Int
  BY <1>1, <1>2, OperandOf
<1>4. a.tab \in Tables
  BY <1>3, LabelledType
<1>5. x.v \in Values
  <2> HIDE DEF a
  <2> QED
    BY <1>1, <1>4, OperandOf
<1>6. loc \in Int
  <2>1. x.v.val \in Int
    BY <1>5 DEF Values
  <2> HIDE DEF x
  <2> QED
    BY <1>3, <2>1
<1>7. (Move(loc) \/ UNCHANGED <<curloc, out, high>>) /\ UNCHANGED <<apc, pass2>>
  BY DEF Block
<1> HIDE DEF loc
<1> QED
  BY <1>3, <1>6, <1>7, MoveBlocks

LEMMA OrgBlocks == ASSUME AsmInv, BlocksInv, Org PROVE BlocksInv'
<1> DEFINE t == Look(symtab, {st.lab})
           x == Operand(t, st.args[1], curloc)
           loc == x.v.val
<1>1. Reading /\ st.op \in WithOperand
  BY DEF Org, Assembling, WithOperand
<1>2. t \in Tables
  BY LookType DEF AsmInv
<1>3. apc = "pass" /\ x.v \in Values
  <2> HIDE DEF t
  <2> QED
    BY <1>1, <1>2, OperandOf
<1>4. loc \in Int
  BY <1>3 DEF Values
<1>5. (Move(loc) \/ UNCHANGED <<curloc, out, high>>) /\ UNCHANGED <<apc, pass2>>
  BY DEF Org
<1> HIDE DEF loc
<1> QED
  BY <1>3, <1>4, <1>5, MoveBlocks

(* Another block than one of text; and the end of the file.                *)
LEMMA OtherText ==
  ASSUME NEW f, f.cur = None, NEW n, n.blks = f.blks, n.cur.typ \notin {"OBTXT", "OBOND"}
  PROVE  TextIn(n) = TextIn(f) /\ (Begun(f) => Begun(n))
<1>1. None.typ = "none"
  BY DEF None
<1>2. TextIn(n) = TextIn(f)
  BY <1>1 DEF TextIn
<1>3. Begun(f) => Begun(n)
  BY DEF Begun
<1> QED
  BY <1>2, <1>3

LEMMA EndBlocks == ASSUME AsmInv, BlocksInv, End PROVE BlocksInv'
<1>1. apc = "pass" /\ UNCHANGED <<apc, pass2, high>>
  BY DEF End, Assembling, Reading, history
<1>2. CASE UNCHANGED out
  BY <1>1, <1>2 DEF BlocksInv
<1>3. CASE pass2 /\ ~UNCHANGED out
  <2> DEFINE x == Operand(Look(symtab, {st.lab}), st.args[1], curloc)
             b == [typ |-> "OBTRA", val |-> x.v.val, rel |-> x.v.rel]
             o == Oflush(out)
             n == [o EXCEPT !.cur = b, !.used = 6]
  <2>1. out' = n
    BY <1>3 DEF End
  <2>2. b.typ = "OBTRA"
    OBVIOUS
  <2>3. Flows(o) /\ o.cur = None /\ TextIn(o) = TextIn(out) /\ (Begun(out) => Begun(o))
    BY OutFlows, OflushText
  <2> HIDE DEF x, b, o
  <2>4. n.blks = o.blks /\ n.cur = b
    <3>1. o \in Objects
      BY <2>3 DEF Flows
    <3> QED
      BY <3>1 DEF Objects
  <2> HIDE DEF n
  <2>5. TextIn(n) = TextIn(o) /\ (Begun(o) => Begun(n))
    BY <2>2, <2>3, <2>4, OtherText
  <2>6. HighRight(out', high)
    BY <2>1, <2>3, <2>5, HighSame DEF BlocksInv
  <2>7. Begun(out')
    BY <1>1, <1>3, <2>1, <2>3, <2>5 DEF BlocksInv
  <2> QED
    BY <1>1, <1>3, <2>6, <2>7 DEF BlocksInv
<1>4. ~pass2 => UNCHANGED out
  BY DEF End
<1> QED
  BY <1>2, <1>3, <1>4

LEMMA EndPassBlocks == ASSUME AsmInv, BlocksInv, EndPass PROVE BlocksInv'
<1>1. apc = "pass" /\ UNCHANGED <<pass2, high>>
  BY DEF EndPass, history
<1>2. CASE ~pass2
  <2>1. apc' = "interlude" /\ UNCHANGED out
    BY <1>2 DEF EndPass
  <2> QED
    BY <1>1, <1>2, <2>1 DEF BlocksInv
<1>3. CASE pass2
  <2> DEFINE b == [typ |-> "OBOND"]
             o == Oflush(out)
             n == [o EXCEPT !.cur = b]
             bs == Append(o.blks, b)
  <2>1. apc' = "ended" /\ out' = Oflush(n)
    BY <1>3 DEF EndPass
  <2>2. Flows(o) /\ o.cur = None /\ TextIn(o) = TextIn(out) /\ (Begun(out) => Begun(o))
    BY OutFlows, OflushText
  <2>3. b.typ = "OBOND" /\ b \in Blocks
    BY DEF Blocks, OtherBlocks
  <2> HIDE DEF o, b
  <2>4. o \in Objects /\ o.blks \in Seq(Blocks)
    BY <2>2 DEF Flows, Objects
  <2>5. n.blks = o.blks /\ n.cur = b /\ n = [blks |-> o.blks, cur |-> b, used |-> o.used, nxtloc |-> o.nxtloc, nxtsec |-> o.nxtsec]
    BY <2>4 DEF Objects
  <2> HIDE DEF n
  <2>6. Oflush(n) = [n EXCEPT !.blks = Append(@, b), !.cur = None, !.used = 0]
    BY <2>3, <2>5 DEF Oflush, None
  <2>7. out'.blks = bs /\ out'.cur = None
    <3> HIDE DEF bs
    <3> QED
      BY <2>1, <2>5, <2>6 DEF bs
  <2>8. Begun(o)
    BY <1>1, <1>3, <2>2 DEF BlocksInv
  <2>9. /\ Len(bs) = Len(o.blks) + 1 /\ Len(o.blks) \in Nat
        /\ \A i \in 1 .. Len(o.blks) : bs[i] = o.blks[i]
        /\ bs[Len(o.blks) + 1] = b /\ bs \in Seq(Blocks)
    BY <2>3, <2>4, AppendProperties
  <2> HIDE DEF bs
  <2>10. Range(bs) = Range(o.blks) \cup {b}
    <3>1. DOMAIN bs = 1 .. Len(o.blks) + 1 /\ DOMAIN o.blks = 1 .. Len(o.blks)
      BY <2>4, <2>9
    <3> QED
      BY <2>9, <3>1 DEF Range
  <2>11. TextIn(out') = TextIn(o)
    BY <2>2, <2>3, <2>7, <2>10 DEF TextIn, None
  <2>12. Complete(out')
    <3>1. Len(o.blks) >= 1
      BY <2>4, <2>8 DEF Begun
    <3>2. \A i \in 1 .. Len(o.blks) : bs[i].typ # "OBOND"
      BY <2>8, <2>9 DEF Begun
    <3>3. Len(bs) - 1 = Len(o.blks) /\ Len(bs) >= 2
      BY <2>9, <3>1
    <3>4. bs[1] = [typ |-> "OBOST"]
      BY <2>8, <2>9, <3>1 DEF Begun
    <3>5. bs[Len(bs)] = b
      BY <2>9
    <3> QED
      BY <2>7, <3>2, <3>3, <3>4, <3>5 DEF Complete, b
  <2>13. HighRight(out', high)
    BY <2>2, <2>11, HighSame DEF BlocksInv
  <2> QED
    BY <1>1, <1>3, <2>1, <2>12, <2>13 DEF BlocksInv
<1> QED
  BY <1>2, <1>3 DEF AsmInv, SourceType

LEMMA PutItemText ==
  ASSUME NEW o, Good(o, 0), Begun(o), TextIn(o) = {}, NEW typ \in ListTypes, NEW item \in ListItems
  PROVE  LET n == PutItem(o, typ, item) IN Begun(n) /\ TextIn(n) = {}
<1> DEFINE q == IF o.cur.typ # typ \/ Room(o) < ITEM
                THEN [Oflush(o) EXCEPT !.cur = [typ |-> typ, items |-> <<>>]] ELSE o
           n == PutItem(o, typ, item)
<1>1. /\ q.cur.typ = typ /\ (q = o \/ q.blks = Oflush(o).blks) /\ n.blks = q.blks
      /\ n.cur = [typ |-> typ, items |-> Append(q.cur.items, item)]
  BY PutItemIs
<1> HIDE DEF q, n
<1>2. n.cur.typ = typ /\ typ \notin {"OBTXT", "OBOND", "none"}
  BY <1>1 DEF ListTypes
<1>3. Flows(o)
  BY DEF Flows, Good, EndOf
<1>4. CASE q = o
  <2>1. TextIn(n) = {}
    BY <1>1, <1>2, <1>4 DEF TextIn
  <2>2. Begun(n)
    BY <1>1, <1>2, <1>4 DEF Begun
  <2> QED
    BY <2>1, <2>2 DEF n
<1>5. CASE q.blks = Oflush(o).blks
  <2>1. Oflush(o).cur = None /\ TextIn(Oflush(o)) = {} /\ Begun(Oflush(o))
    BY <1>3, OflushText
  <2>2. TextIn(n) = {} /\ Begun(n)
    <3> DEFINE f == Oflush(o)
    <3>1. f.cur = None /\ n.blks = f.blks /\ TextIn(f) = {} /\ Begun(f)
      BY <1>1, <1>5, <2>1
    <3> HIDE DEF f
    <3> QED
      BY <1>2, <3>1, OtherText
  <2> QED
    BY <2>2 DEF n
<1> QED
  BY <1>1, <1>4, <1>5

LEMMA PutAllText ==
  ASSUME NEW o, Good(o, 0), Begun(o), TextIn(o) = {}, NEW list \in Seq(ToList)
  PROVE  Begun(PutAll(o, list)) /\ TextIn(PutAll(o, list)) = {}
<1> DEFINE N == Len(list)
<1>1. N \in Nat
  OBVIOUS
<1>2. PICK p : /\ PutAll(o, list) = p[N] /\ p[0] = o
               /\ \A i \in 1 .. N :
                    p[i] = IF list[i] = None THEN p[i - 1] ELSE PutItem(p[i - 1], list[i].typ, list[i].item)
  BY <1>1, PutAllRuns
<1> DEFINE T == {i \in Nat : i <= N => Good(p[i], 0) /\ Begun(p[i]) /\ TextIn(p[i]) = {}}
<1>3. 0 \in T
  BY <1>2
<1>4. ASSUME NEW i \in Nat, i \in T PROVE i + 1 \in T
  <2> SUFFICES ASSUME i + 1 <= N PROVE Good(p[i + 1], 0) /\ Begun(p[i + 1]) /\ TextIn(p[i + 1]) = {}
    OBVIOUS
  <2>1. i + 1 \in 1 .. N /\ list[i + 1] \in ToList /\ (i + 1) - 1 = i
    BY <1>1
  <2>2. Good(p[i], 0) /\ Begun(p[i]) /\ TextIn(p[i]) = {}
    BY <1>1, <1>4
  <2>3. CASE list[i + 1] = None
    BY <1>2, <2>1, <2>2, <2>3
  <2>4. CASE list[i + 1] # None
    <3>1. list[i + 1].typ \in ListTypes /\ list[i + 1].item \in ListItems
      BY <2>1, <2>4 DEF ToList
    <3>2. p[i + 1] = PutItem(p[i], list[i + 1].typ, list[i + 1].item)
      BY <1>2, <2>1, <2>4
    <3> QED
      BY <2>2, <3>1, <3>2, PutItemGood, PutItemText
  <2> QED
    BY <2>3, <2>4
<1>5. Nat \subseteq T
  <2> HIDE DEF T
  <2> QED
    BY <1>3, <1>4, NatSetInduction
<1>6. N \in T
  BY <1>1, <1>5
<1>7. Begun(p[N]) /\ TextIn(p[N]) = {}
  BY <1>1, <1>6
<1> QED
  BY <1>2, <1>7

LEMMA InterludeBlocks == ASSUME AsmInv, BlocksInv, Interlude PROVE BlocksInv'
<1>1. apc = "interlude" /\ apc' = "start" /\ pass2' = TRUE /\ UNCHANGED high
  BY Zenon DEF Interlude, history
<1>2. ~pass2 /\ out.cur = None /\ out.blks = <<>> /\ Good(out, 0)
  BY <1>1 DEF AsmInv, ObjectRight, BlocksInv
<1> DEFINE b == [typ |-> "OBOST"]
           n == [out EXCEPT !.cur = b]
           list == SectionList \o SymbolList
<1>3. Opened.blks = <<b>> /\ Opened.cur = None
  <2>1. out \in Objects
    BY <1>2 DEF Good
  <2>2. b.typ = "OBOST" /\ Append(<<>>, b) = <<b>>
    OBVIOUS
  <2> HIDE DEF b
  <2>3. n.blks = <<>> /\ n.cur = b /\ n = [blks |-> <<>>, cur |-> b, used |-> n.used, nxtloc |-> n.nxtloc, nxtsec |-> n.nxtsec]
    BY <1>2, <2>1 DEF Objects
  <2>4. Opened = Oflush(n)
    BY DEF Opened, b
  <2> HIDE DEF n
  <2>5. Opened = [n EXCEPT !.blks = Append(@, b), !.cur = None, !.used = 0]
    BY <2>2, <2>3, <2>4 DEF Oflush, None
  <2> DEFINE bs == <<b>>
  <2>6. Opened = [n EXCEPT !.blks = bs, !.cur = None, !.used = 0]
    BY <2>2, <2>3, <2>5
  <2> HIDE DEF bs
  <2>7. Opened.blks = bs /\ Opened.cur = None
    BY <2>3, <2>6
  <2> QED
    BY <2>7 DEF bs
<1>4. Begun(Opened) /\ TextIn(Opened) = {}
  <2>1. <<b>> # <<>> /\ <<b>>[1] = b /\ Len(<<b>>) = 1 /\ Range(<<b>>) = {b} /\ b.typ = "OBOST" /\ None.typ = "none"
    BY DEF Range, None
  <2>2. Begun(Opened)
    <3>1. \A i \in 1 .. Len(<<b>>) : <<b>>[i].typ # "OBOND"
      BY <2>1
    <3> QED
      BY <1>3, <2>1, <3>1 DEF Begun
  <2> QED
    BY <1>3, <2>1, <2>2 DEF TextIn
<1>5. Good(Opened, 0)
  BY <1>1, InterludeOpens
<1>6. out' = PutAll(Opened, list)
  BY Zenon DEF Interlude, Opened
<1>7. list \in Seq(ToList)
  BY ListsType, ConcatProperties DEF AsmInv
<1> HIDE DEF list
<1>8. Begun(out') /\ TextIn(out') = {}
  BY <1>4, <1>5, <1>6, <1>7, PutAllText
<1>9. TextIn(out) = {}
  <2>1. Range(out.blks) = {} /\ None.typ = "none"
    BY <1>2 DEF Range, None
  <2> QED
    BY <1>2, <2>1 DEF TextIn
<1>10. HighRight(out', high')
  BY <1>1, <1>8, <1>9, HighSame DEF BlocksInv
<1> QED
  BY <1>1, <1>8, <1>10 DEF BlocksInv

LEMMA BlocksInit == Init => BlocksInv
<1> SUFFICES ASSUME Init PROVE BlocksInv
  OBVIOUS
<1>1. /\ out.blks = <<>> /\ out.cur = None /\ apc = "start" /\ pass2 = FALSE
      /\ high = [s \in 0 .. SECSIZ - 1 |-> 0]
  BY DEF Init, Init1
<1>2. TextIn(out) = {}
  <2>1. Range(out.blks) = {} /\ None.typ = "none"
    BY <1>1 DEF Range, None
  <2> QED
    BY <1>1, <2>1 DEF TextIn
<1>3. HighRight(out, high)
  BY <1>1, <1>2 DEF HighRight, Sections
<1> QED
  BY <1>1, <1>3 DEF BlocksInv

LEMMA BlocksStep == AsmInv /\ BlocksInv /\ [Next]_vars => BlocksInv'
<1> SUFFICES ASSUME AsmInv, BlocksInv, [Next]_vars PROVE BlocksInv'
  OBVIOUS
<1>1. CASE Assemble
  <2>1. CASE Label \/ Abs \/ SectNoLabel \/ SectOld \/ SectNew \/ Global \/ Equ \/ If \/ Else \/ Endif \/ Skip
    <3>1. UNCHANGED <<pass2, out, high>> /\ (UNCHANGED apc \/ (apc = "pass" /\ apc' = "exit"))
      BY <2>1, Zenon DEF Label, Abs, SectNoLabel, SectOld, SectNew, Global, Equ, If, Else, Endif, Skip, history,
                  Assembling, Reading
    <3> QED
      BY <3>1 DEF BlocksInv
  <2>2. CASE StartPass
    <3>1. UNCHANGED <<pass2, out, high>> /\ apc = "start" /\ apc' = "pass"
      BY <2>2 DEF StartPass, history
    <3> QED
      BY <3>1 DEF BlocksInv
  <2> QED
    BY <1>1, <2>1, <2>2, InterludeBlocks, EndPassBlocks, EndBlocks, DataBlocks, InstrBlocks, AlignBlocks,
       BlockBlocks, OrgBlocks DEF Assemble
<1>2. CASE UNCHANGED asmvars
  BY <1>2 DEF asmvars, BlocksInv
<1>3. Convert => UNCHANGED asmvars
  BY DEF Convert, Begin, Ignored, EndPass1, Interpass, EndPass2, Sections1, Symbols1, Text1,
         Sections2, Symbols2, Text2
<1>4. UNCHANGED vars => UNCHANGED asmvars
  BY DEF vars
<1> QED
  BY <1>1, <1>2, <1>3, <1>4 DEF Next

-----------------------------------------------------------------------------
(* xcon: it reads the object file, all of whose blocks it gets to (see     *)
(* AllIn), and copies the text so far, TextTo, in place by place.          *)
LastBlk == Len(out.blks)
Prefix(k) == SubSeq(out.blks, 1, k)
SecsIn(k) == Len(ItemsIn(Prefix(k), "OBSEC"))
TextTo(k) == ReadBlocks(Prefix(k))

(* Every block of text begins and ends below 64 K.                         *)
AddressesFit ==
  \A b \in Range(out.blks) : b.typ = "OBTXT" => b.adr \in 0 .. W - 1 /\ b.adr + Len(b.txt) < W

(* The layout, of a table of segments.                                     *)
SegTypes == {"COD", "CON", "DAT", "BSS", "UND"}
SegTabs == [Sections -> [typ : SegTypes, len : Nat]]
Stored(tab, s) == tab[s].typ \notin {"BSS", "STK"}
PlaceIn(tab, s) == IF Stored(tab, s) THEN tab[s].len ELSE 0
Sum(tab, n) ==
  LET sum[i \in 0 .. n] == IF i = 0 THEN 0 ELSE sum[i - 1] + PlaceIn(tab, i - 1) IN sum[n]

Segs == 1 + SecsIn(LastBlk - 1)    \* header.x_nseg at the end of a pass
Base == XHSIZ + (Segs - 1) * SGSIZ
Behind == Base + Sum(segtab, Segs)

(* A segment is as long as the text blocks so far come.                    *)
TextAt(k, s) == out.blks[k].typ = "OBTXT" /\ out.blks[k].sec = s
EndedBy(k, s, loc) == \E i \in 1 .. k : TextAt(i, s) /\ EndOf(out.blks[i]) = loc
LengthsRight(k) ==
  \A s \in Sections :
    /\ \A i \in 1 .. k : TextAt(i, s) => EndOf(out.blks[i]) <= segtab[s].len
    /\ segtab[s].len = 0 \/ EndedBy(k, s, segtab[s].len)

(* The text so far is in the file.                                         *)
EntryPlaced(e) == e.sec \in 1 .. Segs - 1 /\ Stored(segtab, e.sec)
Superseded(p, i) == \E j \in 1 .. Len(p) : j > i /\ p[j].sec = p[i].sec /\ p[j].loc = p[i].loc
Written(f, off, v) == off \in DOMAIN f /\ f[off] = [of |-> [text |-> v], byte |-> 0]
EntriesIn(p) == \A i \in 1 .. Len(p) : p[i].loc \in 0 .. segtab[p[i].sec].len - 1
AllPlaced(p) == \A i \in 1 .. Len(p) : EntryPlaced(p[i])
InFileOf(p, f) ==
  \A i \in 1 .. Len(p) : Superseded(p, i) \/ Written(f, segoff[p[i].sec] + p[i].loc, p[i].val)

XconType ==
  /\ segtab \in SegTabs /\ segtab[0].typ = "BSS" /\ nseg \in Nat \ {0} /\ xpass2 \in BOOLEAN
  /\ header = [seg |-> header.seg, exec |-> header.exec, init |-> header.init,
               reloc |-> header.reloc, symb |-> header.symb]
  /\ header.reloc \in Nat
XconReads ==
  /\ xpc = "asz8k" => ~xpass2 /\ \A s \in Sections : segtab[s].len = 0
  /\ xpc # "asz8k" => apc = "ended" /\ Segs <= SECSIZ
  /\ xpc \in {"pass", "interlude", "done"} =>
       /\ objpt \in 2 .. LastBlk /\ nseg = 1 + SecsIn(objpt - 1)
       /\ AddressesFit => LengthsRight(IF xpass2 THEN LastBlk - 1 ELSE objpt - 1)
  /\ xpc \in {"interlude", "done"} => objpt = LastBlk /\ (xpass2 <=> xpc = "done")
XconWrites ==
  xpass2 /\ xpc # "ferr" =>
    /\ segoff = [s \in Sections |-> IF s < Segs THEN Base + Sum(segtab, s) ELSE 0]
    /\ reloff \in Int /\ symoff \in Int /\ reloff >= Behind /\ symoff >= Behind
    /\ AddressesFit => /\ EntriesIn(TextTo(objpt - 1))
                       /\ AllPlaced(TextTo(objpt - 1)) => InFileOf(TextTo(objpt - 1), file)
XconInv == XconType /\ XconReads /\ XconWrites

-----------------------------------------------------------------------------
(* Adding up the segments.                                                 *)
SumRun(p, tab, n) == p[0] = 0 /\ \A i \in 1 .. n : p[i] = p[i - 1] + PlaceIn(tab, i - 1)

LEMMA SumRuns ==
  ASSUME NEW tab, NEW n \in Nat
  PROVE  \E p : SumRun(p, tab, n) /\ Sum(tab, n) = p[n]
<1> DEFINE Run(p, m) == p = [i \in 0 .. m |-> IF i = 0 THEN 0 ELSE p[i - 1] + PlaceIn(tab, i - 1)]
           T == {m \in Nat : \E p : Run(p, m)}
<1>1. 0 \in T
  <2> DEFINE p == [i \in 0 .. 0 |-> 0]
  <2>1. p = [i \in 0 .. 0 |-> IF i = 0 THEN 0 ELSE p[i - 1] + PlaceIn(tab, i - 1)]
    OBVIOUS
  <2> HIDE DEF p
  <2> QED
    BY <2>1
<1>2. ASSUME NEW m \in Nat, m \in T PROVE m + 1 \in T
  <2>1. PICK p : Run(p, m)
    BY <1>2
  <2> DEFINE new == p[m] + PlaceIn(tab, m)
             q == [i \in 0 .. m + 1 |-> IF i = m + 1 THEN new ELSE p[i]]
  <2>2. ASSUME NEW i \in 0 .. m + 1
        PROVE  q[i] = IF i = 0 THEN 0 ELSE q[i - 1] + PlaceIn(tab, i - 1)
    <3>1. CASE i = m + 1
      <4>1. q[i] = new /\ q[i - 1] = p[m] /\ i # 0 /\ i - 1 = m
        <5> HIDE DEF new
        <5> QED
          BY <3>1
      <4> QED
        BY <3>1, <4>1
    <3>2. CASE i # m + 1
      <4>1. i \in 0 .. m /\ q[i] = p[i] /\ (i # 0 => q[i - 1] = p[i - 1])
        <5> HIDE DEF new
        <5> QED
          BY <3>2
      <4>2. p[i] = IF i = 0 THEN 0 ELSE p[i - 1] + PlaceIn(tab, i - 1)
        BY <2>1, <4>1
      <4> QED
        BY <4>1, <4>2
    <3> QED
      BY <3>1, <3>2
  <2>3. q = [i \in 0 .. m + 1 |-> q[i]]
    OBVIOUS
  <2> HIDE DEF q
  <2>4. Run(q, m + 1)
    BY <2>2, <2>3
  <2> HIDE DEF Run
  <2> QED
    BY <2>4
<1>3. Nat \subseteq T
  <2> HIDE DEF T
  <2> QED
    BY <1>1, <1>2, NatSetInduction
<1> DEFINE p == CHOOSE p : Run(p, n)
<1>4. Run(p, n)
  <2>1. \E x : Run(x, n)
    BY <1>3
  <2> HIDE DEF Run
  <2> QED
    BY <2>1
<1>5. Sum(tab, n) = p[n]
  BY DEF Sum
<1> HIDE DEF p
<1>6. SumRun(p, tab, n)
  BY <1>4 DEF SumRun
<1> QED
  BY <1>5, <1>6

LEMMA SumRunsMeet ==
  ASSUME NEW tab, NEW p, NEW q, NEW n \in Nat, NEW m \in Nat, SumRun(p, tab, n), SumRun(q, tab, m), n <= m
  PROVE  p[n] = q[n]
<1> DEFINE T == {i \in Nat : i <= n => p[i] = q[i]}
<1>1. 0 \in T
  BY DEF SumRun
<1>2. ASSUME NEW i \in Nat, i \in T PROVE i + 1 \in T
  <2> SUFFICES ASSUME i + 1 <= n PROVE p[i + 1] = q[i + 1]
    OBVIOUS
  <2>1. i + 1 \in 1 .. n /\ i + 1 \in 1 .. m /\ (i + 1) - 1 = i
    OBVIOUS
  <2>2. p[i + 1] = p[i] + PlaceIn(tab, i) /\ q[i + 1] = q[i] + PlaceIn(tab, i)
    BY <2>1 DEF SumRun
  <2>3. p[i] = q[i]
    BY <1>2
  <2> QED
    BY <2>2, <2>3
<1>3. Nat \subseteq T
  <2> HIDE DEF T
  <2> QED
    BY <1>1, <1>2, NatSetInduction
<1> QED
  BY <1>3

LEMMA SumIs ==
  ASSUME NEW tab
  PROVE  Sum(tab, 0) = 0 /\ \A n \in Nat : Sum(tab, n + 1) = Sum(tab, n) + PlaceIn(tab, n)
<1>1. Sum(tab, 0) = 0
  <2>1. PICK p : SumRun(p, tab, 0) /\ Sum(tab, 0) = p[0]
    BY SumRuns
  <2> QED
    BY <2>1 DEF SumRun
<1>2. ASSUME NEW n \in Nat PROVE Sum(tab, n + 1) = Sum(tab, n) + PlaceIn(tab, n)
  <2>1. PICK p : SumRun(p, tab, n) /\ Sum(tab, n) = p[n]
    BY SumRuns
  <2>2. n + 1 \in Nat
    OBVIOUS
  <2>3. PICK q : SumRun(q, tab, n + 1) /\ Sum(tab, n + 1) = q[n + 1]
    BY <2>2, SumRuns
  <2>4. q[n + 1] = q[n] + PlaceIn(tab, n)
    <3>1. n + 1 \in 1 .. n + 1 /\ (n + 1) - 1 = n
      OBVIOUS
    <3> QED
      BY <2>3, <3>1 DEF SumRun
  <2>5. p[n] = q[n]
    <3> DEFINE m == n + 1
    <3>1. m \in Nat /\ n <= m
      BY <2>2
    <3>2. SumRun(q, tab, m)
      BY <2>3
    <3> HIDE DEF m
    <3> QED
      BY <2>1, <3>1, <3>2, SumRunsMeet
  <2> QED
    BY <2>1, <2>3, <2>4, <2>5
<1> QED
  BY <1>1, <1>2

(* A segment ends where the next one begins, or before it.                 *)
LEMMA SumGrows ==
  ASSUME NEW tab \in SegTabs, NEW n \in 0 .. SECSIZ
  PROVE  /\ Sum(tab, n) \in Nat
         /\ \A s \in Sections : PlaceIn(tab, s) \in Nat
         /\ \A s \in 0 .. n - 1 : Sum(tab, s) \in Nat /\ Sum(tab, s) + PlaceIn(tab, s) <= Sum(tab, n)
<1>1. \A s \in Sections : PlaceIn(tab, s) \in Nat
  BY DEF PlaceIn, SegTabs
<1>2. SECSIZ \in Nat
  BY AsmAssumption DEF RBUND
<1> DEFINE T == {i \in Nat : i <= SECSIZ =>
                   /\ Sum(tab, i) \in Nat
                   /\ \A s \in 0 .. i - 1 : Sum(tab, s) \in Nat /\ Sum(tab, s) + PlaceIn(tab, s) <= Sum(tab, i)}
<1>3. 0 \in T
  <2>1. Sum(tab, 0) \in Nat /\ 0 .. 0 - 1 = {}
    BY SumIs
  <2> QED
    BY <2>1
<1>4. ASSUME NEW i \in Nat, i \in T PROVE i + 1 \in T
  <2> SUFFICES ASSUME i + 1 <= SECSIZ
               PROVE  /\ Sum(tab, i + 1) \in Nat
                      /\ \A s \in 0 .. (i + 1) - 1 :
                           Sum(tab, s) \in Nat /\ Sum(tab, s) + PlaceIn(tab, s) <= Sum(tab, i + 1)
    OBVIOUS
  <2>1. Sum(tab, i) \in Nat /\ \A s \in 0 .. i - 1 : Sum(tab, s) \in Nat /\ Sum(tab, s) + PlaceIn(tab, s) <= Sum(tab, i)
    BY <1>2, <1>4
  <2>2. Sum(tab, i + 1) = Sum(tab, i) + PlaceIn(tab, i)
    BY SumIs
  <2>3. i \in Sections /\ PlaceIn(tab, i) \in Nat
    BY <1>1, <1>2 DEF Sections
  <2>4. ASSUME NEW s \in 0 .. (i + 1) - 1
        PROVE  Sum(tab, s) \in Nat /\ Sum(tab, s) + PlaceIn(tab, s) <= Sum(tab, i + 1)
    <3>1. CASE s = i
      BY <2>1, <2>2, <2>3, <3>1
    <3>2. CASE s # i
      <4>1. s \in 0 .. i - 1 /\ s \in Sections
        BY <1>2, <3>2 DEF Sections
      <4>2. Sum(tab, s) \in Nat /\ PlaceIn(tab, s) \in Nat /\ Sum(tab, s) + PlaceIn(tab, s) <= Sum(tab, i)
        BY <1>1, <2>1, <4>1
      <4> QED
        BY <2>1, <2>2, <2>3, <4>2
    <3> QED
      BY <3>1, <3>2
  <2> QED
    BY <2>1, <2>2, <2>3, <2>4
<1>5. Nat \subseteq T
  <2> HIDE DEF T
  <2> QED
    BY <1>3, <1>4, NatSetInduction
<1>6. n \in Nat /\ n <= SECSIZ /\ n \in T
  BY <1>2, <1>5
<1> QED
  BY <1>1, <1>6

(* xcon's sum, and the places at which a reader looks for the segments.    *)
LEMMA SumsAgree == ASSUME NEW n PROVE SumPlaces(n) = Sum(segtab, n)
  BY DEF SumPlaces, Sum, Place, PlaceIn, InFile, Stored

-----------------------------------------------------------------------------
(* What is written, and what it leaves alone.                              *)
LEMMA PutBelow ==
  ASSUME NEW f, NEW off \in Int, NEW size \in Nat, NEW es, Len(es) \in Nat, NEW at \in Int, at < off, NEW v,
         Written(f, at, v)
  PROVE  Written(Put(f, off, size, es), at, v)
<1> DEFINE D == off .. off + size * Len(es) - 1
<1>1. at \notin D
  OBVIOUS
<1> QED
  BY <1>1 DEF Put, Written

LEMMA PutText ==
  ASSUME NEW f, NEW off \in Int, NEW txt \in Seq(0 .. 255), NEW at \in Int
  PROVE  LET g == Put(f, off, 1, [i \in DOMAIN txt |-> [text |-> txt[i]]]) IN
         /\ at \in off .. off + Len(txt) - 1 => Written(g, at, txt[at - off + 1])
         /\ \A v : at \notin off .. off + Len(txt) - 1 /\ Written(f, at, v) => Written(g, at, v)
<1> DEFINE es == [i \in DOMAIN txt |-> [text |-> txt[i]]]
           g == Put(f, off, 1, es)
           D == off .. off + Len(txt) - 1
<1>1. Len(txt) \in Nat /\ DOMAIN txt = 1 .. Len(txt) /\ Len(es) = Len(txt)
  OBVIOUS
<1>2. /\ DOMAIN g = D \cup DOMAIN f
      /\ \A o \in D : g[o] = [of |-> es[(o - off) \div 1 + 1], byte |-> (o - off) % 1]
      /\ \A o \in DOMAIN f \ D : g[o] = f[o]
  <2>1. off + 1 * Len(es) - 1 = off + Len(txt) - 1
    BY <1>1
  <2> HIDE DEF es
  <2> QED
    BY <2>1 DEF Put
<1>3. ASSUME at \in D PROVE Written(g, at, txt[at - off + 1])
  <2>1. (at - off) \div 1 = at - off /\ (at - off) % 1 = 0
    OBVIOUS
  <2>2. at - off + 1 \in DOMAIN txt
    BY <1>1, <1>3
  <2>3. es[at - off + 1] = [text |-> txt[at - off + 1]]
    BY <2>2
  <2> HIDE DEF es, g
  <2> QED
    BY <1>2, <1>3, <2>1, <2>3 DEF Written
<1>4. ASSUME NEW v, at \notin D, Written(f, at, v) PROVE Written(g, at, v)
  <2> HIDE DEF es, g
  <2> QED
    BY <1>2, <1>4 DEF Written
<1> QED
  BY <1>3, <1>4

(* A reader finds the segment where pass 2 puts it.                        *)
LEMMA ReaderFinds ==
  ASSUME segtab \in SegTabs, segtab[0].typ = "BSS", nseg \in Nat, NEW s \in 1 .. SECSIZ - 1
  PROVE  SegmentAt(s) = SegmentsAt + Sum(segtab, s)
<1> DEFINE A == SegmentsAt
           Run(p) == p = [t \in 1 .. s |-> IF t = 1 THEN A ELSE p[t - 1] + PlaceIn(segtab, t - 1)]
           p == CHOOSE p : Run(p)
           q == [t \in 1 .. s |-> A + Sum(segtab, t)]
<1>1. A \in Int /\ SECSIZ \in Nat
  BY AsmAssumption DEF SegmentsAt, XHSIZ, SGSIZ, RBUND
<1>2. SegmentAt(s) = p[s]
  BY DEF SegmentAt, PlaceIn, InFile, Stored
<1> HIDE DEF A
<1>3. \A t \in 0 .. SECSIZ : Sum(segtab, t) \in Nat
  BY SumGrows
<1>4. Sum(segtab, 1) = 0
  <2>1. Sum(segtab, 0 + 1) = 0 + PlaceIn(segtab, 0) /\ 0 + 1 = 1
    BY SumIs
  <2>2. PlaceIn(segtab, 0) = 0
    BY DEF PlaceIn, Stored
  <2> QED
    BY <2>1, <2>2
<1>5. ASSUME NEW t \in Nat, t \in 2 .. s
      PROVE  A + Sum(segtab, t) = A + Sum(segtab, t - 1) + PlaceIn(segtab, t - 1)
  <2>1. t - 1 \in Nat /\ (t - 1) + 1 = t /\ t - 1 \in 0 .. SECSIZ /\ t - 1 \in Sections
    BY <1>1, <1>5 DEF Sections
  <2>2. Sum(segtab, (t - 1) + 1) = Sum(segtab, t - 1) + PlaceIn(segtab, t - 1)
    BY <2>1, SumIs
  <2>3. Sum(segtab, t - 1) \in Nat /\ PlaceIn(segtab, t - 1) \in Nat
    BY <1>3, <2>1 DEF PlaceIn, SegTabs
  <2> QED
    BY <1>1, <2>1, <2>2, <2>3
<1>6. Run(q)
  <2>1. ASSUME NEW t \in 1 .. s PROVE q[t] = IF t = 1 THEN A ELSE q[t - 1] + PlaceIn(segtab, t - 1)
    <3>1. CASE t = 1
      BY <1>1, <1>4, <3>1
    <3>2. CASE t # 1
      <4>1. t \in Nat /\ t \in 2 .. s /\ t - 1 \in 1 .. s
        BY <3>2
      <4> QED
        BY <1>5, <3>2, <4>1
    <3> QED
      BY <3>1, <3>2
  <2>2. q = [t \in 1 .. s |-> q[t]]
    OBVIOUS
  <2> HIDE DEF q
  <2> QED
    BY <2>1, <2>2
<1>7. Run(p)
  <2> HIDE DEF Run, q
  <2> QED
    BY <1>6
<1> HIDE DEF p
<1> DEFINE T == {t \in Nat : t + 1 <= s => p[t + 1] = A + Sum(segtab, t + 1)}
<1>8. 0 \in T
  <2>1. p[1] = A
    BY <1>7
  <2> QED
    BY <1>1, <1>4, <2>1
<1>9. ASSUME NEW t \in Nat, t \in T PROVE t + 1 \in T
  <2> SUFFICES ASSUME t + 1 + 1 <= s PROVE p[t + 1 + 1] = A + Sum(segtab, t + 1 + 1)
    OBVIOUS
  <2> DEFINE u == t + 1 + 1
  <2>1. u \in Nat /\ u \in 2 .. s /\ u \in 1 .. s /\ u # 1 /\ u - 1 = t + 1
    OBVIOUS
  <2> HIDE DEF u
  <2>2. p[u] = p[u - 1] + PlaceIn(segtab, u - 1)
    BY <1>7, <2>1
  <2>3. p[u - 1] = A + Sum(segtab, u - 1)
    <3>1. t + 1 <= s
      OBVIOUS
    <3> QED
      BY <1>9, <2>1, <3>1
  <2>4. A + Sum(segtab, u) = A + Sum(segtab, u - 1) + PlaceIn(segtab, u - 1)
    BY <1>5, <2>1
  <2> QED
    BY <2>2, <2>3, <2>4 DEF u
<1>10. Nat \subseteq T
  <2> HIDE DEF T
  <2> QED
    BY <1>8, <1>9, NatSetInduction
<1>11. p[s] = A + Sum(segtab, s)
  <2>1. s - 1 \in Nat /\ (s - 1) + 1 = s
    OBVIOUS
  <2>2. s - 1 \in T
    BY <1>10, <2>1
  <2> QED
    BY <2>1, <2>2
<1> QED
  BY <1>2, <1>11 DEF A

-----------------------------------------------------------------------------
(* A block further.                                                        *)
LEMMA Further ==
  ASSUME out \in Objects, NEW k \in 0 .. LastBlk
  PROVE  /\ LastBlk \in Nat /\ SecsIn(k) \in Nat /\ TextTo(k) \in Seq(Entries)
         /\ k = 0 => SecsIn(k) = 0 /\ TextTo(k) = <<>>
         /\ k # LastBlk =>
              /\ out.blks[k + 1] \in Blocks
              /\ SecsIn(k + 1) = SecsIn(k) + Len(ItemsOf(out.blks[k + 1], "OBSEC"))
              /\ TextTo(k + 1) = TextTo(k) \o ReadBack(out.blks[k + 1])
         /\ Prefix(LastBlk) = out.blks
<1>1. out.blks \in Seq(Blocks) /\ LastBlk \in Nat /\ "OBSEC" \in ListTypes
  BY DEF Objects, LastBlk, ListTypes
<1>2. Prefix(k) \in Seq(Blocks)
  <2>1. \A i \in 1 .. k : out.blks[i] \in Blocks
    BY <1>1 DEF LastBlk
  <2> QED
    BY <1>1, <2>1, SubSeqProperties DEF Prefix
<1>3. [typ |-> "OBOST"] \in Blocks
  BY DEF Blocks, OtherBlocks
<1>4. SecsIn(k) \in Nat /\ TextTo(k) \in Seq(Entries)
  <2>1. ItemsIn(Prefix(k), "OBSEC") \in Seq(ListItems) /\ ReadBlocks(Prefix(k)) \in Seq(Entries)
    BY <1>1, <1>2, <1>3, ItemsInAppend, ReadBlocksAppend
  <2> QED
    BY <2>1 DEF SecsIn, TextTo
<1>5. ASSUME k = 0 PROVE SecsIn(k) = 0 /\ TextTo(k) = <<>>
  <2>1. Prefix(k) = <<>>
    BY <1>1, <1>5, SubSeqEmpty DEF Prefix
  <2>2. ItemsIn(<<>>, "OBSEC") = <<>> /\ ReadBlocks(<<>>) = <<>>
    BY <1>1, <1>2, <1>3, ItemsInAppend, ReadBlocksAppend
  <2> QED
    BY <2>1, <2>2 DEF SecsIn, TextTo
<1>6. ASSUME k # LastBlk
      PROVE  /\ out.blks[k + 1] \in Blocks
             /\ SecsIn(k + 1) = SecsIn(k) + Len(ItemsOf(out.blks[k + 1], "OBSEC"))
             /\ TextTo(k + 1) = TextTo(k) \o ReadBack(out.blks[k + 1])
  <2> DEFINE b == out.blks[k + 1]
  <2>1. k + 1 \in 1 .. Len(out.blks) /\ k + 1 \in Nat /\ k \in Nat
    BY <1>1, <1>6 DEF LastBlk
  <2>2. b \in Blocks
    BY <1>1, <2>1
  <2>3. Prefix(k + 1) = Append(Prefix(k), b)
    <3>1. SubSeq(out.blks, 1, k + 1) = SubSeq(out.blks, 1, (k + 1) - 1) \o <<b>>
      BY <1>1, <2>1, SubSeqRecursiveSecond
    <3>2. (k + 1) - 1 = k
      BY <2>1
    <3> QED
      BY <1>2, <2>2, <3>1, <3>2, AppendIsConcat DEF Prefix
  <2> HIDE DEF b
  <2>4. /\ ItemsIn(Prefix(k + 1), "OBSEC") = ItemsIn(Prefix(k), "OBSEC") \o ItemsOf(b, "OBSEC")
        /\ ItemsIn(Prefix(k), "OBSEC") \in Seq(ListItems) /\ ItemsOf(b, "OBSEC") \in Seq(ListItems)
        /\ ReadBlocks(Prefix(k + 1)) = ReadBlocks(Prefix(k)) \o ReadBack(b)
    BY <1>1, <1>2, <2>2, <2>3, ItemsInAppend, ReadBlocksAppend
  <2>5. SecsIn(k + 1) = SecsIn(k) + Len(ItemsOf(b, "OBSEC"))
    BY <2>4, ConcatProperties DEF SecsIn
  <2> QED
    BY <2>2, <2>4, <2>5 DEF TextTo, b
<1>7. Prefix(LastBlk) = out.blks
  BY <1>1, SubSeqFull DEF Prefix, LastBlk
<1> QED
  BY <1>1, <1>4, <1>5, <1>6, <1>7

-----------------------------------------------------------------------------
(* xcon has room for the sections that the object file lists.              *)
SectionsFit == pass2 => Len(Listed(out, "OBSEC")) <= SECSIZ - 1

LEMMA FitInit == Init => SectionsFit
  BY DEF Init, Init1, SectionsFit

LEMMA FitStep == AsmInv /\ ListsInv /\ SectionsFit /\ [Next]_vars => SectionsFit'
<1> SUFFICES ASSUME AsmInv, ListsInv, SectionsFit, [Next]_vars PROVE SectionsFit'
  OBVIOUS
<1>1. CASE Assemble
  <2>1. CASE Interlude
    <3>1. ~pass2 /\ InPass1
      BY <2>1, Zenon DEF Interlude, AsmInv, ObjectRight, ListsInv
    <3>2. Len(Listed(out', "OBSEC")) = secct - 1
      BY <2>1, <3>1, InterludeWrites
    <3> QED
      BY <3>2, AsmAssumption DEF AsmInv, PlacesType, SectionsFit, RBUND
  <2>2. CASE Data \/ Instr \/ Align \/ Block \/ Org \/ End \/ EndPass
    <3>1. SameLists(out', out)
      BY <2>2, DataStep, InstrStep, AlignStep, BlockStep, OrgStep, EndStep, EndPassStep
    <3>2. UNCHANGED pass2
      BY <2>2, Zenon DEF Data, Instr, Align, Block, Org, End, EndPass
    <3>3. Listed(out', "OBSEC") = Listed(out, "OBSEC")
      BY <3>1 DEF SameLists, ListTypes
    <3> QED
      BY <3>2, <3>3 DEF SectionsFit
  <2>3. CASE StartPass \/ Label \/ Abs \/ SectNoLabel \/ SectOld \/ SectNew \/ Global \/ Equ \/ If \/ Else \/ Endif \/ Skip
    <3>1. UNCHANGED <<pass2, out>>
      BY <2>3, Zenon DEF StartPass, Label, Abs, SectNoLabel, SectOld, SectNew, Global, Equ, If, Else, Endif, Skip
    <3> QED
      BY <3>1 DEF SectionsFit
  <2> QED
    BY <1>1, <2>1, <2>2, <2>3 DEF Assemble
<1>2. CASE UNCHANGED asmvars
  BY <1>2 DEF asmvars, SectionsFit
<1>3. Convert => UNCHANGED asmvars
  BY DEF Convert, Begin, Ignored, EndPass1, Interpass, EndPass2, Sections1, Symbols1, Text1,
         Sections2, Symbols2, Text2
<1>4. UNCHANGED vars => UNCHANGED asmvars
  BY DEF vars
<1> QED
  BY <1>1, <1>2, <1>3, <1>4 DEF Next

-----------------------------------------------------------------------------
(* The object file when asz8k is done.                                     *)
LEMMA Ended ==
  ASSUME AsmInv, BlocksInv, SectionsFit, apc = "ended"
  PROVE  /\ out \in Objects /\ LastBlk \in Nat /\ LastBlk >= 2
         /\ out.blks[1].typ = "OBOST" /\ out.blks[LastBlk].typ = "OBOND"
         /\ \A i \in 1 .. LastBlk - 1 : out.blks[i].typ # "OBOND"
         /\ SecsIn(1) = 0 /\ TextTo(1) = <<>> /\ TextTo(LastBlk - 1) = want
         /\ Segs \in 1 .. SECSIZ
         /\ HighRight(out, high) /\ TextIn(out) = {b \in Range(out.blks) : b.typ = "OBTXT"}
<1>1. out \in Objects /\ out.cur = None /\ TextOf(out) = want /\ pass2 /\ Complete(out)
  BY DEF AsmInv, ObjectRight, Good, BlocksInv, SourceType
<1>2. LastBlk \in Nat /\ LastBlk >= 2 /\ out.blks \in Seq(Blocks)
  BY <1>1 DEF Complete, LastBlk, Objects
<1>3. /\ out.blks[1] = [typ |-> "OBOST"] /\ out.blks[LastBlk] = [typ |-> "OBOND"]
      /\ \A i \in 1 .. LastBlk - 1 : out.blks[i].typ # "OBOND"
  BY <1>1 DEF Complete, LastBlk
<1>4. \A b : b \in {[typ |-> "OBOST"], [typ |-> "OBOND"], None} => ReadBack(b) = <<>> /\ ItemsOf(b, "OBSEC") = <<>>
  BY DEF ReadBack, ItemsOf, None
<1>5. SecsIn(1) = 0 /\ TextTo(1) = <<>>
  <2>1. 0 \in 0 .. LastBlk /\ 0 # LastBlk /\ 0 + 1 = 1
    BY <1>2
  <2>2. SecsIn(0) = 0 /\ TextTo(0) = <<>>
    BY <1>1, <2>1, Further
  <2>3. SecsIn(1) = SecsIn(0) + Len(ItemsOf(out.blks[1], "OBSEC")) /\ TextTo(1) = TextTo(0) \o ReadBack(out.blks[1])
    BY <1>1, <2>1, Further
  <2>4. ItemsOf(out.blks[1], "OBSEC") = <<>> /\ ReadBack(out.blks[1]) = <<>>
    BY <1>3, <1>4
  <2> QED
    BY <2>2, <2>3, <2>4
<1>6. /\ SecsIn(LastBlk) = SecsIn(LastBlk - 1) /\ SecsIn(LastBlk - 1) \in Nat
      /\ TextTo(LastBlk) = TextTo(LastBlk - 1) /\ Prefix(LastBlk) = out.blks
  <2> DEFINE k == LastBlk - 1
  <2>1. k \in 0 .. LastBlk /\ k # LastBlk /\ k + 1 = LastBlk /\ LastBlk \in 0 .. LastBlk
    BY <1>2
  <2> HIDE DEF k
  <2>2. ItemsOf(out.blks[LastBlk], "OBSEC") = <<>> /\ ReadBack(out.blks[LastBlk]) = <<>>
    BY <1>3, <1>4
  <2>3. /\ SecsIn(k + 1) = SecsIn(k) + Len(ItemsOf(out.blks[k + 1], "OBSEC")) /\ SecsIn(k) \in Nat
        /\ TextTo(k + 1) = TextTo(k) \o ReadBack(out.blks[k + 1]) /\ TextTo(k) \in Seq(Entries)
    BY <1>1, <2>1, Further
  <2>4. Prefix(LastBlk) = out.blks
    BY <1>1, <2>1, Further
  <2>5. SecsIn(LastBlk) = SecsIn(k) /\ TextTo(LastBlk) = TextTo(k)
    BY <2>1, <2>2, <2>3, ConcatEmptySeq
  <2> QED
    BY <2>3, <2>4, <2>5 DEF k
<1>7. TextTo(LastBlk - 1) = want
  <2>1. want = ReadBlocks(out.blks) \o <<>>
    BY <1>1, <1>4 DEF TextOf
  <2>2. TextTo(LastBlk) = ReadBlocks(out.blks)
    BY <1>6 DEF TextTo
  <2>3. ReadBlocks(out.blks) \in Seq(Entries)
    <3>1. LastBlk \in 0 .. LastBlk
      BY <1>2
    <3> QED
      BY <1>1, <2>2, <3>1, Further
  <2> QED
    BY <1>6, <2>1, <2>2, <2>3, ConcatEmptySeq
<1>8. Segs \in 1 .. SECSIZ
  <2>1. Listed(out, "OBSEC") = ItemsIn(out.blks, "OBSEC")
    BY <1>1, ListedType DEF ListTypes
  <2>2. SecsIn(LastBlk) <= SECSIZ - 1
    BY <1>1, <1>6, <2>1 DEF SecsIn, SectionsFit
  <2> QED
    BY <1>6, <2>2, AsmAssumption DEF Segs, RBUND
<1>9. TextIn(out) = {b \in Range(out.blks) : b.typ = "OBTXT"}
  BY <1>1 DEF TextIn, None
<1> QED
  BY <1>1, <1>2, <1>3, <1>5, <1>7, <1>8, <1>9 DEF BlocksInv

(* What the converter does not change.                                     *)
LEMMA Still ==
  ASSUME UNCHANGED asmvars
  PROVE  /\ LastBlk' = LastBlk /\ Segs' = Segs /\ AddressesFit' = AddressesFit
         /\ SecsIn(objpt - 1)' = SecsIn(objpt' - 1) /\ TextTo(objpt - 1)' = TextTo(objpt' - 1)
         /\ UNCHANGED <<apc, out>>
<1>1. out' = out /\ apc' = apc
  BY DEF asmvars
<1> QED
  BY <1>1 DEF LastBlk, Segs, SecsIn, Prefix, TextTo, AddressesFit

-----------------------------------------------------------------------------
(* The converter, step by step.                                            *)
Facts == AsmInv /\ BlocksInv /\ SectionsFit /\ XconInv

LEMMA XconInit == Init => XconInv
<1> SUFFICES ASSUME Init PROVE XconInv
  OBVIOUS
<1>1. /\ xpc = "asz8k" /\ xpass2 = FALSE /\ nseg = 1
      /\ segtab = [s \in Sections |-> [typ |-> IF s = 0 THEN "BSS" ELSE "UND", len |-> 0]]
      /\ header = [seg |-> cmd.xs, exec |-> FALSE, init |-> 0, reloc |-> 0, symb |-> 0]
  BY DEF Init, Sections
<1>2. 0 \in Sections
  BY AsmAssumption DEF Sections, RBUND
<1>3. segtab \in SegTabs /\ segtab[0].typ = "BSS" /\ \A s \in Sections : segtab[s].len = 0
  BY <1>1, <1>2 DEF SegTabs, SegTypes
<1>4. XconType
  <2>1. PICK x, f : x = cmd.xs /\ f = FALSE
    BY Zenon
  <2>2. header = [seg |-> x, exec |-> f, init |-> 0, reloc |-> 0, symb |-> 0]
    BY <1>1, <2>1
  <2>3. header.seg = x /\ header.exec = f /\ header.init = 0 /\ header.reloc = 0 /\ header.symb = 0
    BY <2>2
  <2>4. header = [seg |-> header.seg, exec |-> header.exec, init |-> header.init,
                  reloc |-> header.reloc, symb |-> header.symb] /\ header.reloc \in Nat
    BY <2>2, <2>3
  <2>5. nseg \in Nat \ {0}
    <3>1. nseg = 1
      BY <1>1
    <3> QED
      BY <3>1
  <2>6. xpass2 \in BOOLEAN
    BY <1>1, Zenon
  <2> QED
    BY <1>3, <2>4, <2>5, <2>6, Zenon DEF XconType
<1> QED
  BY <1>1, <1>3, <1>4 DEF XconInv, XconReads, XconWrites

LEMMA BeginXcon == ASSUME Facts, Begin PROVE XconInv'
<1>1. /\ xpc = "asz8k" /\ apc = "ended" /\ xpc' = "pass" /\ objpt' = 2 /\ nseg' = 1
      /\ UNCHANGED <<asmvars, xpass2, segtab, header>>
  BY DEF Begin, sizes
<1>2. /\ LastBlk \in Nat /\ LastBlk >= 2 /\ SecsIn(1) = 0 /\ Segs \in 1 .. SECSIZ
      /\ out.blks[1].typ = "OBOST"
  BY <1>1, Ended DEF Facts
<1>3. /\ LastBlk' = LastBlk /\ Segs' = Segs /\ AddressesFit' = AddressesFit /\ SecsIn(objpt - 1)' = SecsIn(objpt' - 1)
      /\ UNCHANGED <<apc, out>>
  BY <1>1, Still
<1>4. ~xpass2 /\ \A s \in Sections : segtab[s].len = 0
  BY <1>1 DEF Facts, XconInv, XconReads
<1>5. XconType'
  BY <1>1 DEF Facts, XconInv, XconType
<1>6. LengthsRight(objpt - 1)'
  <2>1. objpt' - 1 = 1 /\ segtab' = segtab /\ \A s \in Sections : ~TextAt(1, s)'
    BY <1>1, <1>2, <1>3 DEF TextAt
  <2> QED
    BY <1>4, <2>1 DEF LengthsRight
<1>7. objpt' \in 2 .. LastBlk' /\ objpt' - 1 = 1 /\ nseg' = 1 + SecsIn(objpt - 1)'
  BY <1>1, <1>2, <1>3
<1>8. XconReads'
  <2>1. ~xpass2' /\ xpc' = "pass" /\ apc' = "ended" /\ Segs' <= SECSIZ
    BY <1>1, <1>2, <1>3, <1>4
  <2> QED
    BY <1>6, <1>7, <2>1 DEF XconReads
<1> QED
  BY <1>1, <1>4, <1>5, <1>8 DEF XconInv, XconWrites

(* A block is read.                                                        *)
LEMMA BlockRead ==
  ASSUME Facts, xpc = "pass", blk.typ # "OBOND", NextBlock, UNCHANGED asmvars
  PROVE  /\ objpt \in 2 .. LastBlk - 1 /\ objpt' \in 2 .. LastBlk /\ objpt' = objpt + 1 /\ objpt' - 1 = objpt
         /\ blk \in Blocks /\ blk = out.blks[objpt] /\ LastBlk \in Nat
         /\ SecsIn(objpt) = SecsIn(objpt - 1) + Len(ItemsOf(blk, "OBSEC"))
         /\ TextTo(objpt) = TextTo(objpt - 1) \o ReadBack(blk)
         /\ SecsIn(objpt - 1) \in Nat /\ TextTo(objpt - 1) \in Seq(Entries)
         /\ nseg = 1 + SecsIn(objpt - 1)
<1>1. apc = "ended" /\ objpt \in 2 .. LastBlk /\ nseg = 1 + SecsIn(objpt - 1)
  BY DEF Facts, XconInv, XconReads
<1>2. out \in Objects /\ LastBlk \in Nat /\ out.blks[LastBlk].typ = "OBOND"
  BY <1>1, Ended DEF Facts
<1>3. objpt # LastBlk
  BY <1>2 DEF blk
<1> DEFINE k == objpt - 1
<1>4. k \in 0 .. LastBlk /\ k # LastBlk /\ k + 1 = objpt
  BY <1>1, <1>2
<1> HIDE DEF k
<1>5. /\ out.blks[k + 1] \in Blocks /\ SecsIn(k) \in Nat /\ TextTo(k) \in Seq(Entries)
      /\ SecsIn(k + 1) = SecsIn(k) + Len(ItemsOf(out.blks[k + 1], "OBSEC"))
      /\ TextTo(k + 1) = TextTo(k) \o ReadBack(out.blks[k + 1])
  BY <1>2, <1>4, Further
<1>6. /\ blk \in Blocks /\ blk = out.blks[objpt] /\ SecsIn(objpt - 1) \in Nat
      /\ TextTo(objpt - 1) \in Seq(Entries)
      /\ SecsIn(objpt) = SecsIn(objpt - 1) + Len(ItemsOf(blk, "OBSEC"))
      /\ TextTo(objpt) = TextTo(objpt - 1) \o ReadBack(blk)
  BY <1>4, <1>5 DEF blk, k
<1>7. objpt \in 2 .. LastBlk - 1 /\ objpt' = objpt + 1 /\ objpt' - 1 = objpt /\ objpt' \in 2 .. LastBlk
  BY <1>1, <1>2, <1>3 DEF NextBlock
<1> QED
  BY <1>1, <1>2, <1>6, <1>7

(* What pass 1 has to show of a block.                                     *)
LengthsOn ==
  \A s \in Sections : segtab'[s].len =
    IF TextAt(objpt, s) /\ EndOf(blk) > segtab[s].len THEN EndOf(blk) ELSE segtab[s].len

LEMMA LengthsStep ==
  ASSUME Facts, xpc = "pass", ~xpass2, blk.typ # "OBOND", NextBlock, UNCHANGED asmvars,
         LengthsOn, LengthsRight(objpt - 1)
  PROVE  LengthsRight(objpt - 1)'
<1>0. PICK k, m : k = objpt - 1 /\ m = objpt
  OBVIOUS
<1>1. m \in Nat /\ k \in Nat /\ k + 1 = m /\ m \in 1 .. LastBlk /\ LastBlk \in Nat
  BY <1>0, BlockRead
<1>2. blk = out.blks[m] /\ out' = out /\ objpt' = m + 1 /\ objpt' - 1 = m
  BY <1>0, BlockRead, Still
<1>3. out.blks \in Seq(Blocks) /\ segtab \in SegTabs
  BY DEF Facts, AsmInv, ObjectRight, Good, Objects, XconInv, XconType
<1>4. \A i \in 1 .. m : \A s \in Sections : TextAt(i, s) => EndOf(out.blks[i]) \in Int
  <2> SUFFICES ASSUME NEW i \in 1 .. m, NEW s \in Sections, TextAt(i, s) PROVE EndOf(out.blks[i]) \in Int
    OBVIOUS
  <2>1. out.blks[i] \in Blocks /\ out.blks[i].typ = "OBTXT"
    BY <1>1, <1>3 DEF TextAt, LastBlk
  <2>2. out.blks[i] \in TextBlocks
    BY <2>1, TypeTells
  <2> QED
    BY <2>2 DEF TextBlocks, EndOf
<1>5. \A i, s : TextAt(i, s)' = TextAt(i, s)
  BY <1>2 DEF TextAt
<1>6. /\ \A s \in Sections : \A i \in 1 .. k : TextAt(i, s) => EndOf(out.blks[i]) <= segtab[s].len
      /\ \A s \in Sections : segtab[s].len = 0 \/ EndedBy(k, s, segtab[s].len)
      /\ \A s \in Sections : segtab[s].len \in Nat
  BY <1>0, <1>3 DEF LengthsRight, SegTabs
<1>7. \A s \in Sections : segtab'[s].len =
        IF TextAt(m, s) /\ EndOf(out.blks[m]) > segtab[s].len THEN EndOf(out.blks[m]) ELSE segtab[s].len
  BY <1>0, <1>2 DEF LengthsOn
<1>8. ASSUME NEW s \in Sections, NEW i \in 1 .. m, TextAt(i, s)
      PROVE  EndOf(out.blks[i]) <= segtab'[s].len
  <2>1. i \in 1 .. k \/ i = m
    BY <1>1
  <2>2. EndOf(out.blks[i]) \in Int /\ segtab[s].len \in Nat /\ (TextAt(m, s) => EndOf(out.blks[m]) \in Int)
    BY <1>1, <1>4, <1>6, <1>8
  <2>3. CASE i = m
    BY <1>7, <1>8, <2>2, <2>3
  <2>4. CASE i \in 1 .. k
    BY <1>6, <1>7, <1>8, <2>2, <2>4
  <2> QED
    BY <2>1, <2>3, <2>4
<1>9. ASSUME NEW s \in Sections PROVE segtab'[s].len = 0 \/ EndedBy(m, s, segtab'[s].len)
  <2>1. CASE TextAt(m, s) /\ EndOf(out.blks[m]) > segtab[s].len
    <3>1. m \in 1 .. m /\ segtab'[s].len = EndOf(out.blks[m])
      BY <1>1, <1>7, <2>1
    <3> QED
      BY <2>1, <3>1 DEF EndedBy
  <2>2. CASE ~(TextAt(m, s) /\ EndOf(out.blks[m]) > segtab[s].len)
    <3>1. segtab'[s].len = segtab[s].len
      BY <1>7, <2>2
    <3>2. 1 .. k \subseteq 1 .. m
      BY <1>1
    <3> QED
      BY <1>6, <3>1, <3>2 DEF EndedBy
  <2> QED
    BY <2>1, <2>2
<1>10. \A s \in Sections :
         /\ \A i \in 1 .. m : TextAt(i, s)' => EndOf(out.blks[i])' <= segtab'[s].len
         /\ segtab'[s].len = 0 \/ EndedBy(m, s, segtab[s].len)'
  <2>1. \A i : EndOf(out.blks[i])' = EndOf(out.blks[i])
    BY <1>2 DEF EndOf
  <2>2. \A s \in Sections : EndedBy(m, s, segtab'[s].len) => EndedBy(m, s, segtab[s].len)'
    BY <1>2 DEF EndedBy, TextAt, EndOf
  <2> QED
    BY <1>5, <1>8, <1>9, <2>1, <2>2
<1> QED
  BY <1>2, <1>10 DEF LengthsRight

LEMMA Step1 ==
  ASSUME Facts, xpc = "pass", ~xpass2, blk.typ # "OBOND", NextBlock, UNCHANGED <<asmvars, xpc, xpass2>>,
         XconType', nseg' = nseg + Len(ItemsOf(blk, "OBSEC")), AddressesFit => LengthsOn
  PROVE  XconInv'
<1>1. /\ objpt' \in 2 .. LastBlk /\ objpt' - 1 = objpt /\ SecsIn(objpt - 1) \in Nat
      /\ SecsIn(objpt) = SecsIn(objpt - 1) + Len(ItemsOf(blk, "OBSEC")) /\ nseg = 1 + SecsIn(objpt - 1)
  BY BlockRead
<1>2. /\ LastBlk' = LastBlk /\ Segs' = Segs /\ AddressesFit' = AddressesFit /\ apc' = apc
      /\ SecsIn(objpt - 1)' = SecsIn(objpt' - 1)
  BY Still
<1>3. apc = "ended" /\ Segs <= SECSIZ /\ (AddressesFit => LengthsRight(objpt - 1))
  BY DEF Facts, XconInv, XconReads
<1>4. AddressesFit => LengthsRight(objpt - 1)'
  BY <1>3, LengthsStep
<1>5. nseg' = 1 + SecsIn(objpt - 1)'
  <2>1. ItemsOf(blk, "OBSEC") \in Seq(ListItems)
    <3>1. "OBSEC" \in ListTypes /\ <<>> \in Seq(Blocks) /\ blk \in Blocks
      BY BlockRead DEF ListTypes
    <3> QED
      BY <3>1, ItemsInAppend
  <2>2. Len(ItemsOf(blk, "OBSEC")) \in Nat
    BY <2>1
  <2> QED
    BY <1>1, <1>2, <2>2
<1>6. XconReads'
  BY <1>1, <1>2, <1>3, <1>4, <1>5 DEF XconReads
<1> QED
  BY <1>6 DEF XconInv, XconWrites

LEMMA ItemBlock ==
  ASSUME NEW b \in Blocks
  PROVE  /\ b.typ \in ListTypes => b.items \in Seq(ListItems) /\ Len(b.items) \in Nat
         /\ b.typ # "OBTXT" => ReadBack(b) = <<>>
         /\ b.typ # "OBSEC" => Len(ItemsOf(b, "OBSEC")) = 0
         /\ b.typ = "OBSEC" => ItemsOf(b, "OBSEC") = b.items
<1>1. b.typ \in ListTypes => b \in ListBlocks
  BY TypeTells DEF ListTypes
<1> QED
  BY <1>1 DEF ListBlocks, ReadBack, ItemsOf

LEMMA HeaderType ==
  ASSUME XconType, NEW r \in Nat, NEW e, NEW i, NEW y, NEW g,
         header' = [header EXCEPT !.reloc = r, !.seg = g, !.exec = e, !.init = i, !.symb = y]
  PROVE  /\ header' = [seg |-> g, exec |-> e, init |-> i, reloc |-> r, symb |-> y]
         /\ header' = [seg |-> header'.seg, exec |-> header'.exec, init |-> header'.init,
                       reloc |-> header'.reloc, symb |-> header'.symb]
         /\ header'.reloc \in Nat
<1>1. PICK a, b, c, d, k : a = header.seg /\ b = header.exec /\ c = header.init /\ d = header.reloc /\ k = header.symb
  OBVIOUS
<1>2. header = [seg |-> a, exec |-> b, init |-> c, reloc |-> d, symb |-> k]
  BY <1>1 DEF XconType
<1>3. header' = [seg |-> g, exec |-> e, init |-> i, reloc |-> r, symb |-> y]
  BY <1>2
<1> QED
  BY <1>3

LEMMA Sections1Xcon == ASSUME Facts, Sections1 PROVE XconInv'
<1>1. /\ xpc = "pass" /\ ~xpass2 /\ blk.typ = "OBSEC" /\ NextBlock
      /\ UNCHANGED <<asmvars, xpc, xpass2>>
  BY DEF Sections1, Block1
<1> DEFINE n == Len(blk.items)
           typ(s) == Type(blk.items[s - nseg + 1])
<1>2. segtab' = [s \in DOMAIN segtab |-> IF s - nseg + 1 \in 1 .. n /\ typ(s) # "UND"
                                         THEN [segtab[s] EXCEPT !.typ = typ(s)] ELSE segtab[s]]
  BY DEF Sections1
<1>3. nseg' = nseg + n /\ header' = [header EXCEPT !.symb = @ + n * SYSIZ]
  BY DEF Sections1
<1>4. blk \in Blocks /\ n \in Nat /\ ItemsOf(blk, "OBSEC") = blk.items
  BY <1>1, BlockRead, ItemBlock DEF ListTypes
<1>5. XconType /\ segtab \in SegTabs /\ segtab[0].typ = "BSS" /\ nseg \in Nat \ {0} /\ header.reloc \in Nat
  BY DEF Facts, XconInv, XconType
<1>6. \A s : typ(s) \in SegTypes
  BY DEF Type, SegTypes
<1> HIDE DEF n, typ
<1>7. ASSUME NEW s \in Sections
      PROVE  segtab'[s] \in [typ : SegTypes, len : Nat] /\ segtab'[s].len = segtab[s].len
  <2>1. segtab[s] \in [typ : SegTypes, len : Nat] /\ DOMAIN segtab = Sections
    BY <1>5 DEF SegTabs
  <2>2. segtab'[s] = segtab[s] \/ segtab'[s] = [segtab[s] EXCEPT !.typ = typ(s)]
    BY <1>2, <2>1
  <2> QED
    BY <1>6, <2>1, <2>2
<1>8. segtab' \in SegTabs
  <2>1. segtab' = [s \in Sections |-> segtab'[s]]
    BY <1>2, <1>5 DEF SegTabs
  <2> QED
    BY <1>7, <2>1 DEF SegTabs
<1>9. segtab'[0].typ = "BSS"
  <2>1. 0 \in Sections /\ ~(0 - nseg + 1 \in 1 .. n)
    BY <1>4, <1>5, AsmAssumption DEF Sections, RBUND
  <2>2. segtab'[0] = segtab[0]
    BY <1>2, <1>5, <2>1 DEF SegTabs
  <2> QED
    BY <1>5, <2>2
<1>10. XconType'
  <2>1. header' = [header EXCEPT !.reloc = header.reloc, !.seg = header.seg, !.exec = header.exec,
                                 !.init = header.init, !.symb = header.symb + n * SYSIZ]
    BY <1>3, <1>5 DEF XconType
  <2>2. header' = [seg |-> header'.seg, exec |-> header'.exec, init |-> header'.init,
                   reloc |-> header'.reloc, symb |-> header'.symb] /\ header'.reloc \in Nat
    BY <1>5, <2>1, HeaderType, Zenon
  <2>3. nseg' \in Nat \ {0} /\ xpass2' \in BOOLEAN
    BY <1>1, <1>3, <1>4, <1>5 DEF XconType
  <2> QED
    BY <1>8, <1>9, <2>2, <2>3 DEF XconType
<1>11. LengthsOn
  <2>1. \A s : ~TextAt(objpt, s)
    BY <1>1 DEF TextAt, blk
  <2> QED
    BY <1>7, <2>1 DEF LengthsOn
<1>12. nseg' = nseg + Len(ItemsOf(blk, "OBSEC"))
  BY <1>3, <1>4 DEF n
<1> QED
  BY <1>1, <1>10, <1>11, <1>12, Step1

LEMMA Symbols1Xcon == ASSUME Facts, Symbols1 PROVE XconInv'
<1>1. /\ xpc = "pass" /\ ~xpass2 /\ blk.typ \in {"OBGLO", "OBLOC"} /\ NextBlock
      /\ UNCHANGED <<asmvars, xpc, xpass2, segtab, nseg>>
  BY DEF Symbols1, Block1
<1> DEFINE y == header.symb + Len(blk.items) * SYSIZ
<1>2. header' = [header EXCEPT !.symb = y]
  BY DEF Symbols1
<1> HIDE DEF y
<1>3. blk \in Blocks /\ nseg \in Nat
  BY <1>1, BlockRead DEF Facts, XconInv, XconType
<1>4. Len(ItemsOf(blk, "OBSEC")) = 0
  BY <1>1, <1>3, ItemBlock
<1>5. XconType /\ header.reloc \in Nat
  BY DEF Facts, XconInv, XconType
<1>6. XconType'
  <2>1. header' = [header EXCEPT !.reloc = header.reloc, !.seg = header.seg, !.exec = header.exec,
                                 !.init = header.init, !.symb = y]
    BY <1>2, <1>5 DEF XconType
  <2>2. header' = [seg |-> header'.seg, exec |-> header'.exec, init |-> header'.init,
                   reloc |-> header'.reloc, symb |-> header'.symb] /\ header'.reloc \in Nat
    BY <1>5, <2>1, HeaderType, Zenon
  <2> QED
    BY <1>1, <1>5, <2>2 DEF XconType
<1>7. LengthsOn
  <2>1. \A s : ~TextAt(objpt, s)
    BY <1>1 DEF TextAt, blk
  <2> QED
    BY <1>1, <2>1 DEF LengthsOn
<1> QED
  BY <1>1, <1>3, <1>4, <1>6, <1>7, Step1

(* Sixteen bits.                                                           *)
LEMMA Wraps ==
  ASSUME NEW w \in Nat, w > 0
  PROVE  /\ \A x \in Int : x % w \in 0 .. w - 1
         /\ \A x \in 0 .. w - 1 : x % w = x
<1>1. ASSUME NEW x \in Int PROVE x % w \in 0 .. w - 1
  OBVIOUS
<1>2. ASSUME NEW x \in 0 .. w - 1 PROVE x % w = x
  OBVIOUS
<1> QED
  BY <1>1, <1>2

LEMMA Width16 ==
  /\ W \in Nat /\ \A x \in Int : x % W \in 0 .. W - 1
  /\ \A x \in 0 .. W - 1 : x % W = x
<1>1. W \in Nat /\ W > 0
  BY DEF W
<1> QED
  BY <1>1, Wraps

(* A text block whose addresses fit.                                       *)
LEMMA TextBlock ==
  ASSUME Facts, xpc = "pass", blk.typ = "OBTXT", NextBlock, UNCHANGED asmvars
  PROVE  /\ blk \in TextBlocks /\ blk.sec \in Sections /\ blk.txt \in Seq(0 .. 255) /\ blk.rel \in Seq(PlacedRelocs)
         /\ blk.adr \in Int /\ EndOf(blk) = blk.adr + Len(blk.txt) /\ Len(blk.txt) \in Nat
         /\ AddressesFit => blk.adr \in 0 .. W - 1 /\ EndOf(blk) < W /\ Adr = blk.adr
<1>1. blk \in Blocks /\ blk = out.blks[objpt] /\ objpt \in 2 .. LastBlk - 1 /\ LastBlk \in Nat
  BY BlockRead
<1>2. blk \in TextBlocks
  BY <1>1, TypeTells
<1>3. blk \in Range(out.blks)
  <2>1. objpt \in DOMAIN out.blks
    <3>1. out.blks \in Seq(Blocks)
      BY DEF Facts, AsmInv, ObjectRight, Good, Objects
    <3> QED
      BY <1>1, <3>1 DEF LastBlk
  <2> QED
    BY <1>1, <2>1 DEF Range
<1>4. /\ blk.sec \in Sections /\ blk.txt \in Seq(0 .. 255) /\ blk.rel \in Seq(PlacedRelocs)
      /\ blk.adr \in Int
  BY <1>2 DEF TextBlocks
<1>5. AddressesFit => blk.adr \in 0 .. W - 1 /\ EndOf(blk) < W /\ Adr = blk.adr
  <2> SUFFICES ASSUME AddressesFit PROVE blk.adr \in 0 .. W - 1 /\ EndOf(blk) < W /\ Adr = blk.adr
    OBVIOUS
  <2>1. blk.adr \in 0 .. W - 1 /\ EndOf(blk) < W
    BY <1>3 DEF AddressesFit, EndOf
  <2> QED
    BY <2>1, Width16 DEF Adr
<1> QED
  BY <1>2, <1>4, <1>5 DEF EndOf

LEMMA Text1Xcon == ASSUME Facts, Text1 PROVE XconInv'
<1>1. /\ xpc = "pass" /\ ~xpass2 /\ blk.typ = "OBTXT" /\ NextBlock
      /\ UNCHANGED <<asmvars, xpc, xpass2, nseg>>
  BY DEF Text1, Block1
<1>2. /\ blk.sec \in Sections /\ blk.rel \in Seq(PlacedRelocs) /\ blk.adr \in Int /\ Len(blk.txt) \in Nat
      /\ EndOf(blk) = blk.adr + Len(blk.txt)
      /\ AddressesFit => blk.adr \in 0 .. W - 1 /\ EndOf(blk) < W /\ Adr = blk.adr
  BY <1>1, TextBlock
<1> DEFINE end == Adr + Len(blk.txt)
           len == segtab[blk.sec].len
           e == Longer(len, end)
           g == header.seg \/ \E i \in DOMAIN blk.rel : blk.rel[i].act \in {"RAZLS", "RAZSS", "RAZOF"}
           r == header.reloc + RLSIZ * Len(blk.rel)
<1>3. segtab' = [segtab EXCEPT ![blk.sec].len = e] /\ header' = [header EXCEPT !.reloc = r, !.seg = g]
  BY DEF Text1
<1>4. XconType /\ segtab \in SegTabs /\ segtab[0].typ = "BSS" /\ header.reloc \in Nat /\ nseg \in Nat
  BY DEF Facts, XconInv, XconType
<1>5. Adr \in 0 .. W - 1 /\ end \in Nat /\ len \in Nat
  <2>1. Adr \in 0 .. W - 1
    BY <1>2, Width16 DEF Adr
  <2> QED
    BY <1>2, <1>4, <2>1, Width16 DEF SegTabs
<1>6. e \in Nat
  <2> HIDE DEF end, len
  <2>1. end % W \in Nat
    BY <1>5, Width16
  <2> QED
    BY <1>5, <2>1 DEF Longer
<1>7. r \in Nat
  <2>1. Len(blk.rel) \in Nat
    BY <1>2
  <2> QED
    BY <1>4, <2>1 DEF RLSIZ
<1> HIDE DEF e, g, r
<1>8. /\ segtab' \in SegTabs /\ \A s \in Sections : segtab'[s].typ = segtab[s].typ
      /\ \A s \in Sections : segtab'[s].len = IF s = blk.sec THEN e ELSE segtab[s].len
  BY <1>2, <1>3, <1>4, <1>6 DEF SegTabs
<1>9. XconType'
  <2>1. header' = [header EXCEPT !.reloc = r, !.seg = g, !.exec = header.exec,
                                 !.init = header.init, !.symb = header.symb]
    BY <1>3, <1>4 DEF XconType
  <2>2. header' = [seg |-> header'.seg, exec |-> header'.exec, init |-> header'.init,
                   reloc |-> header'.reloc, symb |-> header'.symb] /\ header'.reloc \in Nat
    BY <1>4, <1>7, <2>1, HeaderType, Zenon
  <2>3. 0 \in Sections
    BY AsmAssumption DEF Sections, RBUND
  <2> QED
    BY <1>1, <1>4, <1>8, <2>2, <2>3 DEF XconType
<1>10. ASSUME AddressesFit PROVE LengthsOn
  <2>1. \A s : TextAt(objpt, s) <=> s = blk.sec
    BY <1>1 DEF TextAt, blk
  <2>2. end = EndOf(blk) /\ end < W
    BY <1>2, <1>10
  <2>3. end % W = end
    <3> HIDE DEF end
    <3> QED
      BY <1>5, <2>2, Width16
  <2>4. e = IF EndOf(blk) > len THEN EndOf(blk) ELSE len
    <3> HIDE DEF end, len
    <3> QED
      BY <2>2, <2>3 DEF e, Longer
  <2> QED
    BY <1>8, <2>1, <2>4 DEF LengthsOn
<1>11. Len(ItemsOf(blk, "OBSEC")) = 0
  BY <1>1, BlockRead, ItemBlock
<1> QED
  BY <1>1, <1>4, <1>9, <1>10, <1>11, Step1

LEMMA EndPass1Xcon == ASSUME Facts, EndPass1 PROVE XconInv'
<1>1. /\ xpc = "pass" /\ ~xpass2 /\ blk.typ = "OBOND" /\ xpc' = "interlude"
      /\ UNCHANGED <<asmvars, xpass2, objpt, nseg, segtab, header>>
  BY DEF EndPass1, Block1, sizes
<1>2. /\ LastBlk' = LastBlk /\ Segs' = Segs /\ AddressesFit' = AddressesFit /\ UNCHANGED <<apc, out>>
      /\ SecsIn(objpt - 1)' = SecsIn(objpt' - 1)
  BY <1>1, Still
<1>3. /\ apc = "ended" /\ Segs <= SECSIZ /\ objpt \in 2 .. LastBlk /\ nseg = 1 + SecsIn(objpt - 1)
      /\ AddressesFit => LengthsRight(objpt - 1)
  BY <1>1 DEF Facts, XconInv, XconReads
<1>4. objpt = LastBlk
  <2>1. LastBlk \in Nat /\ \A i \in 1 .. LastBlk - 1 : out.blks[i].typ # "OBOND"
    BY <1>3, Ended DEF Facts
  <2>2. out.blks[objpt].typ = "OBOND"
    BY <1>1 DEF blk
  <2>3. objpt \notin 1 .. LastBlk - 1
    BY <2>1, <2>2
  <2> QED
    BY <1>3, <2>1, <2>3
<1>5. LengthsRight(objpt - 1)' <=> LengthsRight(objpt - 1)
  BY <1>1, <1>2 DEF LengthsRight, TextAt, EndedBy, EndOf
<1>6. XconType'
  BY <1>1 DEF Facts, XconInv, XconType
<1>7. XconReads'
  BY <1>1, <1>2, <1>3, <1>4, <1>5 DEF XconReads
<1> QED
  BY <1>1, <1>6, <1>7 DEF XconInv, XconWrites

LEMMA InterpassXcon == ASSUME Facts, Interpass PROVE XconInv'
<1>1. /\ xpc = "interlude" /\ xpc' = "pass" /\ xpass2' = TRUE /\ objpt' = 2 /\ nseg' = 1
      /\ UNCHANGED <<asmvars, segtab>>
      /\ header' = [header EXCEPT !.exec = exttab = <<>>, !.init = SumPlaces(nseg)]
      /\ segoff' = [s \in DOMAIN segtab |-> IF s < nseg THEN Start + SumPlaces(s) ELSE 0]
      /\ reloff' = Start + SumPlaces(nseg)
      /\ symoff' = Start + SumPlaces(nseg) + header.reloc
  BY DEF Interpass
<1>2. /\ LastBlk' = LastBlk /\ Segs' = Segs /\ AddressesFit' = AddressesFit /\ UNCHANGED <<apc, out>>
      /\ SecsIn(objpt - 1)' = SecsIn(objpt' - 1) /\ TextTo(objpt - 1)' = TextTo(objpt' - 1)
  BY <1>1, Still
<1>3. /\ apc = "ended" /\ objpt = LastBlk /\ nseg = 1 + SecsIn(objpt - 1) /\ ~xpass2
      /\ AddressesFit => LengthsRight(objpt - 1)
  BY <1>1 DEF Facts, XconInv, XconReads
<1>4. /\ LastBlk \in Nat /\ LastBlk >= 2 /\ SecsIn(1) = 0 /\ TextTo(1) = <<>> /\ Segs \in 1 .. SECSIZ
  BY <1>3, Ended DEF Facts
<1>5. nseg = Segs /\ Start = Base /\ XconType /\ segtab \in SegTabs /\ header.reloc \in Nat
  BY <1>3 DEF Segs, Start, Base, firstseg, Facts, XconInv, XconType
<1>6. Sum(segtab, Segs) \in Nat /\ Base \in Nat /\ SECSIZ \in Nat
  <2>1. SECSIZ \in Nat /\ Segs \in 0 .. SECSIZ
    BY <1>4, AsmAssumption DEF RBUND
  <2> QED
    BY <1>4, <1>5, <2>1, SumGrows DEF Base, XHSIZ, SGSIZ
<1>7. XconType'
  <2> DEFINE e == exttab = <<>>
             i == SumPlaces(nseg)
  <2>1. header' = [header EXCEPT !.exec = e, !.init = i]
    BY <1>1
  <2> HIDE DEF e, i
  <2>2. header' = [header EXCEPT !.reloc = header.reloc, !.seg = header.seg, !.exec = e,
                                 !.init = i, !.symb = header.symb]
    BY <2>1, <1>5 DEF XconType
  <2>3. header' = [seg |-> header'.seg, exec |-> header'.exec, init |-> header'.init,
                   reloc |-> header'.reloc, symb |-> header'.symb] /\ header'.reloc \in Nat
    BY <1>5, <2>2, HeaderType, Zenon
  <2>4. nseg' \in Nat \ {0}
    BY <1>1
  <2>5. xpass2' \in BOOLEAN
    BY <1>1, Zenon
  <2>6. segtab' \in SegTabs /\ segtab'[0].typ = "BSS"
    BY <1>1, <1>5 DEF XconType
  <2> QED
    BY <2>3, <2>4, <2>5, <2>6, Zenon DEF XconType
<1>8. XconReads'
  <2>1. (LengthsRight(LastBlk - 1))' <=> LengthsRight(objpt - 1)
    BY <1>1, <1>2, <1>3 DEF LengthsRight, TextAt, EndedBy, EndOf
  <2>2. objpt' \in 2 .. LastBlk' /\ objpt' - 1 = 1 /\ nseg' = 1 + SecsIn(objpt - 1)' /\ Segs' <= SECSIZ
    BY <1>1, <1>2, <1>4
  <2> QED
    BY <1>1, <1>2, <1>3, <2>1, <2>2 DEF XconReads
<1>9. segoff' = [s \in Sections |-> IF s < Segs THEN Base + Sum(segtab, s) ELSE 0]
  <2>1. DOMAIN segtab = Sections
    BY <1>5 DEF SegTabs
  <2> QED
    BY <1>1, <1>5, <2>1, SumsAgree
<1>10. reloff' = Behind /\ symoff' = Behind + header.reloc /\ Behind \in Nat
  <2>1. SumPlaces(nseg) = Sum(segtab, Segs)
    BY <1>5, SumsAgree
  <2> QED
    BY <1>1, <1>5, <1>6, <2>1 DEF Behind
<1>11. Behind' = Behind /\ Base' = Base /\ \A s : Sum(segtab, s)' = Sum(segtab, s)
  BY <1>1, <1>2 DEF Behind, Base
<1>12. (AddressesFit => /\ EntriesIn(TextTo(objpt - 1))
                        /\ AllPlaced(TextTo(objpt - 1)) => InFileOf(TextTo(objpt - 1), file))'
  <2>1. TextTo(objpt - 1)' = <<>>
    BY <1>1, <1>2, <1>4
  <2>2. Len(TextTo(objpt - 1)') = 0
    BY <2>1
  <2> QED
    BY <2>2 DEF EntriesIn, InFileOf
<1>13. XconWrites'
  <2>1. segoff' = [s \in Sections |-> IF s < Segs' THEN Base' + Sum(segtab, s)' ELSE 0]
    BY <1>2, <1>9, <1>11
  <2>2. reloff' \in Int /\ symoff' \in Int /\ reloff' >= Behind' /\ symoff' >= Behind'
    BY <1>5, <1>10, <1>11
  <2> QED
    BY <1>12, <2>1, <2>2 DEF XconWrites
<1> QED
  BY <1>7, <1>8, <1>13 DEF XconInv

LEMMA EndPass2Xcon == ASSUME Facts, EndPass2 PROVE XconInv'
<1>1. /\ xpc = "pass" /\ xpass2 /\ blk.typ = "OBOND" /\ xpc' = "done"
      /\ UNCHANGED <<asmvars, xpass2, objpt, nseg, segtab, header, segoff, reloff, symoff, file>>
  BY DEF EndPass2, Block2, sizes, offsets
<1>2. /\ LastBlk' = LastBlk /\ Segs' = Segs /\ AddressesFit' = AddressesFit /\ UNCHANGED <<apc, out>>
      /\ SecsIn(objpt - 1)' = SecsIn(objpt' - 1)
  BY <1>1, Still
<1>3. /\ apc = "ended" /\ Segs <= SECSIZ /\ objpt \in 2 .. LastBlk /\ nseg = 1 + SecsIn(objpt - 1)
      /\ AddressesFit => LengthsRight(LastBlk - 1)
  BY <1>1 DEF Facts, XconInv, XconReads
<1>4. objpt = LastBlk
  <2>1. LastBlk \in Nat /\ \A i \in 1 .. LastBlk - 1 : out.blks[i].typ # "OBOND"
    BY <1>3, Ended DEF Facts
  <2>2. out.blks[objpt].typ = "OBOND"
    BY <1>1 DEF blk
  <2>3. objpt \notin 1 .. LastBlk - 1
    BY <2>1, <2>2
  <2> QED
    BY <1>3, <2>1, <2>3
<1>5. (LengthsRight(LastBlk - 1))' <=> LengthsRight(LastBlk - 1)
  BY <1>1, <1>2 DEF LengthsRight, TextAt, EndedBy, EndOf
<1>6. XconType'
  BY <1>1 DEF Facts, XconInv, XconType
<1>7. XconReads'
  BY <1>1, <1>2, <1>3, <1>4, <1>5 DEF XconReads
<1>8. XconWrites' <=> XconWrites
  <2>1. xpc' # "ferr" /\ xpc # "ferr" /\ UNCHANGED <<xpass2, objpt, segtab, segoff, reloff, symoff, file, out>>
    BY <1>1, <1>2
  <2> QED
    BY <2>1 DEF XconWrites, Behind, Base, Segs, SecsIn, Prefix, TextTo, LastBlk, AddressesFit, EntriesIn,
                AllPlaced, EntryPlaced, InFileOf
<1> QED
  BY <1>6, <1>7, <1>8 DEF Facts, XconInv

(* Where the file has what is not text.                                    *)
LEMMA Layout ==
  ASSUME Facts, apc = "ended"
  PROVE  /\ Segs \in 1 .. SECSIZ /\ Segs \in 0 .. SECSIZ /\ SECSIZ \in Nat
         /\ Sum(segtab, Segs) \in Nat /\ Base \in Nat /\ Behind = Base + Sum(segtab, Segs) /\ Behind \in Nat
<1>1. Segs \in 1 .. SECSIZ
  BY Ended DEF Facts
<1>2. SECSIZ \in Nat
  <2>1. SECSIZ \in 2 .. RBUND
    BY AsmAssumption
  <2> QED
    BY <2>1 DEF RBUND
<1>3. Segs \in 0 .. SECSIZ
  BY <1>1, <1>2
<1>4. segtab \in SegTabs
  BY DEF Facts, XconInv, XconType
<1>5. Sum(segtab, Segs) \in Nat
  BY <1>3, <1>4, SumGrows
<1>6. Base \in Nat
  BY <1>1, <1>2 DEF Base, XHSIZ, SGSIZ
<1> QED
  BY <1>1, <1>2, <1>3, <1>5, <1>6 DEF Behind

(* What pass 2 has to show of a block.                                     *)
FileOn ==
  LET p == TextTo(objpt) IN
  AddressesFit => EntriesIn(p) /\ (AllPlaced(p) => InFileOf(p, file'))

LEMMA Step2 ==
  ASSUME Facts, xpc = "pass", xpass2, blk.typ # "OBOND", NextBlock,
         UNCHANGED <<asmvars, xpass2, segtab, header, segoff>>, xpc' \in {"pass", "ferr"},
         nseg' = nseg + Len(ItemsOf(blk, "OBSEC")),
         reloff' \in Int, symoff' \in Int, reloff' >= reloff, symoff' >= symoff, xpc' = "pass" => FileOn
  PROVE  XconInv'
<1>1. /\ objpt' \in 2 .. LastBlk /\ objpt' - 1 = objpt /\ SecsIn(objpt - 1) \in Nat
      /\ SecsIn(objpt) = SecsIn(objpt - 1) + Len(ItemsOf(blk, "OBSEC")) /\ nseg = 1 + SecsIn(objpt - 1)
  BY BlockRead
<1>2. /\ LastBlk' = LastBlk /\ Segs' = Segs /\ AddressesFit' = AddressesFit /\ UNCHANGED <<apc, out>>
      /\ SecsIn(objpt - 1)' = SecsIn(objpt' - 1) /\ TextTo(objpt - 1)' = TextTo(objpt' - 1)
  BY Still
<1>3. apc = "ended" /\ Segs <= SECSIZ /\ (AddressesFit => LengthsRight(LastBlk - 1))
  BY DEF Facts, XconInv, XconReads
<1>4. (LengthsRight(LastBlk - 1))' <=> LengthsRight(LastBlk - 1)
  BY <1>2 DEF LengthsRight, TextAt, EndedBy, EndOf
<1>5. Len(ItemsOf(blk, "OBSEC")) \in Nat
  <2>1. "OBSEC" \in ListTypes /\ <<>> \in Seq(Blocks) /\ blk \in Blocks
    BY BlockRead DEF ListTypes
  <2>2. ItemsOf(blk, "OBSEC") \in Seq(ListItems)
    BY <2>1, ItemsInAppend
  <2> QED
    BY <2>2
<1>6. nseg' = 1 + SecsIn(objpt - 1)'
  BY <1>1, <1>2, <1>5
<1>7. XconReads'
  BY <1>1, <1>2, <1>3, <1>4, <1>6 DEF XconReads
<1>8. XconType'
  <2>1. nseg' \in Nat \ {0}
    BY <1>5 DEF Facts, XconInv, XconType
  <2> QED
    BY <2>1 DEF Facts, XconInv, XconType
<1>9. ASSUME xpc' = "pass" PROVE XconWrites'
  <2>1. /\ segoff = [s \in Sections |-> IF s < Segs THEN Base + Sum(segtab, s) ELSE 0]
        /\ reloff \in Int /\ symoff \in Int /\ reloff >= Behind /\ symoff >= Behind
    BY DEF Facts, XconInv, XconWrites
  <2>2. Behind' = Behind /\ Base' = Base /\ \A s : Sum(segtab, s)' = Sum(segtab, s)
    BY <1>2 DEF Behind, Base
  <2>3. Behind \in Int
    BY <1>3, Layout
  <2>4. reloff' >= Behind' /\ symoff' >= Behind'
    BY <2>1, <2>2, <2>3
  <2>5. PICK p : p = TextTo(objpt)
    OBVIOUS
  <2>6. TextTo(objpt - 1)' = p
    BY <1>1, <1>2, <2>5
  <2>7. AddressesFit => EntriesIn(p) /\ (AllPlaced(p) => InFileOf(p, file'))
    BY <1>9, <2>5 DEF FileOn
  <2>8. (AddressesFit => /\ EntriesIn(TextTo(objpt - 1))
                         /\ AllPlaced(TextTo(objpt - 1)) => InFileOf(TextTo(objpt - 1), file))'
    BY <1>2, <2>6, <2>7 DEF EntriesIn, AllPlaced, EntryPlaced, InFileOf
  <2>9. segoff' = [s \in Sections |-> IF s < Segs' THEN Base' + Sum(segtab, s)' ELSE 0]
    BY <1>2, <2>1, <2>2
  <2> QED
    BY <2>4, <2>8, <2>9 DEF XconWrites
<1>10. xpc' = "ferr" => XconWrites'
  BY DEF XconWrites
<1> QED
  BY <1>7, <1>8, <1>9, <1>10 DEF XconInv

(* Segments that have a place in the file do not meet there, and what is   *)
(* behind them is behind them all.                                         *)
LEMMA SegmentsApart ==
  ASSUME Facts, xpc = "pass", xpass2, NEW s \in 1 .. Segs - 1, Stored(segtab, s),
         NEW x \in 0 .. segtab[s].len - 1
  PROVE  /\ segoff[s] + x \in Int /\ segoff[s] + x < Behind /\ segoff[s] \in Int
         /\ \A t \in 1 .. Segs - 1 : \A y \in 0 .. segtab[t].len - 1 :
              Stored(segtab, t) /\ t # s => segoff[t] + y # segoff[s] + x
<1>1. /\ apc = "ended" /\ Segs <= SECSIZ /\ segtab \in SegTabs
      /\ segoff = [i \in Sections |-> IF i < Segs THEN Base + Sum(segtab, i) ELSE 0]
  BY DEF Facts, XconInv, XconType, XconReads, XconWrites
<1>2. Segs \in 1 .. SECSIZ /\ SECSIZ \in Nat
  BY <1>1, Layout
<1>3. Base \in Int
  BY <1>1, Layout
<1>4. ASSUME NEW t \in 1 .. Segs - 1
      PROVE  /\ t \in Sections /\ t \in 0 .. SECSIZ /\ t \in 0 .. Segs - 1 /\ segoff[t] = Base + Sum(segtab, t)
             /\ Sum(segtab, t) \in Nat /\ segtab[t].len \in Nat
             /\ Stored(segtab, t) => PlaceIn(segtab, t) = segtab[t].len
  <2>1. t \in Sections /\ t \in 0 .. SECSIZ /\ t < Segs /\ t \in 0 .. Segs - 1
    BY <1>2 DEF Sections
  <2>2. Sum(segtab, t) \in Nat
    BY <1>1, <2>1, SumGrows
  <2>3. segtab[t].len \in Nat
    BY <1>1, <2>1 DEF SegTabs
  <2> QED
    BY <1>1, <2>1, <2>2, <2>3 DEF PlaceIn
<1>5. segoff[s] + x < Behind
  <2>1. Segs \in 0 .. SECSIZ
    BY <1>2
  <2>2. Sum(segtab, s) + PlaceIn(segtab, s) <= Sum(segtab, Segs) /\ Sum(segtab, Segs) \in Nat
    BY <1>1, <1>4, <2>1, SumGrows
  <2>3. Behind = Base + Sum(segtab, Segs)
    BY DEF Behind
  <2> QED
    BY <1>3, <1>4, <2>2, <2>3
<1>6. ASSUME NEW t \in 1 .. Segs - 1, NEW y \in 0 .. segtab[t].len - 1, Stored(segtab, t), t # s
      PROVE  segoff[t] + y # segoff[s] + x
  <2>1. CASE s < t
    <3>1. s \in 0 .. t - 1
      BY <2>1
    <3>2. Sum(segtab, s) + PlaceIn(segtab, s) <= Sum(segtab, t)
      BY <1>1, <1>4, <3>1, SumGrows
    <3> QED
      BY <1>3, <1>4, <1>6, <3>2
  <2>2. CASE t < s
    <3>1. t \in 0 .. s - 1
      BY <2>2
    <3>2. Sum(segtab, t) + PlaceIn(segtab, t) <= Sum(segtab, s)
      BY <1>1, <1>4, <3>1, SumGrows
    <3> QED
      BY <1>3, <1>4, <1>6, <3>2
  <2> QED
    BY <1>6, <2>1, <2>2
<1>7. segoff[s] + x \in Int /\ segoff[s] \in Int
  BY <1>3, <1>4
<1> QED
  BY <1>5, <1>6, <1>7

(* A block without text leaves the text in the file.                       *)
LEMMA NoText ==
  ASSUME Facts, xpc = "pass", xpass2, blk.typ \notin {"OBOND", "OBTXT"}, NextBlock, UNCHANGED asmvars,
         \A at \in Int : at < Behind => \A v : Written(file, at, v) => Written(file', at, v)
  PROVE  FileOn
<1>1. /\ blk \in Blocks /\ TextTo(objpt) = TextTo(objpt - 1) \o ReadBack(blk)
      /\ TextTo(objpt - 1) \in Seq(Entries)
  BY BlockRead
<1>2. TextTo(objpt) = TextTo(objpt - 1)
  <2>1. ReadBack(blk) = <<>>
    BY <1>1, ItemBlock
  <2> QED
    BY <1>1, <2>1, ConcatEmptySeq
<1>3. PICK p : p = TextTo(objpt - 1)
  OBVIOUS
<1>4. AddressesFit => EntriesIn(p) /\ (AllPlaced(p) => InFileOf(p, file))
  BY <1>3 DEF Facts, XconInv, XconWrites
<1>5. ASSUME EntriesIn(p), AllPlaced(p), InFileOf(p, file) PROVE InFileOf(p, file')
  <2> SUFFICES ASSUME NEW i \in 1 .. Len(p), ~Superseded(p, i)
               PROVE  Written(file', segoff[p[i].sec] + p[i].loc, p[i].val)
    BY DEF InFileOf
  <2>1. PICK s, x : s = p[i].sec /\ x = p[i].loc
    OBVIOUS
  <2>2. s \in 1 .. Segs - 1 /\ Stored(segtab, s) /\ x \in 0 .. segtab[s].len - 1
    BY <1>5, <2>1 DEF EntriesIn, AllPlaced, EntryPlaced
  <2>3. segoff[s] + x \in Int /\ segoff[s] + x < Behind
    BY <2>2, SegmentsApart
  <2>4. Written(file, segoff[s] + x, p[i].val)
    BY <1>5, <2>1 DEF InFileOf
  <2> QED
    BY <2>1, <2>3, <2>4
<1> QED
  BY <1>2, <1>3, <1>4, <1>5 DEF FileOn

LEMMA IgnoredXcon == ASSUME Facts, Ignored PROVE XconInv'
<1>1. /\ xpc = "pass" /\ blk.typ = "OBTRA" /\ NextBlock
      /\ UNCHANGED <<asmvars, xpc, xpass2, nseg, segtab, header, segoff, reloff, symoff, file>>
  BY DEF Ignored, sizes, offsets
<1>2. Len(ItemsOf(blk, "OBSEC")) = 0
  BY <1>1, BlockRead, ItemBlock
<1>3. nseg \in Nat /\ xpass2 \in BOOLEAN /\ XconType
  BY DEF Facts, XconInv, XconType
<1>4. nseg' = nseg + Len(ItemsOf(blk, "OBSEC"))
  BY <1>1, <1>2, <1>3
<1>5. CASE ~xpass2
  <2>1. LengthsOn
    BY <1>1 DEF LengthsOn, TextAt, blk
  <2>2. XconType'
    BY <1>1, <1>3 DEF XconType
  <2> QED
    BY <1>1, <1>4, <1>5, <2>1, <2>2, Step1
<1>6. CASE xpass2
  <2>1. reloff \in Int /\ symoff \in Int
    BY <1>1, <1>6 DEF Facts, XconInv, XconWrites
  <2>2. FileOn
    BY <1>1, <1>6, NoText
  <2>3. reloff' \in Int /\ symoff' \in Int /\ reloff' >= reloff /\ symoff' >= symoff
    BY <1>1, <2>1
  <2> QED
    BY <1>1, <1>4, <1>6, <2>2, <2>3, Step2
<1> QED
  BY <1>3, <1>5, <1>6

(* Symbols go behind the segments.                                         *)
LEMMA SymbolsWritten ==
  ASSUME Facts, xpc = "pass", xpass2, NEW es, Len(es) \in Nat, file' = Put(file, symoff, SYSIZ, es)
  PROVE  \A at \in Int : at < Behind => \A v : Written(file, at, v) => Written(file', at, v)
<1> SUFFICES ASSUME NEW at \in Int, at < Behind, NEW v, Written(file, at, v) PROVE Written(file', at, v)
  OBVIOUS
<1>1. symoff \in Int /\ symoff >= Behind
  BY DEF Facts, XconInv, XconWrites
<1>2. apc = "ended"
  BY DEF Facts, XconInv, XconReads
<1>3. Behind \in Int
  BY <1>2, Layout
<1>4. at < symoff /\ SYSIZ \in Nat
  BY <1>1, <1>3 DEF SYSIZ
<1> QED
  BY <1>1, <1>4, PutBelow

LEMMA Sections2Xcon == ASSUME Facts, Sections2 PROVE XconInv'
<1> DEFINE n == Len(blk.items)
           es == [i \in 1 .. n |-> [name |-> blk.items[i], typ |-> "SEG", val |-> 0, sg |-> nseg + i - 1 - firstseg]]
<1>1. /\ xpc = "pass" /\ xpass2 /\ blk.typ = "OBSEC" /\ NextBlock
      /\ UNCHANGED <<asmvars, xpc, xpass2, segtab, header, segoff, reloff>>
      /\ file' = Put(file, symoff, SYSIZ, es) /\ symoff' = symoff + n * SYSIZ /\ nseg' = nseg + n
  BY DEF Sections2, Block2, sizes
<1>2. n \in Nat /\ ItemsOf(blk, "OBSEC") = blk.items
  BY <1>1, BlockRead, ItemBlock DEF ListTypes
<1>3. Len(es) \in Nat
  BY <1>2
<1> HIDE DEF n, es
<1>4. FileOn
  BY <1>1, <1>3, SymbolsWritten, NoText
<1>5. reloff \in Int /\ symoff \in Int
  BY <1>1 DEF Facts, XconInv, XconWrites
<1>6. reloff' \in Int /\ symoff' \in Int /\ reloff' >= reloff /\ symoff' >= symoff
  BY <1>1, <1>2, <1>5 DEF SYSIZ
<1>7. nseg' = nseg + Len(ItemsOf(blk, "OBSEC"))
  BY <1>1, <1>2 DEF n
<1> QED
  BY <1>1, <1>4, <1>6, <1>7, Step2

LEMMA Symbols2Xcon == ASSUME Facts, Symbols2 PROVE XconInv'
<1> DEFINE n == Len(blk.items)
           es == [i \in 1 .. n |-> Entry(blk.items[i])]
<1>1. /\ xpc = "pass" /\ xpass2 /\ blk.typ \in {"OBGLO", "OBLOC"} /\ NextBlock
      /\ UNCHANGED <<asmvars, xpc, xpass2, nseg, segtab, header, segoff, reloff>>
      /\ file' = Put(file, symoff, SYSIZ, es) /\ symoff' = symoff + n * SYSIZ
  BY DEF Symbols2, Block2, sizes
<1>2. n \in Nat /\ Len(ItemsOf(blk, "OBSEC")) = 0
  BY <1>1, BlockRead, ItemBlock DEF ListTypes
<1>3. Len(es) \in Nat
  BY <1>2
<1> HIDE DEF n, es
<1>4. FileOn
  BY <1>1, <1>3, SymbolsWritten, NoText
<1>5. reloff \in Int /\ symoff \in Int /\ nseg \in Nat
  BY <1>1 DEF Facts, XconInv, XconWrites, XconType
<1>6. reloff' \in Int /\ symoff' \in Int /\ reloff' >= reloff /\ symoff' >= symoff
  BY <1>1, <1>2, <1>5 DEF SYSIZ
<1>7. nseg' = nseg + Len(ItemsOf(blk, "OBSEC"))
  BY <1>1, <1>2, <1>5
<1> QED
  BY <1>1, <1>4, <1>6, <1>7, Step2

(* What a block of text says, and where pass 2 puts it.                    *)
LEMMA BlockText ==
  ASSUME Facts, xpc = "pass", xpass2, blk.typ = "OBTXT", NextBlock, UNCHANGED asmvars, AddressesFit
  PROVE  LET q == ReadBack(blk) IN
         /\ q \in Seq(Entries) /\ Len(q) = Len(blk.txt)
         /\ \A k \in 1 .. Len(q) : /\ q[k].val = blk.txt[k] /\ q[k].sec = blk.sec /\ q[k].loc = Adr + k - 1
                                   /\ q[k].loc \in 0 .. segtab[blk.sec].len - 1
<1> DEFINE q == ReadBack(blk)
<1>1. /\ blk \in TextBlocks /\ blk.sec \in Sections /\ blk.txt \in Seq(0 .. 255)
      /\ EndOf(blk) = blk.adr + Len(blk.txt) /\ Len(blk.txt) \in Nat
      /\ blk.adr \in 0 .. W - 1 /\ Adr = blk.adr
  BY TextBlock
<1>2. /\ q = [i \in DOMAIN blk.txt |-> [val |-> blk.txt[i], rel |-> RelAt(blk, i), sec |-> blk.sec,
                                        loc |-> blk.adr + i - 1]]
      /\ q \in Seq(Entries)
  BY <1>1, ReadBackType DEF ReadBack, Blocks
<1>3. DOMAIN blk.txt = 1 .. Len(blk.txt)
  BY <1>1
<1>4. Len(q) = Len(blk.txt)
  BY <1>1, <1>2, <1>3
<1>5. EndOf(blk) <= segtab[blk.sec].len /\ segtab[blk.sec].len \in Nat
  <2>1. objpt \in 1 .. LastBlk - 1 /\ TextAt(objpt, blk.sec) /\ out.blks[objpt] = blk
    BY BlockRead DEF TextAt, blk
  <2>2. LengthsRight(LastBlk - 1) /\ segtab \in SegTabs
    BY DEF Facts, XconInv, XconReads, XconType
  <2> QED
    BY <1>1, <2>1, <2>2 DEF LengthsRight, SegTabs
<1>6. ASSUME NEW k \in 1 .. Len(q)
      PROVE  /\ q[k].val = blk.txt[k] /\ q[k].sec = blk.sec /\ q[k].loc = Adr + k - 1
             /\ q[k].loc \in 0 .. segtab[blk.sec].len - 1
  <2>1. q[k].val = blk.txt[k] /\ q[k].sec = blk.sec /\ q[k].loc = blk.adr + k - 1
    BY <1>2, <1>3, <1>4
  <2>2. W \in Nat
    BY Width16
  <2>3. PICK a : a = blk.adr
    OBVIOUS
  <2>4. a \in 0 .. W - 1 /\ a = Adr /\ q[k].loc = a + k - 1 /\ k \in 1 .. Len(blk.txt)
    BY <1>1, <1>4, <2>1, <2>3
  <2>5. a + Len(blk.txt) <= segtab[blk.sec].len
    BY <1>1, <1>5, <2>3
  <2> HIDE DEF q
  <2>6. q[k].loc \in 0 .. segtab[blk.sec].len - 1
    BY <1>1, <1>5, <2>2, <2>4, <2>5
  <2> QED
    BY <2>1, <2>4, <2>6
<1> QED
  BY <1>2, <1>4, <1>6

(* The relocation entries, which go behind the segments.                   *)
LEMMA RelocsWritten ==
  ASSUME Facts, xpc = "pass", xpass2, NEW f, NEW es, Len(es) \in Nat
  PROVE  \A at \in Int : at < Behind => \A v : Written(f, at, v) => Written(Put(f, reloff, RLSIZ, es), at, v)
<1> SUFFICES ASSUME NEW at \in Int, at < Behind, NEW v, Written(f, at, v)
             PROVE  Written(Put(f, reloff, RLSIZ, es), at, v)
  OBVIOUS
<1>1. reloff \in Int /\ reloff >= Behind
  BY DEF Facts, XconInv, XconWrites
<1>2. apc = "ended"
  BY DEF Facts, XconInv, XconReads
<1>3. Behind \in Int
  BY <1>2, Layout
<1>4. at < reloff /\ RLSIZ \in Nat
  BY <1>1, <1>3 DEF RLSIZ
<1> QED
  BY <1>1, <1>4, PutBelow

LEMMA TextWritten ==
  ASSUME Facts, xpc = "pass", xpass2, blk.typ = "OBTXT", NextBlock, UNCHANGED asmvars, AddressesFit,
         NEW es, Len(es) \in Nat,
         file' = Put(Put(file, segoff[blk.sec] + Adr, 1, [i \in DOMAIN blk.txt |-> [text |-> blk.txt[i]]]),
                     reloff, RLSIZ, es)
  PROVE  FileOn
<1>1. PICK p, q, r : p = TextTo(objpt - 1) /\ q = ReadBack(blk) /\ r = TextTo(objpt)
  OBVIOUS
<1>2. /\ p \in Seq(Entries) /\ q \in Seq(Entries) /\ Len(q) = Len(blk.txt) /\ r = p \o q
      /\ \A k \in 1 .. Len(q) : /\ q[k].val = blk.txt[k] /\ q[k].sec = blk.sec /\ q[k].loc = Adr + k - 1
                                /\ q[k].loc \in 0 .. segtab[blk.sec].len - 1
  BY <1>1, BlockRead, BlockText
<1>3. PICK n, m : n = Len(p) /\ m = Len(q)
  OBVIOUS
<1>4. /\ n \in Nat /\ m \in Nat /\ Len(r) = n + m
      /\ \A i \in 1 .. n : r[i] = p[i]
      /\ \A k \in 1 .. m : r[n + k] = q[k]
  <2>1. n \in Nat /\ m \in Nat
    BY <1>2, <1>3
  <2>2. Len(r) = n + m /\ \A i \in 1 .. n + m : r[i] = IF i <= n THEN p[i] ELSE q[i - n]
    BY <1>2, <1>3, ConcatProperties
  <2>3. \A k \in 1 .. m : n + k \in 1 .. n + m /\ ~(n + k <= n) /\ (n + k) - n = k
    BY <2>1
  <2>4. \A i \in 1 .. n : i \in 1 .. n + m /\ i <= n
    BY <2>1
  <2> QED
    BY <2>1, <2>2, <2>3, <2>4
<1>5. \A i \in 1 .. n + m : i \in 1 .. n \/ \E k \in 1 .. m : i = n + k
  <2> SUFFICES ASSUME NEW i \in 1 .. n + m, i \notin 1 .. n PROVE \E k \in 1 .. m : i = n + k
    OBVIOUS
  <2>1. i - n \in 1 .. m /\ i = n + (i - n)
    BY <1>4
  <2> QED
    BY <2>1
<1>6. EntriesIn(p) /\ (AllPlaced(p) => InFileOf(p, file))
  BY <1>1 DEF Facts, XconInv, XconWrites
<1>7. EntriesIn(r)
  <2> SUFFICES ASSUME NEW i \in 1 .. n + m PROVE r[i].loc \in 0 .. segtab[r[i].sec].len - 1
    BY <1>4 DEF EntriesIn
  <2>1. CASE i \in 1 .. n
    BY <1>3, <1>4, <1>6, <2>1 DEF EntriesIn
  <2>2. ASSUME NEW k \in 1 .. m, i = n + k PROVE r[i].loc \in 0 .. segtab[r[i].sec].len - 1
    BY <1>2, <1>3, <1>4, <2>2
  <2> QED
    BY <1>5, <2>1, <2>2
<1>8. ASSUME AllPlaced(r) PROVE InFileOf(r, file')
  <2>1. AllPlaced(p)
    BY <1>3, <1>4, <1>8 DEF AllPlaced
  <2>2. InFileOf(p, file)
    BY <1>6, <2>1
  <2>3. PICK s, a, d, off, txt, g :
          /\ s = blk.sec /\ a = Adr /\ d = segoff[s] /\ off = segoff[blk.sec] + Adr /\ txt = blk.txt
          /\ g = Put(file, off, 1, [i \in DOMAIN txt |-> [text |-> txt[i]]])
    OBVIOUS
  <2>4. file' = Put(g, reloff, RLSIZ, es)
    BY <2>3
  <2>5. /\ txt \in Seq(0 .. 255) /\ Len(txt) = m /\ a \in Int /\ d \in Int /\ off = d + a
        /\ \A k \in 1 .. m : q[k].val = txt[k] /\ q[k].sec = s /\ q[k].loc = a + k - 1
    <3>1. txt \in Seq(0 .. 255) /\ s \in Sections
      BY <2>3, TextBlock
    <3>2. a \in Int
      <4>1. blk.adr \in Int /\ W \in Nat
        BY TextBlock, Width16
      <4>2. a \in 0 .. W - 1
        BY <2>3, <4>1, Width16 DEF Adr
      <4> QED
        BY <4>1, <4>2
    <3>3. d \in Int
      <4>1. /\ apc = "ended" /\ Segs <= SECSIZ /\ segtab \in SegTabs
            /\ segoff = [j \in Sections |-> IF j < Segs THEN Base + Sum(segtab, j) ELSE 0]
        BY DEF Facts, XconInv, XconType, XconReads, XconWrites
      <4>2. s \in 0 .. SECSIZ /\ Segs \in 1 .. SECSIZ /\ SECSIZ \in Nat
        BY <3>1, <4>1, Layout DEF Sections
      <4>3. Sum(segtab, s) \in Nat
        BY <4>1, <4>2, SumGrows
      <4>4. Base \in Int
        BY <4>1, Layout
      <4>5. segoff[s] = IF s < Segs THEN Base + Sum(segtab, s) ELSE 0
        BY <3>1, <4>1, Zenon
      <4>6. PICK x, y, z : x = Base /\ y = Sum(segtab, s) /\ z = segoff[s]
        OBVIOUS
      <4>7. z \in Int
        BY <4>3, <4>4, <4>5, <4>6
      <4> QED
        BY <2>3, <4>6, <4>7
    <3>4. off = d + a
      BY <2>3
    <3> QED
      BY <1>2, <1>3, <2>3, <3>1, <3>2, <3>3, <3>4
  <2>6. ASSUME NEW i \in 1 .. n + m
        PROVE  /\ r[i].sec \in 1 .. Segs - 1 /\ Stored(segtab, r[i].sec)
               /\ r[i].loc \in 0 .. segtab[r[i].sec].len - 1
    BY <1>4, <1>7, <1>8 DEF AllPlaced, EntryPlaced, EntriesIn
  <2>7. \A i \in 1 .. n + m : segoff[r[i].sec] + r[i].loc \in Int /\ segoff[r[i].sec] + r[i].loc < Behind
    <3> SUFFICES ASSUME NEW i \in 1 .. n + m
                 PROVE  segoff[r[i].sec] + r[i].loc \in Int /\ segoff[r[i].sec] + r[i].loc < Behind
      OBVIOUS
    <3>1. PICK t, x : t = r[i].sec /\ x = r[i].loc
      OBVIOUS
    <3>2. t \in 1 .. Segs - 1 /\ Stored(segtab, t) /\ x \in 0 .. segtab[t].len - 1
      BY <2>6, <3>1
    <3> QED
      BY <3>1, <3>2, SegmentsApart
  <2>8. \A at \in Int :
          /\ at \in off .. off + m - 1 => Written(g, at, txt[at - off + 1])
          /\ \A v : at \notin off .. off + m - 1 /\ Written(file, at, v) => Written(g, at, v)
    <3> SUFFICES ASSUME NEW at \in Int
                 PROVE  /\ at \in off .. off + m - 1 => Written(g, at, txt[at - off + 1])
                        /\ \A v : at \notin off .. off + m - 1 /\ Written(file, at, v) => Written(g, at, v)
      OBVIOUS
    <3>1. off \in Int /\ txt \in Seq(0 .. 255) /\ m = Len(txt)
      BY <2>5
    <3>2. PICK es1 : es1 = [i \in DOMAIN txt |-> [text |-> txt[i]]]
      OBVIOUS
    <3>3. /\ at \in off .. off + Len(txt) - 1 => Written(Put(file, off, 1, es1), at, txt[at - off + 1])
          /\ \A v : at \notin off .. off + Len(txt) - 1 /\ Written(file, at, v)
                     => Written(Put(file, off, 1, es1), at, v)
      BY <3>1, <3>2, PutText
    <3>4. g = Put(file, off, 1, es1)
      BY <2>3, <3>2
    <3> QED
      BY <3>1, <3>3, <3>4
  <2>9. \A at \in Int : at < Behind => \A v : Written(g, at, v) => Written(file', at, v)
    BY <2>4, RelocsWritten
  <2>10. ASSUME NEW k \in 1 .. m
         PROVE  Written(file', segoff[r[n + k].sec] + r[n + k].loc, r[n + k].val)
    <3>1. m > 0 /\ n + k \in 1 .. n + m /\ r[n + k] = q[k]
      BY <1>4
    <3>2. PICK at : at = segoff[s] + (a + k - 1)
      OBVIOUS
    <3>3. at = segoff[r[n + k].sec] + r[n + k].loc /\ r[n + k].val = txt[k]
      BY <2>5, <3>1, <3>2
    <3>4. at \in Int /\ at < Behind
      BY <2>7, <3>1, <3>3
    <3>5. at = off + k - 1
      BY <2>3, <2>5, <3>2
    <3>6. at \in off .. off + m - 1 /\ at - off + 1 = k
      BY <1>4, <2>5, <3>5
    <3>7. Written(g, at, txt[k])
      BY <2>8, <3>4, <3>6
    <3> QED
      BY <2>9, <3>3, <3>4, <3>7
  <2>11. ASSUME NEW i \in 1 .. n, ~Superseded(r, i)
         PROVE  Written(file', segoff[r[i].sec] + r[i].loc, r[i].val)
    <3>1. i \in 1 .. n + m /\ r[i] = p[i]
      BY <1>4
    <3>2. ~Superseded(p, i)
      <4> SUFFICES ASSUME NEW j \in 1 .. n, j > i, p[j].sec = p[i].sec, p[j].loc = p[i].loc
                   PROVE  Superseded(r, i)
        BY <1>3, <2>11 DEF Superseded
      <4>1. j \in 1 .. Len(r) /\ r[j] = p[j]
        BY <1>4
      <4> QED
        BY <3>1, <4>1 DEF Superseded
    <3>3. PICK t, x, at, v : t = r[i].sec /\ x = r[i].loc /\ at = segoff[t] + x /\ v = r[i].val
      OBVIOUS
    <3>4. Written(file, at, v)
      BY <1>3, <2>2, <3>1, <3>2, <3>3 DEF InFileOf
    <3>5. t \in 1 .. Segs - 1 /\ Stored(segtab, t) /\ x \in 0 .. segtab[t].len - 1
      BY <2>6, <3>1, <3>3
    <3>6. at \in Int /\ at < Behind
      BY <2>7, <3>1, <3>3
    <3>7. at \notin off .. off + m - 1
      <4> SUFFICES ASSUME at \in off .. off + m - 1 PROVE FALSE
        OBVIOUS
      <4>1. PICK k, y : k = at - off + 1 /\ y = a + k - 1
        OBVIOUS
      <4>2. k \in 1 .. m /\ at = d + y /\ y \in Int
        BY <1>4, <2>5, <3>6, <4>1
      <4>3. /\ n + k \in 1 .. n + m /\ n + k > i /\ r[n + k] = q[k]
            /\ r[n + k].sec = s /\ r[n + k].loc = y
        BY <1>4, <2>5, <4>1, <4>2
      <4>4. y \in 0 .. segtab[s].len - 1 /\ s \in 1 .. Segs - 1 /\ Stored(segtab, s) /\ at = segoff[s] + y
        BY <2>3, <2>6, <4>2, <4>3
      <4>5. CASE t = s
        <5>1. x \in Int
          <6>1. p[i] \in Entries
            BY <1>2, <1>3
          <6> QED
            BY <3>1, <3>3, <6>1 DEF Entries
        <5>2. x = y
          <6>1. at = d + x
            BY <2>3, <3>3, <4>5
          <6>2. d \in Int
            BY <2>5
          <6> QED
            BY <4>2, <5>1, <6>1, <6>2
        <5> QED
          BY <1>4, <2>11, <3>3, <4>3, <4>5, <5>2 DEF Superseded
      <4>6. CASE t # s
        <5>1. segoff[t] + x # segoff[s] + y
          BY <3>5, <4>4, <4>6, SegmentsApart
        <5> QED
          BY <3>3, <4>4, <5>1
      <4> QED
        BY <4>5, <4>6
    <3>8. Written(g, at, v)
      BY <2>8, <3>4, <3>6, <3>7
    <3> QED
      BY <2>9, <3>3, <3>6, <3>8
  <2> QED
    BY <1>4, <1>5, <2>10, <2>11 DEF InFileOf
<1> QED
  BY <1>1, <1>7, <1>8 DEF FileOn

LEMMA Text2Xcon == ASSUME Facts, Text2 PROVE XconInv'
<1>1. PICK n, es : /\ n = IF Illegal = {} THEN Len(blk.rel) ELSE Min(Illegal) - 1
                   /\ es = [i \in 1 .. n |-> RelEntry(blk.rel[i])]
  OBVIOUS
<1>2. /\ xpc = "pass" /\ xpass2 /\ blk.typ = "OBTXT" /\ NextBlock
      /\ UNCHANGED <<asmvars, xpass2, nseg, segtab, header, segoff, symoff>>
      /\ xpc' = IF Illegal = {} THEN "pass" ELSE "ferr"
      /\ file' = Put(Put(file, segoff[blk.sec] + Adr, 1, [i \in DOMAIN blk.txt |-> [text |-> blk.txt[i]]]),
                     reloff, RLSIZ, es)
      /\ reloff' = reloff + n * RLSIZ
  BY <1>1 DEF Text2, Block2, sizes
<1>3. n \in Nat
  <2>1. DOMAIN blk.rel = 1 .. Len(blk.rel) /\ Len(blk.rel) \in Nat
    BY <1>2, TextBlock
  <2>2. Illegal \subseteq Nat \ {0}
    BY <2>1 DEF Illegal
  <2>3. CASE Illegal # {}
    <3>1. PICK k \in Illegal : \A y \in Illegal : k <= y
      <4>1. Illegal \in SUBSET Nat
        BY <2>2
      <4> QED
        BY <2>3, <4>1, NatMin
    <3>2. Min(Illegal) \in Illegal
      BY <3>1 DEF Min
    <3>3. n = Min(Illegal) - 1
      BY <1>1, <2>3
    <3>4. Min(Illegal) \in Nat \ {0}
      BY <2>2, <3>2
    <3> QED
      BY <3>3, <3>4
  <2>4. CASE Illegal = {}
    BY <1>1, <2>1, <2>4
  <2> QED
    BY <2>3, <2>4
<1>4. Len(es) \in Nat
  <2>1. Len(es) = n
    BY <1>1, <1>3
  <2> QED
    BY <1>3, <2>1
<1>5. FileOn
  <2>1. CASE AddressesFit
    BY <1>2, <1>4, <2>1, TextWritten
  <2>2. CASE ~AddressesFit
    BY <2>2 DEF FileOn
  <2> QED
    BY <2>1, <2>2
<1>6. reloff \in Int /\ symoff \in Int /\ nseg \in Nat
  BY <1>2 DEF Facts, XconInv, XconWrites, XconType
<1>7. reloff' \in Int /\ symoff' \in Int /\ reloff' >= reloff /\ symoff' >= symoff
  BY <1>2, <1>3, <1>6 DEF RLSIZ
<1>8. nseg' = nseg + Len(ItemsOf(blk, "OBSEC"))
  <2>1. Len(ItemsOf(blk, "OBSEC")) = 0
    BY <1>2, BlockRead, ItemBlock
  <2> QED
    BY <1>2, <1>6, <2>1
<1>9. xpc' \in {"pass", "ferr"}
  BY <1>2
<1> QED
  BY <1>2, <1>5, <1>7, <1>8, <1>9, Step2

(* Every step.                                                             *)
LEMMA XconStep == Facts /\ [Next]_vars => XconInv'
<1> SUFFICES ASSUME Facts, [Next]_vars PROVE XconInv'
  OBVIOUS
<1>1. CASE Assemble /\ UNCHANGED xvars
  <2>1. apc # "ended"
    BY <1>1, Zenon DEF Assemble, StartPass, Interlude, EndPass, End, Label, Data, Instr, Align, Block, Org, Abs,
                SectNoLabel, SectOld, SectNew, Global, Equ, If, Else, Endif, Skip, Assembling, Reading
  <2>2. xpc = "asz8k" /\ ~xpass2 /\ \A s \in Sections : segtab[s].len = 0
    BY <2>1 DEF Facts, XconInv, XconReads
  <2>3. UNCHANGED <<xpc, xpass2, objpt, segtab, nseg, header, segoff, reloff, symoff, file>>
    BY <1>1 DEF xvars
  <2>4. XconType'
    BY <2>3 DEF Facts, XconInv, XconType
  <2>5. XconReads'
    BY <2>2, <2>3 DEF XconReads
  <2>6. XconWrites'
    BY <2>2, <2>3 DEF XconWrites
  <2> QED
    BY <2>4, <2>5, <2>6 DEF XconInv
<1>2. CASE Convert
  BY <1>2, BeginXcon, IgnoredXcon, EndPass1Xcon, InterpassXcon, EndPass2Xcon, Sections1Xcon, Symbols1Xcon,
     Text1Xcon, Sections2Xcon, Symbols2Xcon, Text2Xcon DEF Convert
<1>3. CASE UNCHANGED vars
  <2>1. UNCHANGED asmvars /\ UNCHANGED <<xpc, xpass2, objpt, segtab, nseg, header, segoff, reloff, symoff, file>>
    BY <1>3 DEF vars, xvars
  <2>2. /\ LastBlk' = LastBlk /\ Segs' = Segs /\ AddressesFit' = AddressesFit /\ UNCHANGED <<apc, out>>
        /\ SecsIn(objpt - 1)' = SecsIn(objpt' - 1) /\ TextTo(objpt - 1)' = TextTo(objpt' - 1)
    BY <2>1, Still
  <2>3. XconType'
    BY <2>1 DEF Facts, XconInv, XconType
  <2>4. \A k : LengthsRight(k)' <=> LengthsRight(k)
    BY <2>1, <2>2 DEF LengthsRight, TextAt, EndedBy, EndOf
  <2>5. (LengthsRight(IF xpass2 THEN LastBlk - 1 ELSE objpt - 1))'
          <=> LengthsRight(IF xpass2 THEN LastBlk - 1 ELSE objpt - 1)
    BY <2>1, <2>2 DEF LengthsRight, TextAt, EndedBy, EndOf
  <2>6. XconReads'
    <3>1. XconReads
      BY DEF Facts, XconInv
    <3> QED
      BY <2>1, <2>2, <2>5, <3>1 DEF XconReads
  <2>7. XconWrites' <=> XconWrites
    BY <2>1, <2>2 DEF XconWrites, Behind, Base, Segs, SecsIn, Prefix, TextTo, LastBlk, AddressesFit, EntriesIn,
                AllPlaced, EntryPlaced, InFileOf
  <2> QED
    BY <2>3, <2>6, <2>7 DEF Facts, XconInv
<1> QED
  BY <1>1, <1>2, <1>3 DEF Next

(* A byte is read where it was written.                                    *)
LEMMA ByteRead ==
  ASSUME NEW off \in Int, NEW v, Written(file, off, v)
  PROVE  ReadAt(off, 1) = [text |-> v]
<1>1. off \in DOMAIN file /\ file[off] = [of |-> [text |-> v], byte |-> 0] /\ file[off].of = [text |-> v]
  BY DEF Written
<1>2. off .. off + 1 - 1 = {off} /\ off - off = 0
  OBVIOUS
<1>3. [text |-> v] \in {file[o].of : o \in {off} \cap DOMAIN file}
  <2>1. off \in {off} \cap DOMAIN file
    BY <1>1
  <2> QED
    BY <1>1, <2>1
<1>4. \A o \in off .. off + 1 - 1 : o \in DOMAIN file /\ file[o] = [of |-> [text |-> v], byte |-> o - off]
  BY <1>1, <1>2
<1> QED
  BY <1>1, <1>3, <1>4 DEF ReadAt

(* The segments are as long as the sections.                               *)
LEMMA LengthsMeet ==
  ASSUME Facts, apc = "ended", LengthsRight(LastBlk - 1), NEW s \in Sections
  PROVE  segtab[s].len = high[s]
<1>1. /\ out \in Objects /\ LastBlk \in Nat /\ out.blks[LastBlk].typ = "OBOND"
      /\ HighRight(out, high) /\ TextIn(out) = {b \in Range(out.blks) : b.typ = "OBTXT"}
  BY Ended DEF Facts
<1>2. out.blks \in Seq(Blocks) /\ DOMAIN out.blks = 1 .. LastBlk
  BY <1>1 DEF Objects, LastBlk
<1>3. high[s] \in Nat /\ segtab[s].len \in Nat
  BY <1>1 DEF HighRight, Facts, XconInv, XconType, SegTabs
<1>4. \A b \in TextIn(out) : EndOf(b) \in Int
  BY <1>1, TextInType
<1>5. ASSUME NEW i \in 1 .. LastBlk - 1, TextAt(i, s)
      PROVE  EndOf(out.blks[i]) <= high[s] /\ EndOf(out.blks[i]) <= segtab[s].len
  <2>1. i \in DOMAIN out.blks /\ out.blks[i].typ = "OBTXT" /\ out.blks[i].sec = s
    BY <1>1, <1>2, <1>5 DEF TextAt
  <2>2. out.blks[i] \in TextIn(out)
    BY <1>1, <2>1 DEF Range
  <2> QED
    BY <1>1, <1>5, <2>1, <2>2 DEF HighRight, LengthsRight
<1>6. segtab[s].len <= high[s]
  <2>1. CASE segtab[s].len = 0
    BY <1>3, <2>1
  <2>2. CASE segtab[s].len # 0
    <3>1. EndedBy(LastBlk - 1, s, segtab[s].len)
      BY <2>2 DEF LengthsRight
    <3>2. PICK i \in 1 .. LastBlk - 1 : TextAt(i, s) /\ EndOf(out.blks[i]) = segtab[s].len
      BY <3>1 DEF EndedBy
    <3> QED
      BY <1>5, <3>2
  <2> QED
    BY <2>1, <2>2
<1>7. high[s] <= segtab[s].len
  <2>1. CASE high[s] = 0
    BY <1>3, <2>1
  <2>2. CASE high[s] # 0
    <3>1. EndsAt(out, s, high[s])
      BY <1>1, <2>2 DEF HighRight
    <3>2. PICK b \in TextIn(out) : b.sec = s /\ EndOf(b) = high[s]
      BY <3>1 DEF EndsAt
    <3>3. PICK i \in DOMAIN out.blks : b = out.blks[i] /\ b.typ = "OBTXT"
      BY <1>1, <3>2 DEF Range
    <3>4. i # LastBlk
      BY <1>1, <3>3
    <3>5. i \in 1 .. LastBlk - 1 /\ TextAt(i, s)
      BY <1>1, <1>2, <3>2, <3>3, <3>4 DEF TextAt
    <3> QED
      BY <1>5, <3>2, <3>3, <3>5
  <2> QED
    BY <2>1, <2>2
<1> QED
  BY <1>3, <1>6, <1>7

LEMMA XconTell == Facts => (AddressesFit => TextInPlace)
<1> SUFFICES ASSUME Facts, AddressesFit, xpc = "done" PROVE TextInPlace
  BY DEF TextInPlace
<1>1. /\ apc = "ended" /\ objpt = LastBlk /\ xpass2 /\ nseg = Segs /\ LengthsRight(LastBlk - 1)
      /\ segtab \in SegTabs /\ segtab[0].typ = "BSS" /\ nseg \in Nat
  BY DEF Facts, XconInv, XconReads, XconType, Segs
<1>2. Segs \in 1 .. SECSIZ /\ SECSIZ \in Nat /\ TextTo(LastBlk - 1) = want
  BY <1>1, Ended, AsmAssumption DEF Facts, RBUND
<1>3. \A s \in 1 .. nseg - 1 : s \in Sections /\ s \in 1 .. SECSIZ - 1 /\ s < Segs
  BY <1>1, <1>2 DEF Sections
<1>4. \A s \in 1 .. nseg - 1 : segtab[s].len = high[s]
  BY <1>1, <1>3, LengthsMeet
<1>5. ASSUME Placed, NEW i \in DOMAIN want
      PROVE  \/ \E j \in DOMAIN want : j > i /\ want[j].sec = want[i].sec /\ want[j].loc = want[i].loc
             \/ ReadAt(SegmentAt(want[i].sec) + want[i].loc, 1) = [text |-> want[i].val]
  <2>1. DOMAIN want = 1 .. Len(want) /\ want \in Seq(Entries)
    <3>1. out \in Objects /\ LastBlk \in Nat /\ LastBlk >= 2
      BY <1>1, Ended DEF Facts
    <3>2. PICK k : k = LastBlk - 1
      OBVIOUS
    <3>3. k \in 0 .. LastBlk
      BY <3>1, <3>2
    <3>4. TextTo(k) \in Seq(Entries)
      BY <3>1, <3>3, Further
    <3> QED
      BY <1>2, <3>2, <3>4
  <2>2. AllPlaced(want)
    BY <1>1, <1>5, <2>1 DEF Placed, AllPlaced, EntryPlaced, InFile, Stored
  <2>3. EntriesIn(want) /\ InFileOf(want, file)
    BY <1>1, <1>2, <2>2 DEF Facts, XconInv, XconWrites
  <2>4. PICK s, x, v : s = want[i].sec /\ x = want[i].loc /\ v = want[i].val
    OBVIOUS
  <2>5. s \in 1 .. nseg - 1 /\ s \in 1 .. SECSIZ - 1 /\ s \in Sections /\ s < Segs /\ x \in Int
    <3>1. s \in 1 .. nseg - 1
      BY <1>5, <2>4 DEF Placed
    <3>2. x \in Int
      <4>1. want[i] \in Entries
        BY <2>1
      <4> QED
        BY <2>4, <4>1 DEF Entries
    <3> QED
      BY <1>3, <3>1, <3>2
  <2>6. CASE Superseded(want, i)
    BY <2>1, <2>6 DEF Superseded
  <2>7. CASE ~Superseded(want, i)
    <3>1. Written(file, segoff[s] + x, v)
      BY <2>1, <2>3, <2>4, <2>7 DEF InFileOf
    <3>2. segoff[s] = Base + Sum(segtab, s)
      <4>1. segoff = [t \in Sections |-> IF t < Segs THEN Base + Sum(segtab, t) ELSE 0]
        <5>1. xpc # "ferr" /\ XconWrites
          BY DEF Facts, XconInv
        <5> QED
          BY <1>1, <5>1 DEF XconWrites
      <4> QED
        BY <2>5, <4>1
    <3>3. SegmentAt(s) = SegmentsAt + Sum(segtab, s)
      BY <1>1, <2>5, ReaderFinds
    <3>4. SegmentsAt = Base
      BY <1>1 DEF SegmentsAt, Base
    <3>5. segoff[s] + x \in Int
      <4>1. Sum(segtab, s) \in Nat /\ Base \in Int
        <5>1. s \in 0 .. SECSIZ
          BY <1>2, <2>5
        <5> QED
          BY <1>1, <1>2, <5>1, SumGrows DEF Base, XHSIZ, SGSIZ
      <4> QED
        BY <2>5, <3>2, <4>1
    <3>6. ReadAt(segoff[s] + x, 1) = [text |-> v]
      BY <3>1, <3>5, ByteRead
    <3> QED
      BY <2>4, <3>2, <3>3, <3>4, <3>6
  <2> QED
    BY <2>6, <2>7
<1> QED
  BY <1>4, <1>5 DEF TextInPlace

(* For every command line and every program whose sections stay below      *)
(* 64 K: the x.out file that xcon makes has each segment as long as asz8k  *)
(* came in its section, and each byte where a reader finds it by the       *)
(* descriptors.  outtxt() writes the blocks in whatever order they come,   *)
(* each at an offset of its own, and the relocation entries and symbols    *)
(* behind them: none writes over another.                                  *)
THEOREM TextCorrect == Spec => [](AddressesFit => TextInPlace)
<1>1. Init => AsmInv /\ ListsInv /\ BlocksInv /\ SectionsFit /\ XconInv
  BY AsmInit, ListsInit, BlocksInit, FitInit, XconInit
<1>2. AsmInv /\ ListsInv /\ BlocksInv /\ SectionsFit /\ XconInv /\ [Next]_vars
        => AsmInv' /\ ListsInv' /\ BlocksInv' /\ SectionsFit' /\ XconInv'
  BY AsmStep, ListsStep, BlocksStep, FitStep, XconStep DEF Facts
<1>3. AsmInv /\ ListsInv /\ BlocksInv /\ SectionsFit /\ XconInv => (AddressesFit => TextInPlace)
  BY XconTell DEF Facts
<1> QED
  BY <1>1, <1>2, <1>3, PTL DEF Spec

-----------------------------------------------------------------------------
(* The references of the relocations to externals.                         *)

(* Sequences one after another, and one more.                              *)
LEMMA FlattenGrown ==
  ASSUME NEW S, NEW n \in Nat, NEW ss \in [1 .. n -> Seq(S)], NEW tt \in [1 .. n + 1 -> Seq(S)],
         \A i \in 1 .. n : tt[i] = ss[i]
  PROVE  FlattenSeq(ss) \in Seq(S) /\ FlattenSeq(tt) = FlattenSeq(ss) \o tt[n + 1]
<1>0. PICK T : T = Seq(S)
  OBVIOUS
<1>1. ss \in Seq(T) /\ tt \in Seq(T) /\ Len(ss) = n /\ Len(tt) = n + 1 /\ tt[n + 1] \in T
  BY <1>0
<1>2. PICK b : b = tt[n + 1]
  OBVIOUS
<1>3. tt = Append(ss, b)
  <2>1. /\ Append(ss, b) \in Seq(T) /\ Len(Append(ss, b)) = n + 1
        /\ \A i \in 1 .. n : Append(ss, b)[i] = ss[i]
        /\ Append(ss, b)[n + 1] = b
    BY <1>1, <1>2, AppendProperties
  <2>2. ASSUME NEW i \in 1 .. n + 1 PROVE Append(ss, b)[i] = tt[i]
    <3>1. i \in 1 .. n \/ i = n + 1
      OBVIOUS
    <3> QED
      BY <1>2, <2>1, <3>1
  <2> QED
    BY <1>1, <2>1, <2>2, SeqEqual
<1>4. FlattenSeq(ss) \in Seq(S) /\ FlattenSeq(Append(ss, b)) = FlattenSeq(ss) \o b
  BY <1>0, <1>1, <1>2, FlattenAppend
<1> QED
  BY <1>2, <1>3, <1>4

(* The undefined items of a list, in their order, and their numbers.       *)
Externals(items) == FlattenSeq([i \in DOMAIN items |-> IF Undefined(items[i]) THEN <<items[i]>> ELSE <<>>])

LEMMA ExternalsAppend ==
  ASSUME NEW L \in Seq(ListItems), NEW x \in ListItems, NEW c \in Nat
  PROVE  /\ Externals(<<>>) = <<>> /\ Numbers(<<>>, c) = <<>>
         /\ Externals(L) \in Seq(ListItems) /\ Numbers(L, c) \in Seq(Int)
         /\ Externals(Append(L, x)) = Externals(L) \o IF Undefined(x) THEN <<x>> ELSE <<>>
         /\ Numbers(Append(L, x), c) = Numbers(L, c) \o IF Undefined(x) THEN <<c + Len(L)>> ELSE <<>>
<1> DEFINE n == Len(L)
           K == Append(L, x)
           ext(M) == [i \in DOMAIN M |-> IF Undefined(M[i]) THEN <<M[i]>> ELSE <<>>]
           num(M) == [i \in DOMAIN M |-> IF Undefined(M[i]) THEN <<c + i - 1>> ELSE <<>>]
<1>1. /\ n \in Nat /\ K \in Seq(ListItems) /\ Len(K) = n + 1 /\ K[n + 1] = x
      /\ \A i \in 1 .. n : K[i] = L[i] /\ L[i] \in ListItems
  BY AppendProperties
<1>2. DOMAIN L = 1 .. n /\ DOMAIN K = 1 .. n + 1
  BY <1>1
<1> HIDE DEF K, n
<1>3. /\ ext(L) \in [1 .. n -> Seq(ListItems)] /\ ext(K) \in [1 .. n + 1 -> Seq(ListItems)]
      /\ \A i \in 1 .. n : ext(K)[i] = ext(L)[i]
      /\ ext(K)[n + 1] = IF Undefined(x) THEN <<x>> ELSE <<>>
  <2>1. \A i \in 1 .. n + 1 : K[i] \in ListItems
    BY <1>1
  <2> QED
    BY <1>1, <1>2, <2>1
<1>4. /\ num(L) \in [1 .. n -> Seq(Int)] /\ num(K) \in [1 .. n + 1 -> Seq(Int)]
      /\ \A i \in 1 .. n : num(K)[i] = num(L)[i]
      /\ num(K)[n + 1] = IF Undefined(x) THEN <<c + n>> ELSE <<>>
  <2>1. c + (n + 1) - 1 = c + n /\ \A i \in 1 .. n + 1 : c + i - 1 \in Int
    BY <1>1
  <2> QED
    BY <1>1, <1>2, <2>1
<1>5. Externals(L) = FlattenSeq(ext(L)) /\ Externals(K) = FlattenSeq(ext(K))
      /\ Numbers(L, c) = FlattenSeq(num(L)) /\ Numbers(K, c) = FlattenSeq(num(K))
  BY DEF Externals, Numbers
<1> HIDE DEF ext, num
<1>6. FlattenSeq(ext(L)) \in Seq(ListItems) /\ FlattenSeq(ext(K)) = FlattenSeq(ext(L)) \o ext(K)[n + 1]
  BY <1>1, <1>3, FlattenGrown
<1>7. FlattenSeq(num(L)) \in Seq(Int) /\ FlattenSeq(num(K)) = FlattenSeq(num(L)) \o num(K)[n + 1]
  BY <1>1, <1>4, FlattenGrown
<1>8. Externals(<<>>) = <<>> /\ Numbers(<<>>, c) = <<>>
  BY DEF Externals, Numbers, FlattenSeq
<1> QED
  BY <1>3, <1>4, <1>5, <1>6, <1>7, <1>8 DEF K, n

NumbersRight(L, c) ==
  /\ Externals(L) \in Seq(ListItems) /\ Numbers(L, c) \in Seq(Int) /\ Len(Numbers(L, c)) = Len(Externals(L))
  /\ \A j \in 1 .. Len(Externals(L)) :
       /\ Numbers(L, c)[j] - c + 1 \in 1 .. Len(L)
       /\ L[Numbers(L, c)[j] - c + 1] = Externals(L)[j] /\ Undefined(Externals(L)[j])

LEMMA NumbersTell ==
  ASSUME NEW L \in Seq(ListItems), NEW c \in Nat
  PROVE  NumbersRight(L, c)
<1> DEFINE T == {n \in Nat : \A M \in Seq(ListItems) : Len(M) = n => NumbersRight(M, c)}
<1>1. 0 \in T
  <2>1. ASSUME NEW M \in Seq(ListItems), Len(M) = 0 PROVE NumbersRight(M, c)
    <3>1. M = <<>>
      BY <2>1, EmptySeq
    <3>2. "-" \in ListItems
      BY DEF ListItems, Labels, NoName
    <3>3. Externals(M) = <<>> /\ Numbers(M, c) = <<>>
      BY <3>1, <3>2, ExternalsAppend
    <3> QED
      BY <3>3 DEF NumbersRight
  <2> QED
    BY <2>1
<1>2. ASSUME NEW n \in Nat, n \in T PROVE n + 1 \in T
  <2>1. ASSUME NEW M \in Seq(ListItems), Len(M) = n + 1 PROVE NumbersRight(M, c)
    <3>0. M # <<>>
      BY <2>1
    <3>1. PICK s \in Seq(ListItems), x \in ListItems : M = Append(s, x)
      BY <3>0, SequenceEmptyOrAppend
    <3>2. Len(s) = n /\ M[n + 1] = x /\ \A i \in 1 .. n : M[i] = s[i]
      BY <2>1, <3>1, AppendProperties
    <3>3. NumbersRight(s, c)
      BY <1>2, <3>2
    <3>4. PICK e, f, g, h : e = Externals(s) /\ f = Externals(M) /\ g = Numbers(s, c) /\ h = Numbers(M, c)
      OBVIOUS
    <3>5. /\ e \in Seq(ListItems) /\ g \in Seq(Int) /\ Len(g) = Len(e)
          /\ \A j \in 1 .. Len(e) : g[j] - c + 1 \in 1 .. n /\ s[g[j] - c + 1] = e[j] /\ Undefined(e[j])
      BY <3>2, <3>3, <3>4 DEF NumbersRight
    <3>6. f = e \o (IF Undefined(x) THEN <<x>> ELSE <<>>) /\ h = g \o (IF Undefined(x) THEN <<c + n>> ELSE <<>>)
      BY <3>1, <3>2, <3>4, ExternalsAppend
    <3>7. CASE Undefined(x)
      <4>1. f = Append(e, x) /\ h = Append(g, c + n) /\ c + n \in Int
        BY <3>5, <3>6, <3>7, AppendIsConcat
      <4>2. /\ f \in Seq(ListItems) /\ h \in Seq(Int) /\ Len(f) = Len(e) + 1 /\ Len(h) = Len(e) + 1
            /\ f[Len(e) + 1] = x /\ h[Len(e) + 1] = c + n
            /\ \A j \in 1 .. Len(e) : f[j] = e[j] /\ h[j] = g[j]
        BY <3>5, <4>1, AppendProperties
      <4>3. ASSUME NEW j \in 1 .. Len(e) + 1
            PROVE  h[j] - c + 1 \in 1 .. n + 1 /\ M[h[j] - c + 1] = f[j] /\ Undefined(f[j])
        <5>1. CASE j = Len(e) + 1
          <6>1. h[j] - c + 1 = n + 1
            BY <4>2, <5>1
          <6> QED
            BY <3>2, <3>7, <4>2, <5>1, <6>1
        <5>2. CASE j \in 1 .. Len(e)
          <6>1. h[j] = g[j] /\ f[j] = e[j]
            BY <4>2, <5>2
          <6>2. g[j] - c + 1 \in 1 .. n /\ s[g[j] - c + 1] = e[j] /\ Undefined(e[j])
            BY <3>5, <5>2
          <6>3. PICK k : k = g[j] - c + 1
            OBVIOUS
          <6>4. k \in 1 .. n /\ k \in 1 .. n + 1 /\ M[k] = s[k]
            BY <3>2, <6>2, <6>3
          <6> QED
            BY <6>1, <6>2, <6>3, <6>4, Zenon
        <5> QED
          BY <3>5, <5>1, <5>2
      <4> QED
        BY <2>1, <3>4, <4>2, <4>3 DEF NumbersRight
    <3>8. CASE ~Undefined(x)
      <4>1. f = e /\ h = g
        BY <3>5, <3>6, <3>8, ConcatEmptySeq
      <4>2. \A j \in 1 .. Len(e) : g[j] - c + 1 \in 1 .. n + 1 /\ M[g[j] - c + 1] = e[j]
        BY <3>2, <3>5
      <4>3. \A j \in 1 .. Len(f) :
               h[j] - c + 1 \in 1 .. Len(M) /\ M[h[j] - c + 1] = f[j] /\ Undefined(f[j])
        BY <2>1, <3>5, <4>1, <4>2
      <4> QED
        BY <3>4, <3>5, <4>1, <4>3 DEF NumbersRight
    <3> QED
      BY <3>7, <3>8
  <2> QED
    BY <2>1
<1>3. Nat \subseteq T
  <2> HIDE DEF T
  <2> QED
    BY <1>1, <1>2, NatSetInduction
<1>4. Len(L) \in Nat
  OBVIOUS
<1> QED
  BY <1>3, <1>4

LEMMA ExternalsConcat ==
  ASSUME NEW L \in Seq(ListItems), NEW K \in Seq(ListItems)
  PROVE  Externals(L \o K) = Externals(L) \o Externals(K)
<1> DEFINE T == {n \in Nat : \A M \in Seq(ListItems) : Len(M) = n =>
                               Externals(L \o M) = Externals(L) \o Externals(M)}
<1>0. "-" \in ListItems /\ 0 \in Nat
  BY DEF ListItems, Labels, NoName
<1>1. 0 \in T
  <2>1. ASSUME NEW M \in Seq(ListItems), Len(M) = 0 PROVE Externals(L \o M) = Externals(L) \o Externals(M)
    <3>1. M = <<>>
      BY <2>1, EmptySeq
    <3>2. Externals(M) = <<>> /\ Externals(L) \in Seq(ListItems) /\ L \o M = L
      BY <1>0, <3>1, ExternalsAppend, ConcatEmptySeq
    <3> QED
      BY <3>2, ConcatEmptySeq
  <2> QED
    BY <2>1
<1>2. ASSUME NEW n \in Nat, n \in T PROVE n + 1 \in T
  <2>1. ASSUME NEW M \in Seq(ListItems), Len(M) = n + 1 PROVE Externals(L \o M) = Externals(L) \o Externals(M)
    <3>0. M # <<>>
      BY <2>1
    <3>1. PICK s \in Seq(ListItems), x \in ListItems : M = Append(s, x)
      BY <3>0, SequenceEmptyOrAppend
    <3>2. Len(s) = n
      BY <2>1, <3>1, AppendProperties
    <3>3. Externals(L \o s) = Externals(L) \o Externals(s)
      BY <1>2, <3>2
    <3>4. PICK z : z = IF Undefined(x) THEN <<x>> ELSE <<>>
      OBVIOUS
    <3>5. L \o M = Append(L \o s, x) /\ L \o s \in Seq(ListItems)
      <4>1. M = s \o <<x>> /\ <<x>> \in Seq(ListItems) /\ L \o s \in Seq(ListItems)
        BY <3>1, AppendIsConcat, ConcatProperties
      <4>2. L \o (s \o <<x>>) = (L \o s) \o <<x>>
        BY <4>1, ConcatAssociative
      <4> QED
        BY <4>1, <4>2, AppendIsConcat
    <3>6. PICK u, e, f : u = L \o s /\ e = Externals(L) /\ f = Externals(s)
      OBVIOUS
    <3>7. u \in Seq(ListItems) /\ L \o M = Append(u, x)
      BY <3>5, <3>6
    <3>8. Externals(M) = f \o z
      BY <1>0, <3>1, <3>4, <3>6, ExternalsAppend
    <3>9. Externals(Append(u, x)) = Externals(u) \o z
      BY <1>0, <3>4, <3>7, ExternalsAppend
    <3>10. e \in Seq(ListItems) /\ f \in Seq(ListItems)
      BY <1>0, <3>6, ExternalsAppend
    <3>11. z \in Seq(ListItems)
      BY <3>4
    <3>12. (e \o f) \o z = e \o (f \o z)
      <4>1. PICK S : S = ListItems
        OBVIOUS
      <4>2. e \in Seq(S) /\ f \in Seq(S) /\ z \in Seq(S)
        BY <3>10, <3>11, <4>1
      <4> QED
        BY <4>2, SMTT(60)
    <3>13. Externals(u) = e \o f
      BY <3>3, <3>6
    <3> QED
      BY <3>6, <3>7, <3>8, <3>9, <3>12, <3>13
  <2> QED
    BY <2>1
<1>3. Nat \subseteq T
  <2> HIDE DEF T
  <2> QED
    BY <1>1, <1>2, NatSetInduction
<1>4. Len(K) \in Nat
  OBVIOUS
<1> QED
  BY <1>3, <1>4

(* What asz8k's numbers mean: a symbol, or a value, that has an external's *)
(* number has the place of that name among the externals.                  *)
Bears(G, n, rel) ==
  rel - RBEXT + 1 \in 1 .. Len(Externals(G)) /\ Externals(G)[rel - RBEXT + 1].name = n
TabBears(G, tab) == tab \in Tables /\ \A n \in Names : tab[n].rel >= RBEXT => Bears(G, n, tab[n].rel)
RelBears(G, r) == r # NoRel /\ r.base >= RBEXT => Bears(G, r.of, r.base)
WantBears(G, w) == \A i \in 1 .. Len(w) : RelBears(G, w[i].rel)

LEMMA LookBears ==
  ASSUME NEW G, NEW tab, TabBears(G, tab), NEW ns
  PROVE  TabBears(G, Look(tab, ns))
<1>1. tab \in Tables /\ Look(tab, ns) \in Tables
  BY LookType DEF TabBears
<1>2. ASSUME NEW n \in Names PROVE Look(tab, ns)[n].rel = tab[n].rel
  <2>1. tab[n] \in Symbols
    BY <1>1 DEF Tables
  <2>2. [tab[n] EXCEPT !.typ = STUND].rel = tab[n].rel
    BY <2>1 DEF Symbols
  <2> QED
    BY <2>2 DEF Look
<1> QED
  BY <1>1, <1>2 DEF TabBears

LEMMA AssignBears ==
  ASSUME NEW G, NEW tab, TabBears(G, tab), NEW n \in Labels, NEW typ \in SymTypes, NEW val \in Int,
         NEW rel \in Int, rel < RBEXT, typ = STSEC => rel \in Sections
  PROVE  TabBears(G, Assign(tab, n, typ, val, rel).tab)
<1>0. tab \in Tables
  BY DEF TabBears
<1> DEFINE t == Assign(tab, n, typ, val, rel).tab
<1>1. t \in Tables
  BY <1>0, AssignType
<1>2. ASSUME NEW m \in Names PROVE t[m].rel = tab[m].rel \/ t[m].rel = rel
  <2>1. CASE n = NoName \/ Redefined(tab[n]) \/ (tab[n].typ # STUND /\ PhaseError(tab[n], typ, val, rel))
    BY <2>1 DEF Assign
  <2>2. CASE ~(n = NoName \/ Redefined(tab[n]) \/ (tab[n].typ # STUND /\ PhaseError(tab[n], typ, val, rel)))
    <3> DEFINE new == [tab[n] EXCEPT !.typ = typ, !.val = val, !.rel = rel, !.dp2 = @ \/ pass2]
    <3>1. n \in Names
      BY <2>2 DEF Labels
    <3>2. tab \in [Names -> Symbols] /\ tab[n] \in Symbols
      BY <1>0, <3>1 DEF Tables
    <3>3. new.rel = rel
      BY <3>2 DEF Symbols
    <3>4. t = [tab EXCEPT ![n] = new]
      BY <2>2 DEF Assign
    <3> HIDE DEF new, t
    <3> QED
      BY <3>1, <3>2, <3>3, <3>4
  <2> QED
    BY <2>1, <2>2
<1>3. ASSUME NEW m \in Names, t[m].rel >= RBEXT PROVE Bears(G, m, t[m].rel)
  <2>1. t[m].rel = tab[m].rel
    BY <1>2, <1>3 DEF RBEXT
  <2> QED
    BY <1>3, <2>1 DEF TabBears
<1> HIDE DEF t
<1> QED
  BY <1>1, <1>3 DEF TabBears, t

LEMMA LabelledBears ==
  ASSUME NEW G, TabBears(G, symtab), st.lab \in Labels, NEW loc \in Int, NEW sec \in Sections
  PROVE  TabBears(G, Labelled(loc, sec).tab)
<1>1. TabBears(G, Look(symtab, {st.lab}))
  BY LookBears
<1>2. STLAB \in SymTypes /\ STLAB # STSEC
  BY DEF SymTypes, STLAB, STSEC
<1>3. sec \in Int /\ sec < RBEXT
  BY SectionIsNot
<1> QED
  BY <1>1, <1>2, <1>3, AssignBears DEF Labelled

(* The value of an operand has the number of a symbol that it names.       *)
Points(G, x, v) == v.rel >= RBEXT => v.of \in Syms(x) /\ Bears(G, v.of, v.rel)

LEMMA PrimaryPoints ==
  ASSUME NEW G, NEW tab, TabBears(G, tab), NEW p \in Primaries, NEW loc, cursec \in Sections,
         Primary(tab, p, loc).rel >= RBEXT
  PROVE  p.k = "sym" /\ Primary(tab, p, loc).of = p.s /\ Bears(G, p.s, Primary(tab, p, loc).rel)
<1>1. cursec \in Int /\ cursec < RBEXT /\ RBABS < RBEXT
  BY SectionIsNot DEF RBABS, RBEXT
<1>2. CASE p.k = "sym"
  <2>1. p.s \in Names
    BY <1>2 DEF Primaries
  <2>2. Primary(tab, p, loc) = Value(tab[p.s].val, tab[p.s].rel, p.s, {})
    BY <1>1, <1>2 DEF Primary, Value, RBABS, RBEXT
  <2> QED
    BY <1>2, <2>1, <2>2 DEF Value, TabBears
<1>3. CASE p.k = "con"
  BY <1>1, <1>3 DEF Primary, Value, RBABS, RBEXT
<1>4. CASE p.k = "here"
  <2>1. Primary(tab, p, loc).rel = cursec
    BY <1>4 DEF Primary, Value
  <2> QED
    BY <1>1, <2>1 DEF RBEXT
<1> QED
  BY <1>2, <1>3, <1>4 DEF Primaries

LEMMA ExpressionPoints ==
  ASSUME NEW G, NEW tab, TabBears(G, tab), NEW x \in Operands, NEW loc, cursec \in Sections
  PROVE  Points(G, x, Expression(tab, x, loc))
<1> DEFINE l == Primary(tab, x.x, loc)
           r == Primary(tab, x.y, loc)
           e == l.e \cup r.e \cup
                (IF \/ x.f = "add" /\ l.rel # RBABS /\ r.rel # RBABS
                    \/ x.f = "sub" /\ l.rel # r.rel /\ r.rel # RBABS THEN {"E"} ELSE {})
           base == IF x.f = "add" /\ l.rel = RBABS THEN r ELSE l
<1>1. x.x \in Primaries /\ x.y \in Primaries /\ x.f \in {"pri", "add", "sub", "eq"}
  BY DEF Operands
<1>2. ASSUME NEW p \in {x.x, x.y} PROVE Points(G, x, Primary(tab, p, loc))
  <2>1. p.k = "sym" => p.s \in Syms(x)
    BY DEF Syms
  <2> QED
    BY <1>1, <2>1, PrimaryPoints DEF Points
<1>3. Points(G, x, l) /\ Points(G, x, r) /\ Points(G, x, base) /\ ~(RBABS >= RBEXT)
  BY <1>2 DEF RBABS, RBEXT
<1>4. Expression(tab, x, loc) =
        IF "E" \in e THEN Value(0, RBABS, NoName, e)
        ELSE CASE x.f = "add" -> Value(l.val + r.val, base.rel, base.of, e)
               [] x.f = "sub" -> IF l.rel = r.rel THEN Value(l.val - r.val, RBABS, NoName, e)
                                 ELSE Value(l.val - r.val, l.rel, l.of, e)
               [] x.f = "eq" -> Value(IF l.val = r.val /\ l.rel = r.rel THEN -1 ELSE 0, RBABS, NoName, e)
               [] OTHER -> l
  BY DEF Expression
<1> HIDE DEF l, r, e, base
<1>5. CASE "E" \in e
  BY <1>3, <1>4, <1>5 DEF Value, Points
<1>6. CASE "E" \notin e
  <2>1. CASE x.f = "pri"
    BY <1>3, <1>4, <1>6, <2>1
  <2>2. CASE x.f = "add"
    BY <1>3, <1>4, <1>6, <2>2 DEF Value, Points
  <2>3. CASE x.f = "sub"
    BY <1>3, <1>4, <1>6, <2>3 DEF Value, Points
  <2>4. CASE x.f = "eq"
    BY <1>3, <1>4, <1>6, <2>4 DEF Value, Points
  <2> QED
    BY <1>1, <2>1, <2>2, <2>3, <2>4
<1> QED
  BY <1>5, <1>6

LEMMA OperandBears ==
  ASSUME NEW G, NEW tab, TabBears(G, tab), NEW x \in Operands, NEW loc \in Int, cursec \in Sections
  PROVE  /\ TabBears(G, Operand(tab, x, loc).tab) /\ Points(G, x, Operand(tab, x, loc).v)
         /\ Operand(tab, x, loc).v \in Values
<1> DEFINE t == Look(tab, Syms(x))
<1>1. TabBears(G, t) /\ t \in Tables /\ cursec \in Int
  BY LookBears, SectionIsNot DEF TabBears
<1> HIDE DEF t
<1>2. Expression(t, x, loc) \in Values /\ Points(G, x, Expression(t, x, loc))
  BY <1>1, ExpressionType, ExpressionPoints
<1> QED
  BY <1>1, <1>2 DEF Operand, t

(* The bytes of an operand refer to what its value points to.              *)
RefersTo(r, x) == r # NoRel => r.base = x.rel /\ r.of = x.of
Refer(bs, x) == bs \in Seq(Bytes) /\ \A i \in 1 .. Len(bs) : RefersTo(bs[i].rel, x)

LEMMA RelRefers ==
  ASSUME NEW x \in Values, NEW act \in Acts
  PROVE  Rel(act, x) \in {NoRel} \cup Relocs /\ RefersTo(Rel(act, x), x) /\ RefersTo(NoRel, x)
<1>1. Rel(act, x) \in {NoRel} \cup Relocs
  BY RelocType
<1> QED
  BY <1>1 DEF Rel, RefersTo

LEMMA WordRefers ==
  ASSUME NEW x \in Values, NEW v \in Int, NEW u \in Int, NEW r \in {NoRel} \cup Relocs, RefersTo(r, x)
  PROVE  Refer(Word(v, r), x) /\ Refer(Word(v, r) \o Word(u, NoRel), x)
<1> DEFINE w == Word(v, r)
           z == Word(u, NoRel)
           bs == w \o z
<1>1. w \in Seq(Bytes) /\ Len(w) = 2 /\ w[1].rel = r /\ w[2].rel = NoRel
  BY WordBytes
<1>2. z \in Seq(Bytes) /\ Len(z) = 2 /\ z[1].rel = NoRel /\ z[2].rel = NoRel
  BY WordBytes
<1> HIDE DEF w, z
<1>3. /\ bs \in Seq(Bytes) /\ Len(bs) = Len(w) + Len(z)
      /\ \A i \in 1 .. Len(w) + Len(z) : bs[i] = IF i <= Len(w) THEN w[i] ELSE z[i - Len(w)]
  BY <1>1, <1>2, ConcatProperties
<1>4. Len(bs) = 4 /\ bs[1] = w[1] /\ bs[2] = w[2] /\ bs[3] = z[1] /\ bs[4] = z[2]
  BY <1>1, <1>2, <1>3
<1> HIDE DEF bs
<1>5. \A i \in 1 .. 4 : bs[i].rel \in {r, NoRel}
  BY <1>1, <1>2, <1>4
<1>6. RefersTo(NoRel, x)
  BY DEF RefersTo
<1>7. Refer(w, x)
  BY <1>1, <1>6 DEF Refer
<1>8. Refer(bs, x)
  BY <1>3, <1>4, <1>5, <1>6 DEF Refer
<1> QED
  BY <1>7, <1>8 DEF bs, w, z

LEMMA FieldRefers ==
  ASSUME NEW kind \in {"byte", "word", "long"} \cup (Kinds \ {"rel8"}), NEW x \in Values
  PROVE  Refer(Field(kind, x), x)
<1>1. x.val \in Int /\ x.rel \in Int
  BY DEF Values
<1>2. \A act \in Acts : Rel(act, x) \in {NoRel} \cup Relocs /\ RefersTo(Rel(act, x), x)
  BY RelRefers
<1>3. {"RAA8", "RAA16M", "RAA32M", "RAZOF", "RAZLS", "RAZSS"} \subseteq Acts
  BY DEF Acts
<1>4. \A act \in Acts : \A v, u \in Int :
        Refer(Word(v, Rel(act, x)), x) /\ Refer(Word(v, Rel(act, x)) \o Word(u, NoRel), x)
  BY <1>2, WordRefers
<1>5. Refer(<<Byte(x.val, Rel("RAA8", x))>>, x)
      /\ Refer(<<Byte(x.val, Rel("RAA8", x)), Byte(x.val, Rel("RAA8", x))>>, x)
  <2> DEFINE r == Rel("RAA8", x)
             b == Byte(x.val, r)
  <2>1. r \in {NoRel} \cup Relocs /\ RefersTo(r, x)
    BY <1>2, <1>3
  <2> HIDE DEF r
  <2>2. b \in Bytes /\ b.rel = r
    BY <1>1, <2>1, ByteType
  <2> HIDE DEF b
  <2>3. Refer(<<b>>, x) /\ Refer(<<b, b>>, x)
    BY <2>1, <2>2 DEF Refer
  <2> QED
    BY <2>3 DEF b, r
<1>6. ShortRef(x) \in Int
  BY <1>1 DEF ShortRef
<1>7. (128 + ShortRef(x)) * 256 \in Int /\ ShortRef(x) * 256 + (x.val % 256) \in Int /\ x.val \div 65536 \in Int
  BY <1>1, <1>6
<1>8. Refer(LongSeg(x), x)
  <2>1. PICK v, r : v = (128 + ShortRef(x)) * 256 /\ r = Rel("RAZLS", x)
    OBVIOUS
  <2>2. v \in Int /\ r \in {NoRel} \cup Relocs /\ RefersTo(r, x)
    BY <1>2, <1>3, <1>7, <2>1
  <2>3. Refer(Word(v, r) \o Word(x.val, NoRel), x)
    BY <1>1, <2>2, WordRefers
  <2> QED
    BY <2>1, <2>3 DEF LongSeg
<1>9. Refer(ShortSeg(x), x)
  <2>1. PICK v, r : v = ShortRef(x) * 256 + (x.val % 256) /\ r = Rel("RAZSS", x)
    OBVIOUS
  <2>2. v \in Int /\ r \in {NoRel} \cup Relocs /\ RefersTo(r, x)
    BY <1>2, <1>3, <1>7, <2>1
  <2>3. Refer(Word(v, r), x)
    BY <1>1, <2>2, WordRefers
  <2> QED
    BY <2>1, <2>3 DEF ShortSeg
<1>10. Refer(Long(x.val, Rel("RAA32M", x)), x)
  <2>1. PICK v, r : v = x.val \div 65536 /\ r = Rel("RAA32M", x)
    OBVIOUS
  <2>2. v \in Int /\ r \in {NoRel} \cup Relocs /\ RefersTo(r, x)
    BY <1>2, <1>3, <1>7, <2>1
  <2>3. Refer(Word(v, r) \o Word(x.val, NoRel), x)
    BY <1>1, <2>2, WordRefers
  <2> QED
    BY <2>1, <2>3 DEF Long
<1>11. Refer(Word(x.val, Rel(IF cmd.segflg THEN "RAZOF" ELSE "RAA16M", x)), x)
       /\ Refer(Word(x.val, Rel("RAA16M", x)), x)
  BY <1>1, <1>3, <1>4
<1>12. CASE kind = "byte"
  BY <1>5, <1>12 DEF Field
<1>13. CASE kind = "imm8"
  BY <1>5, <1>13 DEF Field
<1>14. CASE kind \in {"word", "imm16"}
  BY <1>11, <1>14 DEF Field
<1>15. CASE kind \in {"long", "imm32"}
  BY <1>8, <1>10, <1>15 DEF Field
<1>16. CASE kind = "addr"
  BY <1>8, <1>11, <1>16 DEF Field
<1>17. CASE kind = "saddr"
  BY <1>9, <1>11, <1>17 DEF Field
<1> QED
  BY <1>12, <1>13, <1>14, <1>15, <1>16, <1>17 DEF Kinds

LEMMA ReferBears ==
  ASSUME NEW G, NEW x, NEW v, Points(G, x, v), NEW bs, Refer(bs, v), NEW z \in Seq(Bytes),
         \A i \in 1 .. Len(z) : z[i].rel = NoRel
  PROVE  /\ \A i \in 1 .. Len(bs) : RelBears(G, bs[i].rel)
         /\ z \o bs \in Seq(Bytes) /\ \A i \in 1 .. Len(z \o bs) : RelBears(G, (z \o bs)[i].rel)
<1>1. bs \in Seq(Bytes) /\ \A i \in 1 .. Len(bs) : RefersTo(bs[i].rel, v)
  BY DEF Refer
<1>2. ASSUME NEW r, RefersTo(r, v) PROVE RelBears(G, r)
  BY <1>2 DEF RefersTo, RelBears, Points
<1>3. \A i \in 1 .. Len(bs) : RelBears(G, bs[i].rel)
  BY <1>1, <1>2
<1>4. \A i \in 1 .. Len(z) : RelBears(G, z[i].rel)
  BY DEF RelBears
<1> DEFINE s == z \o bs
<1>5. /\ s \in Seq(Bytes) /\ Len(s) = Len(z) + Len(bs)
      /\ \A i \in 1 .. Len(z) + Len(bs) : s[i] = IF i <= Len(z) THEN z[i] ELSE bs[i - Len(z)]
  BY <1>1, ConcatProperties
<1> HIDE DEF s
<1>6. ASSUME NEW i \in 1 .. Len(z) + Len(bs) PROVE RelBears(G, s[i].rel)
  <2>0. Len(z) \in Nat /\ Len(bs) \in Nat
    BY <1>1
  <2>1. CASE i <= Len(z)
    <3>1. s[i] = z[i] /\ i \in 1 .. Len(z)
      BY <1>5, <2>0, <2>1
    <3> QED
      BY <1>4, <3>1
  <2>2. CASE i > Len(z)
    <3>1. s[i] = bs[i - Len(z)] /\ i - Len(z) \in 1 .. Len(bs)
      BY <1>5, <2>0, <2>2
    <3> QED
      BY <1>3, <3>1
  <2> QED
    BY <2>0, <2>1, <2>2
<1>7. s \in Seq(Bytes) /\ \A i \in 1 .. Len(s) : RelBears(G, s[i].rel)
  BY <1>5, <1>6
<1> QED
  BY <1>3, <1>7 DEF s

LEMMA EmitBears ==
  ASSUME AsmInv, NEW G, WantBears(G, want), NEW loc, NEW bs \in Seq(Bytes),
         \A i \in 1 .. Len(bs) : RelBears(G, bs[i].rel), Emit(loc, bs)
  PROVE  WantBears(G, want')
<1>1. want \in Seq(Entries)
  BY TextType DEF AsmInv, ObjectRight, Good
<1>2. CASE ~pass2
  BY <1>2 DEF Emit
<1>3. CASE pass2
  <2> DEFINE es == [i \in DOMAIN bs |-> [val |-> bs[i].val, rel |-> bs[i].rel, sec |-> cursec, loc |-> loc + i - 1]]
  <2>1. want' = want \o es
    BY <1>3 DEF Emit
  <2>2. PICK T : T = Entries \cup {es[i] : i \in DOMAIN bs}
    OBVIOUS
  <2>3. DOMAIN bs = 1 .. Len(bs) /\ Len(bs) \in Nat
    OBVIOUS
  <2>4. es \in Seq(T) /\ want \in Seq(T) /\ Len(es) = Len(bs) /\ \A i \in 1 .. Len(bs) : es[i].rel = bs[i].rel
    BY <1>1, <2>2, <2>3
  <2> HIDE DEF es
  <2>5. /\ Len(want') = Len(want) + Len(es) /\ Len(want) \in Nat /\ Len(es) \in Nat
        /\ \A i \in 1 .. Len(want) + Len(es) : want'[i] = IF i <= Len(want) THEN want[i] ELSE es[i - Len(want)]
    <3>1. PICK w, e : w = want /\ e = es
      OBVIOUS
    <3>2. w \in Seq(T) /\ e \in Seq(T) /\ Len(w) \in Nat /\ Len(e) \in Nat
      BY <2>4, <3>1
    <3>3. /\ Len(w \o e) = Len(w) + Len(e)
          /\ \A i \in 1 .. Len(w) + Len(e) : (w \o e)[i] = IF i <= Len(w) THEN w[i] ELSE e[i - Len(w)]
      BY <3>2, ConcatProperties
    <3> QED
      BY <2>1, <3>1, <3>2, <3>3
  <2>6. ASSUME NEW i \in 1 .. Len(want') PROVE RelBears(G, want'[i].rel)
    <3>1. CASE i <= Len(want)
      <4>1. want'[i] = want[i] /\ i \in 1 .. Len(want)
        BY <2>5, <3>1
      <4> QED
        BY <4>1 DEF WantBears
    <3>2. CASE i > Len(want)
      <4>1. want'[i] = es[i - Len(want)] /\ i - Len(want) \in 1 .. Len(bs)
        BY <2>4, <2>5, <3>2
      <4> QED
        BY <2>4, <4>1
    <3> QED
      BY <2>5, <3>1, <3>2
  <2> QED
    BY <2>6 DEF WantBears
<1> QED
  BY <1>2, <1>3

-----------------------------------------------------------------------------
(* Where no .equ and no .set names an external, only an external has an    *)
(* external's number.                                                      *)
Globals == Listed(out, "OBGLO")
Direct ==
  \A s \in Range(cmd.src) : s.op \in {"equ", "set"} =>
    \A i \in 1 .. Len(Globals) : Undefined(Globals[i]) => Globals[i].name \notin Syms(s.args[1])
NamedInv == Direct => TabBears(Globals, symtab) /\ WantBears(Globals, want)
Keeps == TabBears(Globals, symtab') /\ WantBears(Globals, want')

LEMMA NamedKept ==
  ASSUME NamedInv, UNCHANGED cmd, SameLists(out', out),
         Direct /\ TabBears(Globals, symtab) /\ WantBears(Globals, want) => Keeps
  PROVE  NamedInv'
<1>1. Globals' = Globals
  BY DEF SameLists, Globals, ListTypes
<1>2. Direct' = Direct
  BY <1>1 DEF Direct
<1> QED
  BY <1>1, <1>2 DEF NamedInv, Keeps

LEMMA LabelNamed == ASSUME AsmInv, NamedInv, Label PROVE NamedInv'
<1>1. Reading /\ UNCHANGED <<cmd, out, want>> /\ symtab' = Labelled(curloc, cursec).tab
  BY DEF Label, Assembling
<1>2. curloc \in Int /\ cursec \in Sections /\ st.lab \in Labels /\ SameLists(out', out)
  BY <1>1, StatementType DEF AsmInv, PlacesType, SameLists
<1> QED
  BY <1>1, <1>2, LabelledBears, NamedKept DEF Keeps

LEMMA DataNamed == ASSUME AsmInv, NamedInv, Data PROVE NamedInv'
<1>1. /\ Reading /\ st.op \in {"byte", "word", "long"}
      /\ st.lab \in Labels /\ st.args \in Seq(Operands) /\ st.args # <<>>
  BY StatementType DEF Data, Assembling, Reading, WithOperand
<1>2. argn \in Nat /\ st.args[argn + 1] \in Operands
  <2>1. argn \in Nat /\ (argn > 0 => argn < Len(st.args))
    BY DEF AsmInv, SourceType, st
  <2>2. Len(st.args) \in Nat /\ Len(st.args) > 0
    BY <1>1
  <2>3. argn < Len(st.args)
    BY <2>1, <2>2
  <2> QED
    BY <1>1, <2>1, <2>2, <2>3
<1>3. curloc \in Int /\ cursec \in Sections
  BY DEF AsmInv, PlacesType
<1> DEFINE loc == IF argn = 0 /\ st.op # "byte" THEN Even(curloc) ELSE curloc
           l == Labelled(loc, cursec)
           a == IF argn = 0 THEN l ELSE [tab |-> symtab, e |-> {}]
           x == Operand(a.tab, st.args[argn + 1], loc)
<1>4. loc \in Int
  BY <1>3 DEF Even
<1>5. Emit(loc, Field(st.op, x.v)) /\ symtab' = x.tab /\ UNCHANGED cmd
  BY DEF Data
<1> HIDE DEF loc
<1>6. ASSUME TabBears(Globals, symtab), WantBears(Globals, want) PROVE Keeps
  <2>1. TabBears(Globals, l.tab)
    BY <1>1, <1>3, <1>4, <1>6, LabelledBears
  <2> HIDE DEF l
  <2>2. TabBears(Globals, a.tab)
    BY <1>6, <2>1
  <2> HIDE DEF a
  <2>3. PICK p : p = st.args[argn + 1]
    OBVIOUS
  <2>4. TabBears(Globals, x.tab) /\ Points(Globals, p, x.v) /\ x.v \in Values
    BY <1>2, <1>3, <1>4, <2>2, <2>3, OperandBears
  <2> HIDE DEF x
  <2>5. Refer(Field(st.op, x.v), x.v)
    BY <1>1, <2>4, FieldRefers
  <2>6. Field(st.op, x.v) \in Seq(Bytes) /\ <<>> \in Seq(Bytes) /\ \A i \in 1 .. Len(<<>>) : <<>>[i].rel = NoRel
    BY <2>5 DEF Refer
  <2>7. \A i \in 1 .. Len(Field(st.op, x.v)) : RelBears(Globals, Field(st.op, x.v)[i].rel)
    BY <2>4, <2>5, <2>6, ReferBears
  <2>8. WantBears(Globals, want')
    BY <1>5, <1>6, <2>6, <2>7, EmitBears
  <2> QED
    BY <1>5, <2>4, <2>8 DEF Keeps
<1>7. SameLists(out', out)
  BY DataStep
<1> QED
  BY <1>5, <1>6, <1>7, NamedKept

LEMMA InstrNamed == ASSUME AsmInv, NamedInv, Instr PROVE NamedInv'
<1>1. st.lab \in Labels /\ st.args[1] \in Operands /\ st.kind \in Kinds
  BY StatementType, FirstOperand DEF Instr, Assembling, Reading
<1>2. curloc \in Int /\ cursec \in Sections
  BY DEF AsmInv, PlacesType
<1> DEFINE loc == Even(curloc)
           a == Labelled(loc, cursec)
           x == Operand(a.tab, st.args[1], loc)
           d == (x.v.val - loc - 2) \div 2
           z == <<Byte(0, NoRel), Byte(0, NoRel)>>
           near == <<Byte(0, NoRel), Byte(d, NoRel)>>
           bs == IF st.kind = "rel8" THEN near ELSE z \o Field(st.kind, x.v)
<1>3. loc \in Int
  BY <1>2 DEF Even
<1>4. Emit(loc, bs) /\ symtab' = x.tab /\ UNCHANGED cmd
  BY DEF Instr
<1> HIDE DEF loc
<1>5. ASSUME TabBears(Globals, symtab), WantBears(Globals, want) PROVE Keeps
  <2>1. TabBears(Globals, a.tab)
    BY <1>1, <1>2, <1>3, <1>5, LabelledBears
  <2> HIDE DEF a
  <2>2. PICK p : p = st.args[1]
    OBVIOUS
  <2>3. TabBears(Globals, x.tab) /\ Points(Globals, p, x.v) /\ x.v \in Values
    BY <1>1, <1>2, <1>3, <2>1, <2>2, OperandBears
  <2> HIDE DEF x
  <2>4. \A v \in Int : Byte(v, NoRel) \in Bytes /\ Byte(v, NoRel).rel = NoRel
    BY ByteType
  <2>5. z \in Seq(Bytes) /\ Len(z) = 2 /\ \A i \in 1 .. Len(z) : z[i].rel = NoRel
    <3>1. PICK b : b = Byte(0, NoRel)
      OBVIOUS
    <3>2. b \in Bytes /\ b.rel = NoRel /\ z = <<b, b>>
      BY <2>4, <3>1
    <3> QED
      BY <3>2
  <2>6. near \in Seq(Bytes) /\ \A i \in 1 .. Len(near) : near[i].rel = NoRel
    <3>1. PICK b, c : b = Byte(0, NoRel) /\ c = Byte(d, NoRel)
      OBVIOUS
    <3>2. x.v.val \in Int
      BY <2>3 DEF Values
    <3>3. d \in Int
      BY <1>3, <3>2
    <3>4. b \in Bytes /\ b.rel = NoRel /\ c \in Bytes /\ c.rel = NoRel /\ near = <<b, c>>
      BY <2>4, <3>1, <3>3
    <3> QED
      BY <3>4
  <2> HIDE DEF z, near
  <2>7. bs \in Seq(Bytes) /\ \A i \in 1 .. Len(bs) : RelBears(Globals, bs[i].rel)
    <3>1. CASE st.kind = "rel8"
      BY <2>6, <3>1 DEF RelBears
    <3>2. CASE st.kind # "rel8"
      <4>1. Refer(Field(st.kind, x.v), x.v)
        BY <1>1, <2>3, <3>2, FieldRefers
      <4>2. /\ z \o Field(st.kind, x.v) \in Seq(Bytes)
            /\ \A i \in 1 .. Len(z \o Field(st.kind, x.v)) : RelBears(Globals, (z \o Field(st.kind, x.v))[i].rel)
        BY <2>3, <2>5, <4>1, ReferBears
      <4> QED
        BY <3>2, <4>2
    <3> QED
      BY <3>1, <3>2
  <2> HIDE DEF bs
  <2>8. WantBears(Globals, want')
    BY <1>4, <1>5, <2>7, EmitBears
  <2> QED
    BY <1>4, <2>3, <2>8 DEF Keeps
<1>6. SameLists(out', out)
  BY InstrStep
<1> QED
  BY <1>4, <1>5, <1>6, NamedKept

(* A statement that emits nothing, where its table is of the kind.         *)
LEMMA TableNamed ==
  ASSUME NamedInv, UNCHANGED <<cmd, want>>, SameLists(out', out),
         Direct /\ TabBears(Globals, symtab) => TabBears(Globals, symtab')
  PROVE  NamedInv'
  BY NamedKept DEF Keeps

LEMMA Sited ==
  ASSUME AsmInv
  PROVE  /\ curloc \in Int /\ cursec \in Sections /\ cursec \in Int /\ cursec < RBEXT
         /\ STLAB \in SymTypes /\ STVAR \in SymTypes /\ STSEC \in SymTypes /\ STLAB # STSEC /\ STVAR # STSEC
<1>1. curloc \in Int /\ cursec \in Sections
  BY DEF AsmInv, PlacesType
<1> QED
  BY <1>1, SectionIsNot DEF SymTypes, STLAB, STSEC, STVAR

LEMMA AlignNamed == ASSUME AsmInv, NamedInv, Align PROVE NamedInv'
<1> DEFINE t == Look(symtab, {st.lab})
           x == Operand(t, st.args[1], curloc)
           ok == x.v.rel = RBABS /\ x.v.val \in 0 .. 32
           loc == IF ok THEN -((-curloc) \div PowerOf2[x.v.val]) * PowerOf2[x.v.val] ELSE curloc
           a == Assign(x.tab, st.lab, STLAB, loc, cursec)
<1>1. /\ UNCHANGED <<cmd, want>> /\ symtab' = a.tab
      /\ st.lab \in Labels /\ st.args[1] \in Operands
  BY StatementType, FirstOperand DEF Align, Assembling, Reading, WithOperand
<1>2. ASSUME TabBears(Globals, symtab) PROVE TabBears(Globals, a.tab)
  <2>1. TabBears(Globals, t)
    BY <1>2, LookBears
  <2> HIDE DEF t
  <2>2. TabBears(Globals, x.tab)
    BY <1>1, <2>1, Sited, OperandBears
  <2>3. loc \in Int
    <3> HIDE DEF x
    <3> QED
      BY Sited, AlignedType
  <2> HIDE DEF x, loc
  <2> QED
    BY <1>1, <2>2, <2>3, Sited, AssignBears
<1> HIDE DEF a
<1> QED
  BY <1>1, <1>2, AlignStep, TableNamed

LEMMA BlockNamed == ASSUME AsmInv, NamedInv, Block PROVE NamedInv'
<1> DEFINE a == Labelled(curloc, cursec)
           x == Operand(a.tab, st.args[1], curloc)
<1>1. /\ UNCHANGED <<cmd, want>> /\ symtab' = x.tab
      /\ st.lab \in Labels /\ st.args[1] \in Operands
  BY StatementType, FirstOperand DEF Block, Assembling, Reading, WithOperand
<1>2. ASSUME TabBears(Globals, symtab) PROVE TabBears(Globals, x.tab)
  <2>1. TabBears(Globals, a.tab)
    BY <1>1, <1>2, Sited, LabelledBears
  <2> HIDE DEF a
  <2> QED
    BY <1>1, <2>1, Sited, OperandBears
<1> HIDE DEF x
<1> QED
  BY <1>1, <1>2, BlockStep, TableNamed

LEMMA OrgNamed == ASSUME AsmInv, NamedInv, Org PROVE NamedInv'
<1> DEFINE t == Look(symtab, {st.lab})
           x == Operand(t, st.args[1], curloc)
           l == Assign(x.tab, st.lab, STLAB, x.v.val, cursec)
<1>1. /\ UNCHANGED <<cmd, want>> /\ (symtab' = l.tab \/ symtab' = x.tab)
      /\ st.lab \in Labels /\ st.args[1] \in Operands
  BY StatementType, FirstOperand DEF Org, Assembling, Reading, WithOperand
<1>2. ASSUME TabBears(Globals, symtab) PROVE TabBears(Globals, l.tab) /\ TabBears(Globals, x.tab)
  <2>1. TabBears(Globals, t)
    BY <1>2, LookBears
  <2> HIDE DEF t
  <2>2. TabBears(Globals, x.tab) /\ x.v \in Values
    BY <1>1, <2>1, Sited, OperandBears
  <2>3. PICK v : v = x.v.val
    OBVIOUS
  <2>4. v \in Int
    BY <2>2, <2>3 DEF Values
  <2> HIDE DEF x
  <2>5. TabBears(Globals, Assign(x.tab, st.lab, STLAB, v, cursec).tab)
    BY <1>1, <2>2, <2>4, Sited, AssignBears
  <2> QED
    BY <2>2, <2>3, <2>5
<1> HIDE DEF x, l
<1> QED
  BY <1>1, <1>2, OrgStep, TableNamed

LEMMA AbsNamed == ASSUME AsmInv, NamedInv, Abs PROVE NamedInv'
<1>1. /\ Reading /\ UNCHANGED <<cmd, want>> /\ SameLists(out', out) /\ st.lab \in Labels
  BY StatementType DEF Abs, Assembling, Reading, SameLists
<1>2. PICK loc : loc = curloc'
  OBVIOUS
<1>3. loc \in Int /\ 0 \in Sections
  BY <1>2, AbsStep, AsmAssumption DEF AsmInv, PlacesType, Sections
<1>4. symtab' = Labelled(loc, 0).tab
  BY <1>2 DEF Abs
<1>5. TabBears(Globals, symtab) => TabBears(Globals, symtab')
  BY <1>1, <1>3, <1>4, LabelledBears
<1> QED
  BY <1>1, <1>5, TableNamed

LEMMA GivenBears ==
  ASSUME NEW G, TabBears(G, symtab), NEW n \in Names, NEW s \in Sections
  PROVE  TabBears(G, Given(n, s).tab)
<1>1. TabBears(G, Look(symtab, {n}))
  BY LookBears
<1>2. s \in Int /\ s < RBEXT /\ n \in Labels /\ STSEC \in SymTypes
  BY SectionIsNot DEF Labels, SymTypes
<1> QED
  BY <1>1, <1>2, AssignBears DEF Given

LEMMA SectNewNamed == ASSUME AsmInv, NamedInv, SectNew PROVE NamedInv'
<1>1. /\ UNCHANGED <<cmd, want>> /\ SameLists(out', out) /\ st.lab \in Labels /\ st.lab # NoName
  BY StatementType DEF SectNew, Assembling, Reading, history, SameLists
<1>2. PICK n : n = st.lab /\ n \in Names
  BY <1>1 DEF Labels
<1>3. CASE TooMany
  BY <1>1, <1>3, TableNamed DEF SectNew
<1>4. CASE ~TooMany
  <2>1. symtab' = Given(n, secct).tab
    BY <1>2, <1>4 DEF SectNew, NewSec, Given
  <2>2. secct \in Sections
    BY <1>4, AsmAssumption DEF AsmInv, PlacesType, Sections, TooMany
  <2> QED
    BY <1>1, <1>2, <2>1, <2>2, GivenBears, TableNamed
<1> QED
  BY <1>3, <1>4

LEMMA StartPassNamed == ASSUME AsmInv, NamedInv, StartPass PROVE NamedInv'
<1>1. UNCHANGED <<cmd, want>> /\ SameLists(out', out) /\ symtab' = Given("__text", 1).tab
  BY DEF StartPass, history, SameLists, Given
<1>2. "__text" \in Names /\ 1 \in Sections
  BY AsmAssumption DEF Sections
<1> QED
  BY <1>1, <1>2, GivenBears, TableNamed

LEMMA GlobalNamed == ASSUME AsmInv, NamedInv, Global PROVE NamedInv'
<1> DEFINE t == Look(symtab, Range(st.args) \cup {st.lab})
<1>1. UNCHANGED <<cmd, want>> /\ SameLists(out', out)
  BY DEF Global, history, SameLists
<1>2. \A n \in Names : symtab'[n] = t[n] \/ symtab'[n] = [t[n] EXCEPT !.glo = TRUE]
  BY DEF Global
<1>3. symtab' \in Tables
  BY GlobalStep DEF AsmInv
<1>4. ASSUME TabBears(Globals, symtab) PROVE TabBears(Globals, symtab')
  <2>1. TabBears(Globals, t)
    BY <1>4, LookBears
  <2> HIDE DEF t
  <2>2. ASSUME NEW n \in Names PROVE symtab'[n].rel = t[n].rel
    <3>1. t[n] \in Symbols
      BY <2>1 DEF TabBears, Tables
    <3> QED
      BY <1>2, <3>1 DEF Symbols
  <2> QED
    BY <1>3, <2>1, <2>2 DEF TabBears
<1> QED
  BY <1>1, <1>4, TableNamed

(* Here it matters that no .equ or .set names an external.                 *)
LEMMA EquNamed == ASSUME AsmInv, NamedInv, Equ PROVE NamedInv'
<1> DEFINE t == Look(symtab, {st.lab})
           x == Operand(t, st.args[1], curloc)
           typ == IF st.op = "equ" THEN STLAB ELSE STVAR
           a == IF x.v.e = {} \/ pass2 THEN Assign(x.tab, st.lab, typ, x.v.val, x.v.rel)
                ELSE [tab |-> x.tab, e |-> {}]
<1>1. /\ UNCHANGED <<cmd, want>> /\ SameLists(out', out) /\ symtab' = a.tab
      /\ st.lab \in Labels /\ st.args[1] \in Operands /\ st.op \in {"equ", "set"} /\ st \in Range(cmd.src)
  <2>1. Reading /\ st.op \in {"equ", "set"} /\ UNCHANGED <<cmd, want, out>> /\ symtab' = a.tab
    BY DEF Equ, Assembling, history
  <2>2. cmd.src \in Seq(Statements) /\ line \in 1 .. Len(cmd.src)
    BY <2>1, CommandAssumption DEF AsmInv, SourceType, Reading
  <2>3. st \in Range(cmd.src)
    BY <2>2 DEF st, Range
  <2> QED
    BY <2>1, <2>3, StatementType, FirstOperand DEF WithOperand, SameLists
<1>2. ASSUME Direct, TabBears(Globals, symtab) PROVE TabBears(Globals, a.tab)
  <2>1. TabBears(Globals, t)
    BY <1>2, LookBears
  <2> HIDE DEF t
  <2>2. PICK p : p = st.args[1]
    OBVIOUS
  <2>3. TabBears(Globals, x.tab) /\ Points(Globals, p, x.v) /\ x.v \in Values
    BY <1>1, <2>1, <2>2, Sited, OperandBears
  <2>4. PICK v, r, of : v = x.v.val /\ r = x.v.rel /\ of = x.v.of
    OBVIOUS
  <2>5. v \in Int /\ r \in Int /\ (r >= RBEXT => of \in Syms(p) /\ Bears(Globals, of, r))
    BY <2>3, <2>4 DEF Values, Points
  <2>6. r < RBEXT
    <3>1. CASE r >= RBEXT
      <4>1. PICK i : /\ i \in 1 .. Len(Externals(Globals)) /\ Externals(Globals)[i].name = of
        BY <2>5, <3>1 DEF Bears
      <4>2. Globals \in Seq(ListItems) /\ 0 \in Nat
        BY ListedType DEF AsmInv, ObjectRight, Good, Globals, ListTypes
      <4>3. NumbersRight(Globals, 0)
        BY <4>2, NumbersTell
      <4>4. PICK k \in 1 .. Len(Globals) : Globals[k] = Externals(Globals)[i] /\ Undefined(Externals(Globals)[i])
        BY <4>1, <4>3 DEF NumbersRight
      <4>5. Undefined(Globals[k]) /\ Globals[k].name = of
        BY <4>1, <4>4
      <4>6. of \notin Syms(p)
        BY <1>1, <1>2, <2>2, <4>5 DEF Direct
      <4> QED
        BY <2>5, <3>1, <4>6
    <3> QED
      BY <2>5, <3>1 DEF RBEXT
  <2> HIDE DEF x
  <2>7. typ \in SymTypes /\ typ # STSEC
    BY Sited
  <2> HIDE DEF typ
  <2>8. TabBears(Globals, Assign(x.tab, st.lab, typ, v, r).tab)
    BY <1>1, <2>3, <2>5, <2>6, <2>7, AssignBears
  <2> QED
    BY <2>3, <2>4, <2>8
<1> HIDE DEF a
<1> QED
  BY <1>1, <1>2, TableNamed

LEMMA IfNamed == ASSUME AsmInv, NamedInv, If PROVE NamedInv'
<1> DEFINE t == Look(symtab, {st.lab})
           x == Operand(t, st.args[1], curloc)
<1>1. UNCHANGED <<cmd, want>> /\ SameLists(out', out) /\ symtab' = x.tab /\ st.args[1] \in Operands
  BY StatementType, FirstOperand DEF If, Assembling, Reading, WithOperand, history, SameLists
<1>2. ASSUME TabBears(Globals, symtab) PROVE TabBears(Globals, x.tab)
  <2>1. TabBears(Globals, t)
    BY <1>2, LookBears
  <2> HIDE DEF t
  <2> QED
    BY <1>1, <2>1, Sited, OperandBears
<1> HIDE DEF x
<1> QED
  BY <1>1, <1>2, TableNamed

LEMMA EndNamed == ASSUME AsmInv, NamedInv, End PROVE NamedInv'
<1> DEFINE t == Look(symtab, {st.lab})
           x == Operand(t, st.args[1], curloc)
<1>1. UNCHANGED <<cmd, want>> /\ st.args \in Seq(Operands)
  BY StatementType DEF End, Assembling, Reading, Others, history
<1>2. IF st.args = <<>> THEN symtab' = t ELSE symtab' = x.tab
  BY DEF End
<1>3. ASSUME TabBears(Globals, symtab) PROVE TabBears(Globals, symtab')
  <2>1. TabBears(Globals, t)
    BY <1>3, LookBears
  <2> HIDE DEF t
  <2>2. st.args # <<>> => TabBears(Globals, x.tab)
    BY <1>1, <2>1, FirstOperand, Sited, OperandBears
  <2> HIDE DEF x
  <2> QED
    BY <1>2, <2>1, <2>2
<1> QED
  BY <1>1, <1>3, EndStep, TableNamed

LEMMA OtherNamed ==
  ASSUME AsmInv, NamedInv, SectNoLabel \/ SectOld \/ Else \/ Endif \/ Skip \/ EndPass
  PROVE  NamedInv'
<1>1. UNCHANGED <<cmd, want>> /\ (symtab' = symtab \/ symtab' = Look(symtab, {st.lab}))
  BY DEF SectNoLabel, SectOld, Else, Endif, Skip, EndPass, history
<1>2. SameLists(out', out)
  BY EndPassStep DEF SectNoLabel, SectOld, Else, Endif, Skip, SameLists
<1>3. TabBears(Globals, symtab) => TabBears(Globals, symtab')
  BY <1>1, LookBears
<1> QED
  BY <1>1, <1>2, <1>3, TableNamed

(* The externals in the order in which they were written, with their       *)
(* numbers: c counts them.                                                 *)
IsExternal(e) == e # None /\ e.typ = "OBGLO" /\ Undefined(e.item)
Counts(c, list) ==
  /\ c[0] = 0
  /\ \A i \in 1 .. Len(list) :
       c[i - 1] \in Nat /\ c[i] = IF IsExternal(list[i]) THEN c[i - 1] + 1 ELSE c[i - 1]
InPlaces(E, c, list, n) ==
  \A i \in 1 .. n : IsExternal(list[i]) => c[i - 1] + 1 \in 1 .. Len(E) /\ E[c[i - 1] + 1] = list[i].item

LEMMA PutAllExternals ==
  ASSUME NEW o, Good(o, 0), Listed(o, "OBGLO") = <<>>, NEW list \in Seq(ToList), NEW c, Counts(c, list)
  PROVE  InPlaces(Externals(Listed(PutAll(o, list), "OBGLO")), c, list, Len(list))
<1> DEFINE N == Len(list)
           E(x) == Externals(Listed(x, "OBGLO"))
<1>0. N \in Nat
  OBVIOUS
<1>1. N \in Nat /\ "OBGLO" \in ListTypes
  BY <1>0 DEF ListTypes
<1>2. PICK p : /\ PutAll(o, list) = p[N] /\ p[0] = o
               /\ \A i \in 1 .. N :
                    p[i] = IF list[i] = None THEN p[i - 1] ELSE PutItem(p[i - 1], list[i].typ, list[i].item)
  <2>1. \E p : /\ PutAll(o, list) = p[Len(list)] /\ p[0] = o
                /\ \A i \in 1 .. Len(list) :
                     p[i] = IF list[i] = None THEN p[i - 1] ELSE PutItem(p[i - 1], list[i].typ, list[i].item)
    BY ONLY <1>0, PutAllRuns
  <2> QED
    BY <2>1
<1> DEFINE Right(i) == Good(p[i], 0) /\ Len(E(p[i])) = c[i] /\ InPlaces(E(p[i]), c, list, i)
           T == {i \in Nat : i <= N => Right(i)}
<1>3. 0 \in T
  <2>1. "-" \in ListItems /\ 0 \in Nat
    BY DEF ListItems, Labels, NoName
  <2>2. Externals(<<>>) = <<>>
    BY DEF Externals, FlattenSeq
  <2>3. E(p[0]) = <<>> /\ c[0] = 0
    BY <1>2, <2>2 DEF Counts
  <2> QED
    BY <1>2, <2>3 DEF InPlaces
<1>4. ASSUME NEW i \in Nat, i \in T PROVE i + 1 \in T
  <2> SUFFICES ASSUME i + 1 <= N PROVE Right(i + 1)
    <3> HIDE DEF Right
    <3> QED
      OBVIOUS
  <2>1. PICK x, y, e, m : x = p[i] /\ y = p[i + 1] /\ e = list[i + 1] /\ m = c[i]
    OBVIOUS
  <2>2. i + 1 \in 1 .. N /\ e \in ToList /\ (i + 1) - 1 = i
    BY <1>1, <2>1
  <2>3. Good(x, 0) /\ Len(E(x)) = m /\ InPlaces(E(x), c, list, i)
    BY <1>1, <1>4, <2>1
  <2>4. y = IF e = None THEN x ELSE PutItem(x, e.typ, e.item)
    BY <1>2, <2>1, <2>2
  <2>5. m \in Nat /\ c[i + 1] = IF IsExternal(e) THEN m + 1 ELSE m
    BY <2>1, <2>2 DEF Counts
  <2>6. Good(y, 0) /\ E(x) \in Seq(ListItems) /\ E(y) = E(x) \o IF IsExternal(e) THEN <<e.item>> ELSE <<>>
    <3>1. PICK L : L = Listed(x, "OBGLO")
      OBVIOUS
    <3>2. L \in Seq(ListItems) /\ 0 \in Nat
      BY <1>1, <2>3, <3>1, ListedType DEF Good
    <3>3. "-" \in ListItems
      BY DEF ListItems, Labels, NoName
    <3>4. Externals(L) \in Seq(ListItems)
      BY <3>2, <3>3, ExternalsAppend
    <3>5. CASE e = None
      <4>1. y = x /\ ~IsExternal(e)
        BY <2>4, <3>5 DEF IsExternal
      <4> QED
        BY <2>3, <3>1, <3>4, <4>1, ConcatEmptySeq
    <3>6. CASE e # None
      <4>1. PICK typ, item : typ = e.typ /\ item = e.item
        OBVIOUS
      <4>2. typ \in ListTypes /\ item \in ListItems /\ y = PutItem(x, typ, item)
        BY <2>2, <2>4, <3>6, <4>1 DEF ToList
      <4>3. Good(y, 0)
        BY <2>3, <4>2, PutItemGood
      <4>4. Listed(y, "OBGLO") = IF "OBGLO" = typ THEN Append(L, item) ELSE L
        <5>1. \A t \in ListTypes : Listed(PutItem(x, typ, item), t) = IF t = typ THEN Append(Listed(x, t), item)
                                                                     ELSE Listed(x, t)
          BY <2>3, <4>2, PutItemLists, Zenon
        <5> QED
          BY <1>1, <3>1, <4>2, <5>1
      <4>5. CASE typ = "OBGLO"
        <5>1. IsExternal(e) <=> Undefined(item)
          BY <3>6, <4>1, <4>5 DEF IsExternal
        <5>2. Externals(Append(L, item)) = Externals(L) \o IF Undefined(item) THEN <<item>> ELSE <<>>
          BY <3>2, <4>2, ExternalsAppend
        <5>3. PICK a, b : a = Externals(L) /\ b = Externals(Append(L, item))
          OBVIOUS
        <5>4. E(x) = a /\ E(y) = b
          BY <3>1, <4>4, <4>5, <5>3
        <5>5. b = a \o IF IsExternal(e) THEN <<e.item>> ELSE <<>>
          BY <4>1, <5>1, <5>2, <5>3
        <5> QED
          BY <3>4, <4>3, <5>3, <5>4, <5>5
      <4>6. CASE typ # "OBGLO"
        <5>1. ~IsExternal(e) /\ E(y) = E(x)
          BY <3>1, <4>1, <4>4, <4>6 DEF IsExternal
        <5> QED
          BY <3>1, <3>4, <4>3, <5>1, ConcatEmptySeq
      <4> QED
        BY <4>5, <4>6
    <3> QED
      BY <3>5, <3>6
  <2>7. PICK f, g : f = E(x) /\ g = E(y)
    OBVIOUS
  <2>8. /\ Len(f) = m /\ f \in Seq(ListItems)
        /\ \A k \in 1 .. i : IsExternal(list[k]) => c[k - 1] + 1 \in 1 .. m /\ f[c[k - 1] + 1] = list[k].item
    BY <2>3, <2>6, <2>7 DEF InPlaces
  <2>9. Len(g) = c[i + 1] /\ InPlaces(g, c, list, i + 1)
    <3>1. CASE IsExternal(e)
      <4>1. e.item \in ListItems
        BY <2>2, <3>1 DEF IsExternal, ToList
      <4>2. g = Append(f, e.item)
        BY <2>6, <2>7, <2>8, <3>1, <4>1, AppendIsConcat
      <4>3. Len(g) = m + 1 /\ g[m + 1] = e.item /\ \A k \in 1 .. m : g[k] = f[k]
        BY <2>8, <4>1, <4>2, AppendProperties
      <4>4. ASSUME NEW k \in 1 .. i + 1, IsExternal(list[k])
            PROVE  c[k - 1] + 1 \in 1 .. m + 1 /\ g[c[k - 1] + 1] = list[k].item
        <5>1. CASE k = i + 1
          <6>1. c[k - 1] = m
            BY <2>1, <5>1
          <6> QED
            BY <2>1, <2>5, <4>3, <5>1, <6>1
        <5>2. CASE k \in 1 .. i
          <6>1. c[k - 1] + 1 \in 1 .. m /\ f[c[k - 1] + 1] = list[k].item
            BY <2>8, <4>4, <5>2
          <6>2. PICK d : d = c[k - 1] + 1
            OBVIOUS
          <6>3. d \in 1 .. m + 1 /\ g[d] = f[d]
            BY <2>5, <4>3, <6>1, <6>2
          <6> QED
            BY <6>1, <6>2, <6>3
        <5> QED
          BY <5>1, <5>2
      <4> QED
        BY <2>5, <3>1, <4>3, <4>4 DEF InPlaces
    <3>2. CASE ~IsExternal(e)
      <4>1. g = f
        BY <2>6, <2>7, <2>8, <3>2, ConcatEmptySeq
      <4>2. \A k \in 1 .. i + 1 : IsExternal(list[k]) => k \in 1 .. i
        BY <2>1, <3>2
      <4> QED
        BY <2>5, <2>8, <3>2, <4>1, <4>2 DEF InPlaces
    <3> QED
      BY <3>1, <3>2
  <2> QED
    BY <2>1, <2>6, <2>7, <2>9
<1>5. Nat \subseteq T
  <2> HIDE DEF T
  <2> QED
    BY <1>3, <1>4, NatSetInduction
<1>6. Right(N)
  BY <1>1, <1>5
<1> QED
  BY <1>2, <1>6

(* Number() counts likewise.                                               *)
NumberedTo(m) == Cardinality({i \in 1 .. m : Numbered(HashOrder[i])})

LEMMA NumberedRuns ==
  ASSUME NEW m \in Nat
  PROVE  /\ NumberedTo(0) = 0 /\ NumberedTo(m) \in Nat
         /\ NumberedTo(m + 1) = IF Numbered(HashOrder[m + 1]) THEN NumberedTo(m) + 1 ELSE NumberedTo(m)
<1> DEFINE S(k) == {i \in 1 .. k : Numbered(HashOrder[i])}
<1>1. IsFiniteSet(S(m))
  <2>1. IsFiniteSet(1 .. m) /\ S(m) \subseteq 1 .. m
    BY FS_Interval
  <2> QED
    BY <2>1, FS_Subset
<1>2. S(0) = {}
  OBVIOUS
<1>3. S(m + 1) = IF Numbered(HashOrder[m + 1]) THEN S(m) \cup {m + 1} ELSE S(m)
  <2>1. 1 .. m + 1 = (1 .. m) \cup {m + 1}
    OBVIOUS
  <2> QED
    BY <2>1
<1>4. m + 1 \notin S(m)
  OBVIOUS
<1> HIDE DEF S
<1>5. Cardinality(S(m)) \in Nat /\ Cardinality(S(0)) = 0
  BY <1>1, <1>2, FS_CardinalityType, FS_EmptySet
<1>6. Cardinality(S(m) \cup {m + 1}) = Cardinality(S(m)) + 1
  BY <1>1, <1>4, FS_AddElement
<1>7. \A k : NumberedTo(k) = Cardinality(S(k))
  BY DEF NumberedTo, S
<1> QED
  BY <1>3, <1>5, <1>6, <1>7

(* The interlude numbers the externals by their places in its lists.       *)
LEMMA InterludeOrders ==
  ASSUME AsmInv, ListsInv, Interlude, NEW n \in Names, Numbered(n)
  PROVE  Bears(Globals', n, Number(n))
<1>0. ~pass2 /\ apc = "interlude" /\ InPass1 /\ Proper(symtab)
  BY DEF Interlude, AsmInv, ObjectRight, ListsInv
<1> DEFINE list == SectionList \o SymbolList
           S == secct - 1
           N == Len(HashOrder)
           c == [j \in 0 .. S + N |-> IF j <= S THEN 0 ELSE NumberedTo(j - S)]
<1>1. Good(Opened, 0) /\ Listed(Opened, "OBGLO") = <<>>
  BY <1>0, InterludeOpens DEF SameLists, InPass1, ListTypes
<1>2. out' = PutAll(Opened, list)
  BY DEF Interlude, Opened
<1>3. SectionList \in Seq(ToList) /\ SymbolList \in Seq(ToList) /\ list \in Seq(ToList)
  BY ListsType, ConcatProperties DEF AsmInv
<1>4. S \in Nat /\ N \in Nat
  BY NamesListed, AsmAssumption DEF AsmInv, PlacesType
<1>5. Len(SectionList) = S /\ Len(SymbolList) = N
  BY <1>4, AsmAssumption DEF SectionList, SymbolList
<1>6. /\ Len(list) = S + N
      /\ \A r \in 1 .. S : list[r] = SectionList[r]
      /\ \A r \in S + 1 .. S + N : list[r] = SymbolList[r - S]
  <2>1. /\ Len(list) = Len(SectionList) + Len(SymbolList)
        /\ \A r \in 1 .. Len(SectionList) : list[r] = SectionList[r]
        /\ \A r \in Len(SectionList) + 1 .. Len(SectionList) + Len(SymbolList) :
             list[r] = SymbolList[r - Len(SectionList)]
    BY <1>3, ConcatProperties
  <2> HIDE DEF list, S, N
  <2> QED
    BY <1>4, <1>5, <2>1
<1> HIDE DEF list
<1>7. ASSUME NEW r \in 1 .. S PROVE ~IsExternal(list[r])
  <2>1. list[r] = [typ |-> "OBSEC", item |-> sectab[r].sym]
    BY <1>6 DEF SectionList
  <2>2. list[r].typ = "OBSEC"
    BY <2>1
  <2> QED
    BY <2>2 DEF IsExternal
<1>8. ASSUME NEW i \in 1 .. N
      PROVE  /\ IsExternal(list[S + i]) <=> Numbered(HashOrder[i])
             /\ Numbered(HashOrder[i]) => list[S + i].item.name = HashOrder[i]
  <2>1. S + i \in S + 1 .. S + N /\ (S + i) - S = i /\ i \in DOMAIN HashOrder
    BY <1>4, AsmAssumption
  <2>2. PICK m \in Names : m = HashOrder[i]
    BY NamesListed
  <2>3. list[S + i] = IF symtab[m].typ \in {STNEW, STSEC} THEN None ELSE [typ |-> SymBlock(m), item |-> SymItem(m)]
    BY <1>6, <2>1, <2>2 DEF SymbolList
  <2>4. symtab[m].rel # RBUND
    BY <1>0 DEF Proper
  <2>5. CASE Numbered(m)
    <3>1. symtab[m].typ = STUND /\ SymBlock(m) = "OBGLO" /\ SymItem(m) = [name |-> m, val |-> 0, sec |-> RBUND]
      BY <2>5 DEF Numbered, SymBlock, SymItem
    <3>2. list[S + i] = [typ |-> "OBGLO", item |-> [name |-> m, val |-> 0, sec |-> RBUND]]
      BY <2>3, <3>1 DEF STUND, STNEW, STSEC
    <3> QED
      BY <2>2, <2>5, <3>2 DEF IsExternal, Undefined, None
  <2>6. CASE ~Numbered(m)
    <3>1. CASE symtab[m].typ \in {STNEW, STSEC}
      BY <2>2, <2>3, <2>6, <3>1 DEF IsExternal
    <3>2. CASE symtab[m].typ = STUND
      <4>1. SymBlock(m) = "OBLOC"
        BY <2>6, <3>2 DEF Numbered, SymBlock
      <4>2. list[S + i] = [typ |-> "OBLOC", item |-> SymItem(m)]
        BY <2>3, <3>2, <4>1 DEF STUND, STNEW, STSEC
      <4>3. list[S + i].typ = "OBLOC"
        BY <4>2
      <4> QED
        BY <2>2, <2>6, <4>3 DEF IsExternal
    <3>3. CASE symtab[m].typ \notin {STNEW, STSEC, STUND}
      <4>1. SymItem(m) = [name |-> m, val |-> symtab[m].val, sec |-> symtab[m].rel]
        BY <3>3 DEF SymItem
      <4>2. list[S + i] = [typ |-> SymBlock(m), item |-> SymItem(m)]
        BY <2>3, <3>3
      <4>3. list[S + i].item.sec # RBUND
        BY <2>4, <4>1, <4>2
      <4> QED
        BY <2>2, <2>6, <4>3 DEF IsExternal, Undefined
    <3> QED
      BY <3>1, <3>2, <3>3
  <2> QED
    BY <2>5, <2>6
<1> HIDE DEF S, N
<1>9. Counts(c, list)
  <2>1. c[0] = 0
    BY <1>4
  <2>2. ASSUME NEW j \in 1 .. S + N
        PROVE  c[j - 1] \in Nat /\ c[j] = IF IsExternal(list[j]) THEN c[j - 1] + 1 ELSE c[j - 1]
    <3>1. CASE j <= S
      <4>1. c[j] = 0 /\ c[j - 1] = 0 /\ j \in 1 .. S
        BY <1>4, <3>1
      <4> QED
        BY <1>7, <4>1
    <3>2. CASE j > S
      <4>1. PICK i \in 1 .. N : j = S + i
        <5>1. j - S \in 1 .. N /\ j = S + (j - S)
          BY <1>4, <3>2
        <5> QED
          BY <5>1
      <4>2. PICK k \in Nat : i = k + 1
        <5>1. i - 1 \in Nat /\ i = (i - 1) + 1
          BY <1>4
        <5> QED
          BY <5>1
      <4>3. c[j] = NumberedTo(k + 1)
        <5>1. j \in 0 .. S + N /\ ~(j <= S) /\ j - S = k + 1
          BY <1>4, <3>2, <4>1, <4>2
        <5> QED
          BY <5>1
      <4>4. c[j - 1] = NumberedTo(k)
        <5>1. j - 1 \in 0 .. S + N /\ (j - 1) - S = k
          BY <1>4, <4>1, <4>2
        <5>2. CASE k = 0
          <6>1. c[j - 1] = 0
            BY <1>4, <5>1, <5>2
          <6> QED
            BY <5>2, <6>1, NumberedRuns
        <5>3. CASE k # 0
          <6>1. ~(j - 1 <= S)
            BY <1>4, <4>1, <4>2, <5>3
          <6> QED
            BY <5>1, <6>1
        <5> QED
          BY <5>2, <5>3
      <4>5. IsExternal(list[j]) <=> Numbered(HashOrder[k + 1])
        BY <1>8, <4>1, <4>2
      <4>6. /\ NumberedTo(k) \in Nat
            /\ NumberedTo(k + 1) = IF Numbered(HashOrder[k + 1]) THEN NumberedTo(k) + 1 ELSE NumberedTo(k)
        BY NumberedRuns
      <4> HIDE DEF c
      <4> QED
        BY <4>3, <4>4, <4>5, <4>6
    <3> QED
      BY <1>4, <3>1, <3>2
  <2> HIDE DEF c
  <2> QED
    BY <1>6, <2>1, <2>2 DEF Counts
<1>10. PICK p : p = Position(n)
  OBVIOUS
<1>11. p \in 1 .. N /\ HashOrder[p] = n /\ p - 1 \in Nat
  BY <1>4, <1>10, NamesListed DEF N
<1>12. c[(S + p) - 1] = NumberedTo(p - 1)
  <2>1. (S + p) - 1 \in 0 .. S + N /\ ((S + p) - 1) - S = p - 1
    BY <1>4, <1>11
  <2>2. CASE p = 1
    <3>1. c[(S + p) - 1] = 0
      BY <1>4, <2>1, <2>2
    <3>2. 0 \in Nat /\ p - 1 = 0
      BY <2>2
    <3>3. NumberedTo(0) = 0
      BY <3>2, NumberedRuns
    <3> QED
      BY <3>1, <3>2, <3>3
  <2>3. CASE p # 1
    <3>1. ~((S + p) - 1 <= S)
      BY <1>4, <1>11, <2>3
    <3> QED
      BY <2>1, <3>1
  <2> QED
    BY <2>2, <2>3
<1> HIDE DEF c
<1>13. PICK E : E = Externals(Globals')
  OBVIOUS
<1>14. InPlaces(E, c, list, S + N)
  <2>1. PICK o : o = PutAll(Opened, list)
    OBVIOUS
  <2>2. InPlaces(Externals(Listed(o, "OBGLO")), c, list, S + N)
    BY <1>1, <1>3, <1>6, <1>9, <2>1, PutAllExternals
  <2>3. Globals' = Listed(o, "OBGLO")
    BY <1>2, <2>1 DEF Globals
  <2> QED
    BY <1>13, <2>2, <2>3
<1>15. IsExternal(list[S + p]) /\ list[S + p].item.name = n /\ S + p \in 1 .. S + N
  BY <1>4, <1>8, <1>11
<1>16. PICK d : d = NumberedTo(p - 1)
  OBVIOUS
<1>17. d + 1 \in 1 .. Len(E) /\ E[d + 1].name = n
  BY <1>12, <1>14, <1>15, <1>16 DEF InPlaces
<1>18. Number(n) = RBEXT + d
  BY <1>10, <1>16 DEF Number, NumberedTo
<1>19. d \in Nat
  BY <1>11, <1>16, NumberedRuns
<1>20. Number(n) - RBEXT + 1 = d + 1
  BY <1>18, <1>19 DEF RBEXT
<1> QED
  BY <1>13, <1>17, <1>20 DEF Bears

LEMMA InterludeNamed == ASSUME AsmInv, ListsInv, NamedInv, Interlude PROVE NamedInv'
<1>1. InPass1 /\ Proper(symtab) /\ ~pass2
  BY DEF Interlude, AsmInv, ObjectRight, ListsInv
<1>2. Globals = <<>>
  BY <1>1 DEF InPass1, Globals, ListTypes
<1>3. Direct
  BY <1>2 DEF Direct
<1>4. TabBears(<<>>, symtab) /\ WantBears(<<>>, want)
  BY <1>2, <1>3 DEF NamedInv
<1>5. Len(Externals(<<>>)) = 0
  BY DEF Externals, FlattenSeq
<1>6. ASSUME NEW n, NEW rel PROVE ~Bears(<<>>, n, rel)
  <2>1. PICK z : z = rel - RBEXT + 1
    OBVIOUS
  <2> QED
    BY <1>5, <2>1 DEF Bears
<1>7. want' = want
  BY DEF Interlude, history
<1>8. WantBears(Globals', want')
  <2>1. ASSUME NEW i \in 1 .. Len(want) PROVE ~(want[i].rel # NoRel /\ want[i].rel.base >= RBEXT)
    <3>1. RelBears(<<>>, want[i].rel)
      BY <1>4 DEF WantBears
    <3> QED
      BY <1>6, <3>1 DEF RelBears
  <2> QED
    BY <1>7, <2>1 DEF WantBears, RelBears
<1>9. symtab' \in Tables
  BY InterludeStep DEF AsmInv
<1>10. ASSUME NEW n \in Names, symtab'[n].rel >= RBEXT PROVE Bears(Globals', n, symtab'[n].rel)
  <2>1. symtab'[n] = IF Numbered(n)
                     THEN [symtab[n] EXCEPT !.typ = STLAB, !.glo = TRUE, !.val = 0, !.rel = Number(n)]
                     ELSE symtab[n]
    BY DEF Interlude
  <2>2. symtab[n] \in Symbols
    BY <1>1 DEF Proper, Tables
  <2>3. CASE Numbered(n)
    <3>1. symtab'[n].rel = Number(n)
      BY <2>1, <2>2, <2>3 DEF Symbols
    <3> QED
      BY <2>3, <3>1, InterludeOrders
  <2>4. CASE ~Numbered(n)
    <3>1. symtab[n].rel >= RBEXT
      BY <1>10, <2>1, <2>4
    <3> QED
      BY <1>4, <1>6, <3>1 DEF TabBears
  <2> QED
    BY <2>3, <2>4
<1>11. TabBears(Globals', symtab')
  BY <1>9, <1>10 DEF TabBears
<1> QED
  BY <1>8, <1>11 DEF NamedInv

LEMMA NamedInit == Init => NamedInv
<1> SUFFICES ASSUME Init PROVE NamedInv
  OBVIOUS
<1>1. want = <<>> /\ symtab = [n \in Names |-> NewSym]
  BY DEF Init, Init1
<1>2. symtab \in Tables
  BY AsmInit DEF AsmInv
<1>3. \A n \in Names : ~(symtab[n].rel >= RBEXT)
  BY <1>1 DEF NewSym, RBABS, RBEXT
<1>4. WantBears(Globals, want)
  BY <1>1 DEF WantBears
<1> QED
  BY <1>2, <1>3, <1>4 DEF NamedInv, TabBears

LEMMA NamedStep == AsmInv /\ ListsInv /\ NamedInv /\ [Next]_vars => NamedInv'
<1> SUFFICES ASSUME AsmInv, ListsInv, NamedInv, [Next]_vars PROVE NamedInv'
  OBVIOUS
<1>1. CASE Assemble
  BY <1>1, StartPassNamed, InterludeNamed, EndNamed, LabelNamed, DataNamed, InstrNamed, AlignNamed, BlockNamed,
     OrgNamed, AbsNamed, SectNewNamed, GlobalNamed, EquNamed, IfNamed, OtherNamed DEF Assemble
<1>2. CASE UNCHANGED asmvars
  <2>1. UNCHANGED <<cmd, out, symtab, want>>
    BY <1>2 DEF asmvars, history
  <2>2. SameLists(out', out)
    BY <2>1 DEF SameLists
  <2> QED
    BY <2>1, <2>2, NamedKept DEF Keeps
<1>3. Convert => UNCHANGED asmvars
  BY DEF Convert, Begin, Ignored, EndPass1, Interpass, EndPass2, Sections1, Symbols1, Text1,
         Sections2, Symbols2, Text2
<1>4. UNCHANGED vars => UNCHANGED asmvars
  BY DEF vars
<1> QED
  BY <1>1, <1>2, <1>3, <1>4 DEF Next

(* For every command line and every program where no .equ and no .set      *)
(* names an external: interlude() counts the externals over all the hash   *)
(* chains and hands out numbers, and writes the lists block by block;      *)
(* whatever pass 2 then does with the values, every symbol and every       *)
(* relocation that has an external's number has the place, among the       *)
(* undefined symbols of the .globl lists as they stand in the object file, *)
(* of the very symbol that the source names.                               *)
THEOREM NumbersTrue == Spec => []NamedInv
<1>1. Init => AsmInv /\ ListsInv /\ NamedInv
  BY AsmInit, ListsInit, NamedInit
<1>2. AsmInv /\ ListsInv /\ NamedInv /\ [Next]_vars => AsmInv' /\ ListsInv' /\ NamedInv'
  BY AsmStep, ListsStep, NamedStep
<1> QED
  BY <1>1, <1>2, PTL DEF Spec

-----------------------------------------------------------------------------
(* The relocations and the symbols of the blocks so far.                   *)
RelsOf(b) == IF b.typ = "OBTXT" THEN [i \in DOMAIN b.rel |-> [b |-> b, r |-> b.rel[i]]] ELSE <<>>
SymsOf(b) == IF b.typ \in ListTypes THEN [i \in DOMAIN b.items |-> [typ |-> b.typ, item |-> b.items[i]]] ELSE <<>>
RelsTo(k) == FlattenSeq([i \in DOMAIN Prefix(k) |-> RelsOf(Prefix(k)[i])])
SymsTo(k) == FlattenSeq([i \in DOMAIN Prefix(k) |-> SymsOf(Prefix(k)[i])])
ItemsTo(typ, k) == ItemsIn(Prefix(k), typ)
BlockRels == [b : TextBlocks, r : PlacedRelocs]
BlockSyms == [typ : ListTypes, item : ListItems]

LEMMA PartsType ==
  ASSUME NEW b \in Blocks
  PROVE  /\ RelsOf(b) \in Seq(BlockRels) /\ SymsOf(b) \in Seq(BlockSyms)
         /\ b.typ = "OBTXT" =>
              /\ Len(RelsOf(b)) = Len(b.rel) /\ b.rel \in Seq(PlacedRelocs)
              /\ \A i \in 1 .. Len(b.rel) : RelsOf(b)[i] = [b |-> b, r |-> b.rel[i]]
         /\ b.typ \in ListTypes =>
              /\ Len(SymsOf(b)) = Len(b.items) /\ b.items \in Seq(ListItems)
              /\ \A i \in 1 .. Len(b.items) : SymsOf(b)[i] = [typ |-> b.typ, item |-> b.items[i]]
<1>1. CASE b.typ = "OBTXT"
  <2>1. b \in TextBlocks /\ b.rel \in Seq(PlacedRelocs) /\ b.typ \notin ListTypes
    BY <1>1, TypeTells DEF TextBlocks, ListTypes
  <2>2. PICK n, rel : n = Len(b.rel) /\ rel = b.rel
    OBVIOUS
  <2>3. n \in Nat /\ DOMAIN rel = 1 .. n /\ \A i \in 1 .. n : rel[i] \in PlacedRelocs
    BY <2>1, <2>2
  <2>4. RelsOf(b) = [i \in 1 .. n |-> [b |-> b, r |-> rel[i]]]
    BY <1>1, <2>2, <2>3 DEF RelsOf
  <2>5. \A i \in 1 .. n : [b |-> b, r |-> rel[i]] \in BlockRels
    BY <2>1, <2>3 DEF BlockRels
  <2>6. RelsOf(b) \in Seq(BlockRels) /\ Len(RelsOf(b)) = n /\ \A i \in 1 .. n : RelsOf(b)[i] = [b |-> b, r |-> rel[i]]
    <3>1. RelsOf(b) \in [1 .. n -> BlockRels]
      BY <2>4, <2>5
    <3>2. RelsOf(b) \in Seq(BlockRels)
      BY <2>3, <3>1, SeqDef
    <3> QED
      BY <2>3, <2>4, <3>2
  <2>7. SymsOf(b) = <<>>
    BY <2>1 DEF SymsOf
  <2> QED
    BY <2>1, <2>2, <2>6, <2>7
<1>2. CASE b.typ \in ListTypes
  <2>1. b \in ListBlocks /\ b.items \in Seq(ListItems) /\ b.typ # "OBTXT"
    BY <1>2, TypeTells DEF ListBlocks, ListTypes
  <2>2. PICK n, items : n = Len(b.items) /\ items = b.items
    OBVIOUS
  <2>3. n \in Nat /\ DOMAIN items = 1 .. n /\ \A i \in 1 .. n : items[i] \in ListItems
    BY <2>1, <2>2
  <2>4. SymsOf(b) = [i \in 1 .. n |-> [typ |-> b.typ, item |-> items[i]]]
    BY <1>2, <2>2, <2>3 DEF SymsOf
  <2>5. \A i \in 1 .. n : [typ |-> b.typ, item |-> items[i]] \in BlockSyms
    BY <1>2, <2>3 DEF BlockSyms
  <2>6. SymsOf(b) \in Seq(BlockSyms) /\ Len(SymsOf(b)) = n
        /\ \A i \in 1 .. n : SymsOf(b)[i] = [typ |-> b.typ, item |-> items[i]]
    <3>1. SymsOf(b) \in [1 .. n -> BlockSyms]
      BY <2>4, <2>5
    <3>2. SymsOf(b) \in Seq(BlockSyms)
      BY <2>3, <3>1, SeqDef
    <3> QED
      BY <2>3, <2>4, <3>2
  <2>7. RelsOf(b) = <<>>
    BY <2>1 DEF RelsOf
  <2> QED
    BY <2>1, <2>2, <2>6, <2>7
<1>3. CASE b.typ # "OBTXT" /\ b.typ \notin ListTypes
  BY <1>3 DEF RelsOf, SymsOf
<1> QED
  BY <1>1, <1>2, <1>3

(* The blocks, one by one.                                                 *)
LEMMA RelsAppend ==
  ASSUME NEW bs \in Seq(Blocks), NEW b \in Blocks
  PROVE  LET fs(x) == FlattenSeq([i \in DOMAIN x |-> RelsOf(x[i])]) IN
         fs(bs) \in Seq(BlockRels) /\ fs(<<>>) = <<>> /\ fs(Append(bs, b)) = fs(bs) \o RelsOf(b)
<1> DEFINE f == [x \in Blocks |-> RelsOf(x)]
           new == Append(bs, b)
<1>1. f \in [Blocks -> Seq(BlockRels)]
  BY PartsType
<1>2. /\ FlattenSeq([i \in DOMAIN bs |-> f[bs[i]]]) \in Seq(BlockRels)
      /\ FlattenSeq([i \in DOMAIN new |-> f[new[i]]]) = FlattenSeq([i \in DOMAIN bs |-> f[bs[i]]]) \o f[b]
  <2> HIDE DEF f
  <2> QED
    BY <1>1, FlattenMap
<1>3. new \in Seq(Blocks) /\ (\A i \in DOMAIN bs : bs[i] \in Blocks) /\ (\A i \in DOMAIN new : new[i] \in Blocks)
  <2>1. new \in Seq(Blocks)
    BY AppendProperties
  <2> HIDE DEF new
  <2> QED
    BY <2>1
<1> HIDE DEF new
<1>4. /\ [i \in DOMAIN bs |-> f[bs[i]]] = [i \in DOMAIN bs |-> RelsOf(bs[i])]
      /\ [i \in DOMAIN new |-> f[new[i]]] = [i \in DOMAIN new |-> RelsOf(new[i])]
      /\ f[b] = RelsOf(b)
  BY <1>3
<1>5. FlattenSeq([i \in DOMAIN <<>> |-> RelsOf(<<>>[i])]) = <<>>
  BY DEF FlattenSeq
<1> HIDE DEF f
<1> QED
  BY <1>2, <1>4, <1>5 DEF new

LEMMA SymsAppend ==
  ASSUME NEW bs \in Seq(Blocks), NEW b \in Blocks
  PROVE  LET fs(x) == FlattenSeq([i \in DOMAIN x |-> SymsOf(x[i])]) IN
         fs(bs) \in Seq(BlockSyms) /\ fs(<<>>) = <<>> /\ fs(Append(bs, b)) = fs(bs) \o SymsOf(b)
<1> DEFINE f == [x \in Blocks |-> SymsOf(x)]
           new == Append(bs, b)
<1>1. f \in [Blocks -> Seq(BlockSyms)]
  BY PartsType
<1>2. /\ FlattenSeq([i \in DOMAIN bs |-> f[bs[i]]]) \in Seq(BlockSyms)
      /\ FlattenSeq([i \in DOMAIN new |-> f[new[i]]]) = FlattenSeq([i \in DOMAIN bs |-> f[bs[i]]]) \o f[b]
  <2> HIDE DEF f
  <2> QED
    BY <1>1, FlattenMap
<1>3. new \in Seq(Blocks) /\ (\A i \in DOMAIN bs : bs[i] \in Blocks) /\ (\A i \in DOMAIN new : new[i] \in Blocks)
  <2>1. new \in Seq(Blocks)
    BY AppendProperties
  <2> HIDE DEF new
  <2> QED
    BY <2>1
<1> HIDE DEF new
<1>4. /\ [i \in DOMAIN bs |-> f[bs[i]]] = [i \in DOMAIN bs |-> SymsOf(bs[i])]
      /\ [i \in DOMAIN new |-> f[new[i]]] = [i \in DOMAIN new |-> SymsOf(new[i])]
      /\ f[b] = SymsOf(b)
  BY <1>3
<1>5. FlattenSeq([i \in DOMAIN <<>> |-> SymsOf(<<>>[i])]) = <<>>
  BY DEF FlattenSeq
<1> HIDE DEF f
<1> QED
  BY <1>2, <1>4, <1>5 DEF new

LEMMA OneMore ==
  ASSUME out \in Objects, NEW k \in 0 .. LastBlk
  PROVE  /\ RelsTo(k) \in Seq(BlockRels) /\ SymsTo(k) \in Seq(BlockSyms)
         /\ \A typ \in ListTypes : ItemsTo(typ, k) \in Seq(ListItems)
         /\ k = 0 => RelsTo(k) = <<>> /\ SymsTo(k) = <<>> /\ \A typ \in ListTypes : ItemsTo(typ, k) = <<>>
         /\ k # LastBlk =>
              /\ RelsTo(k + 1) = RelsTo(k) \o RelsOf(out.blks[k + 1])
              /\ SymsTo(k + 1) = SymsTo(k) \o SymsOf(out.blks[k + 1])
              /\ \A typ \in ListTypes : ItemsTo(typ, k + 1) = ItemsTo(typ, k) \o ItemsOf(out.blks[k + 1], typ)
<1>1. out.blks \in Seq(Blocks) /\ LastBlk \in Nat
  BY DEF Objects, LastBlk
<1>2. Prefix(k) \in Seq(Blocks)
  <2>1. \A i \in 1 .. k : out.blks[i] \in Blocks
    BY <1>1 DEF LastBlk
  <2> QED
    BY <1>1, <2>1, SubSeqProperties DEF Prefix
<1>3. [typ |-> "OBOST"] \in Blocks
  BY DEF Blocks, OtherBlocks
<1>4. /\ RelsTo(k) \in Seq(BlockRels) /\ SymsTo(k) \in Seq(BlockSyms)
      /\ \A typ \in ListTypes : ItemsTo(typ, k) \in Seq(ListItems)
  BY <1>2, <1>3, RelsAppend, SymsAppend, ItemsInAppend DEF RelsTo, SymsTo, ItemsTo
<1>5. ASSUME k = 0
      PROVE  RelsTo(k) = <<>> /\ SymsTo(k) = <<>> /\ \A typ \in ListTypes : ItemsTo(typ, k) = <<>>
  <2>1. Prefix(k) = <<>>
    BY <1>1, <1>5, SubSeqEmpty DEF Prefix
  <2>2. \A typ \in ListTypes : ItemsTo(typ, k) = <<>>
    BY <1>2, <1>3, <2>1, ItemsInAppend DEF ItemsTo
  <2> QED
    BY <1>2, <1>3, <2>1, <2>2, RelsAppend, SymsAppend DEF RelsTo, SymsTo
<1>6. ASSUME k # LastBlk
      PROVE  /\ RelsTo(k + 1) = RelsTo(k) \o RelsOf(out.blks[k + 1])
             /\ SymsTo(k + 1) = SymsTo(k) \o SymsOf(out.blks[k + 1])
             /\ \A typ \in ListTypes : ItemsTo(typ, k + 1) = ItemsTo(typ, k) \o ItemsOf(out.blks[k + 1], typ)
  <2> DEFINE b == out.blks[k + 1]
  <2>1. k + 1 \in 1 .. Len(out.blks) /\ k + 1 \in Nat /\ k \in Nat
    BY <1>1, <1>6 DEF LastBlk
  <2>2. b \in Blocks
    BY <1>1, <2>1
  <2>3. Prefix(k + 1) = Append(Prefix(k), b)
    <3>1. SubSeq(out.blks, 1, k + 1) = SubSeq(out.blks, 1, (k + 1) - 1) \o <<b>>
      BY <1>1, <2>1, SubSeqRecursiveSecond
    <3>2. (k + 1) - 1 = k
      BY <2>1
    <3> QED
      BY <1>2, <2>2, <3>1, <3>2, AppendIsConcat DEF Prefix
  <2> HIDE DEF b
  <2>4. \A typ \in ListTypes : ItemsTo(typ, k + 1) = ItemsTo(typ, k) \o ItemsOf(b, typ)
    BY <1>2, <2>2, <2>3, ItemsInAppend DEF ItemsTo
  <2>5. RelsTo(k + 1) = RelsTo(k) \o RelsOf(b)
    BY <1>2, <2>2, <2>3, RelsAppend DEF RelsTo
  <2>6. SymsTo(k + 1) = SymsTo(k) \o SymsOf(b)
    BY <1>2, <2>2, <2>3, SymsAppend DEF SymsTo
  <2> QED
    BY <2>4, <2>5, <2>6 DEF b
<1> QED
  BY <1>4, <1>5, <1>6

(* What a block that has been read adds.                                   *)
LEMMA BlockAdds ==
  ASSUME Facts, xpc = "pass", blk.typ # "OBOND", NextBlock, UNCHANGED asmvars
  PROVE  /\ RelsTo(objpt) = RelsTo(objpt - 1) \o RelsOf(blk) /\ SymsTo(objpt) = SymsTo(objpt - 1) \o SymsOf(blk)
         /\ \A typ \in ListTypes : ItemsTo(typ, objpt) = ItemsTo(typ, objpt - 1) \o ItemsOf(blk, typ)
         /\ RelsTo(objpt - 1) \in Seq(BlockRels) /\ RelsOf(blk) \in Seq(BlockRels)
         /\ SymsTo(objpt - 1) \in Seq(BlockSyms) /\ SymsOf(blk) \in Seq(BlockSyms)
         /\ \A typ \in ListTypes : ItemsTo(typ, objpt - 1) \in Seq(ListItems) /\ ItemsOf(blk, typ) \in Seq(ListItems)
<1>1. objpt \in 2 .. LastBlk - 1 /\ LastBlk \in Nat /\ blk \in Blocks /\ blk = out.blks[objpt]
  BY BlockRead
<1>2. out \in Objects
  BY DEF Facts, AsmInv, ObjectRight, Good
<1>3. PICK k : k = objpt - 1
  OBVIOUS
<1>4. k \in 0 .. LastBlk /\ k # LastBlk /\ k + 1 = objpt
  BY <1>1, <1>3
<1>5. RelsOf(blk) \in Seq(BlockRels) /\ SymsOf(blk) \in Seq(BlockSyms)
  BY <1>1, PartsType
<1>6. \A typ \in ListTypes : ItemsOf(blk, typ) \in Seq(ListItems)
  BY <1>1, PartsType DEF ItemsOf
<1> QED
  BY <1>1, <1>2, <1>3, <1>4, <1>5, <1>6, OneMore

-----------------------------------------------------------------------------
(* What pass 1 counts: the symbols, the relocations, and which symbol each *)
(* external is, as long as every undefined symbol is an external.          *)
NoneUndefined(items) == \A i \in 1 .. Len(items) : ~Undefined(items[i])
Numbered1(tab, E, syms, first) ==
  /\ Len(tab) = Len(E)
  /\ \A j \in 1 .. Len(E) : /\ tab[j] \in Int /\ tab[j] - first + 1 \in 1 .. Len(syms)
                            /\ syms[tab[j] - first + 1] = [typ |-> "OBGLO", item |-> E[j]]
Counted(k) ==
  /\ symct = Len(SymsTo(k)) /\ header.reloc = RLSIZ * Len(RelsTo(k)) /\ exttab \in Seq(Int)
  /\ NoneUndefined(ItemsTo("OBLOC", k)) =>
       Numbered1(exttab, Externals(ItemsTo("OBGLO", k)), SymsTo(k), 0)
Numbering ==
  /\ xpc = "asz8k" => symct = 0 /\ header.reloc = 0 /\ exttab = <<>>
  /\ xpc \in {"pass", "interlude", "done"} => Counted(IF xpass2 THEN LastBlk - 1 ELSE objpt - 1)

LEMMA CountStill ==
  ASSUME UNCHANGED <<out, symct, exttab>>, header'.reloc = header.reloc, NEW k
  PROVE  Counted(k)' <=> Counted(k)
  BY DEF Counted, SymsTo, RelsTo, ItemsTo, Prefix

LEMMA NumberedOn ==
  ASSUME NEW tab \in Seq(Int), NEW x \in Seq(Int), NEW E \in Seq(ListItems), NEW F \in Seq(ListItems),
         NEW syms \in Seq(BlockSyms), NEW more \in Seq(BlockSyms),
         Numbered1(tab, E, syms, 0), Numbered1(x, F, more, Len(syms))
  PROVE  Numbered1(tab \o x, E \o F, syms \o more, 0)
<1>1. PICK n, m, a, b : n = Len(E) /\ m = Len(F) /\ a = Len(syms) /\ b = Len(more)
  OBVIOUS
<1>2. /\ n \in Nat /\ m \in Nat /\ a \in Nat /\ b \in Nat /\ Len(tab) = n /\ Len(x) = m
      /\ \A j \in 1 .. n : /\ tab[j] \in Int /\ tab[j] - 0 + 1 \in 1 .. a
                           /\ syms[tab[j] - 0 + 1] = [typ |-> "OBGLO", item |-> E[j]]
      /\ \A j \in 1 .. m : /\ x[j] \in Int /\ x[j] - a + 1 \in 1 .. b
                           /\ more[x[j] - a + 1] = [typ |-> "OBGLO", item |-> F[j]]
  BY <1>1 DEF Numbered1
<1>3. PICK t, e, s : t = tab \o x /\ e = E \o F /\ s = syms \o more
  OBVIOUS
<1>4. Len(t) = n + m /\ \A i \in 1 .. n + m : t[i] = IF i <= n THEN tab[i] ELSE x[i - n]
  <2>1. PICK I : I = Int
    OBVIOUS
  <2>2. tab \in Seq(I) /\ x \in Seq(I)
    BY <2>1
  <2>3. /\ Len(tab \o x) = Len(tab) + Len(x)
        /\ \A i \in 1 .. Len(tab) + Len(x) : (tab \o x)[i] = IF i <= Len(tab) THEN tab[i] ELSE x[i - Len(tab)]
    BY <2>2, ConcatProperties
  <2> QED
    BY <1>2, <1>3, <2>3
<1>5. Len(e) = n + m /\ \A i \in 1 .. n + m : e[i] = IF i <= n THEN E[i] ELSE F[i - n]
  BY <1>1, <1>3, ConcatProperties
<1>6. Len(s) = a + b /\ \A i \in 1 .. a + b : s[i] = IF i <= a THEN syms[i] ELSE more[i - a]
  BY <1>1, <1>3, ConcatProperties
<1>7. ASSUME NEW j \in 1 .. n + m
      PROVE  t[j] \in Int /\ t[j] - 0 + 1 \in 1 .. a + b /\ s[t[j] - 0 + 1] = [typ |-> "OBGLO", item |-> e[j]]
  <2>1. CASE j <= n
    <3>1. PICK y : y = tab[j] - 0 + 1
      OBVIOUS
    <3>2. j \in 1 .. n /\ t[j] = tab[j] /\ e[j] = E[j]
      BY <1>2, <1>4, <1>5, <2>1
    <3>3. tab[j] \in Int /\ y \in 1 .. a /\ syms[y] = [typ |-> "OBGLO", item |-> E[j]]
      BY <1>2, <3>1, <3>2
    <3>4. y \in 1 .. a + b /\ s[y] = syms[y]
      BY <1>2, <1>6, <3>3
    <3> QED
      BY <3>1, <3>2, <3>3, <3>4
  <2>2. CASE j > n
    <3>1. PICK i : i = j - n
      OBVIOUS
    <3>2. i \in 1 .. m /\ t[j] = x[i] /\ e[j] = F[i]
      BY <1>2, <1>4, <1>5, <2>2, <3>1
    <3>3. PICK y : y = x[i] - a + 1
      OBVIOUS
    <3>4. x[i] \in Int /\ y \in 1 .. b /\ more[y] = [typ |-> "OBGLO", item |-> F[i]]
      BY <1>2, <3>2, <3>3
    <3>5. PICK z : z = x[i] - 0 + 1
      OBVIOUS
    <3>6. z = y + a /\ z \in 1 .. a + b /\ ~(z <= a) /\ z - a = y
      <4>1. PICK w : w = x[i]
        OBVIOUS
      <4>2. w \in Int /\ y = w - a + 1 /\ z = w - 0 + 1 /\ y \in 1 .. b /\ a \in Nat /\ b \in Nat
        BY <1>2, <3>3, <3>4, <3>5, <4>1
      <4> QED
        BY <4>2
    <3>7. s[z] = more[y]
      BY <1>6, <3>6
    <3> QED
      BY <3>2, <3>4, <3>5, <3>6, <3>7
  <2> QED
    BY <1>2, <2>1, <2>2
<1> QED
  BY <1>3, <1>4, <1>5, <1>6, <1>7 DEF Numbered1

(* What the numbers of one block are.                                      *)
NewNumbers == IF blk.typ \in {"OBGLO", "OBLOC"} THEN Numbers(blk.items, symct) ELSE <<>>

LEMMA NumbersOfBlock ==
  ASSUME NEW b \in Blocks, NEW c \in Nat,
         NEW x, x = IF b.typ \in {"OBGLO", "OBLOC"} THEN Numbers(b.items, c) ELSE <<>>
  PROVE  /\ x \in Seq(Int) /\ Externals(ItemsOf(b, "OBGLO")) \in Seq(ListItems)
         /\ NoneUndefined(ItemsOf(b, "OBLOC")) => Numbered1(x, Externals(ItemsOf(b, "OBGLO")), SymsOf(b), c)
<1>0. \A s : Numbered1(<<>>, <<>>, s, c)
  BY DEF Numbered1
<1>1. Externals(<<>>) = <<>>
  BY DEF Externals, FlattenSeq
<1>2. CASE b.typ \notin {"OBGLO", "OBLOC"}
  <2>1. ItemsOf(b, "OBGLO") = <<>> /\ x = <<>>
    BY <1>2 DEF ItemsOf
  <2>2. Externals(ItemsOf(b, "OBGLO")) = <<>>
    BY <1>1, <2>1
  <2>3. <<>> \in Seq(Int) /\ <<>> \in Seq(ListItems)
    OBVIOUS
  <2> QED
    BY <1>0, <2>1, <2>2, <2>3
<1>3. CASE b.typ \in {"OBGLO", "OBLOC"}
  <2>1. PICK L : L = b.items
    OBVIOUS
  <2>2. PICK E : E = Externals(L)
    OBVIOUS
  <2>3. L \in Seq(ListItems) /\ Len(SymsOf(b)) = Len(L)
        /\ \A i \in 1 .. Len(L) : SymsOf(b)[i] = [typ |-> b.typ, item |-> L[i]]
    BY <1>3, <2>1, PartsType DEF ListTypes
  <2>4. NumbersRight(L, c) /\ x = Numbers(L, c)
    BY <1>3, <2>1, <2>3, NumbersTell
  <2>5. /\ E \in Seq(ListItems) /\ x \in Seq(Int) /\ Len(x) = Len(E)
        /\ \A j \in 1 .. Len(E) : x[j] - c + 1 \in 1 .. Len(L) /\ L[x[j] - c + 1] = E[j] /\ Undefined(E[j])
    BY <2>2, <2>4 DEF NumbersRight
  <2>6. CASE b.typ = "OBGLO"
    <3>1. Externals(ItemsOf(b, "OBGLO")) = E
      BY <2>1, <2>2, <2>6 DEF ItemsOf
    <3>2. \A j \in 1 .. Len(E) : /\ x[j] \in Int /\ x[j] - c + 1 \in 1 .. Len(SymsOf(b))
                                 /\ SymsOf(b)[x[j] - c + 1] = [typ |-> "OBGLO", item |-> E[j]]
      BY <2>3, <2>5, <2>6
    <3> QED
      BY <2>5, <3>1, <3>2 DEF Numbered1
  <2>7. CASE b.typ = "OBLOC"
    <3>1. ItemsOf(b, "OBGLO") = <<>> /\ ItemsOf(b, "OBLOC") = L
      BY <2>1, <2>7 DEF ItemsOf
    <3>2. Externals(ItemsOf(b, "OBGLO")) = <<>>
      BY <1>1, <3>1
    <3>3. ASSUME NoneUndefined(L) PROVE Len(x) = 0
      <4>1. \A j \in 1 .. Len(E) : FALSE
        BY <2>5, <3>3 DEF NoneUndefined
      <4>2. Len(E) \in Nat
        BY <2>5
      <4> QED
        BY <2>5, <4>1, <4>2
    <3>4. NoneUndefined(L) => x = <<>>
      BY <2>5, <3>3, EmptySeq
    <3>5. <<>> \in Seq(ListItems)
      OBVIOUS
    <3> QED
      BY <1>0, <2>5, <3>1, <3>2, <3>4, <3>5
  <2> QED
    BY <1>3, <2>6, <2>7
<1> QED
  BY <1>2, <1>3

LEMMA CountStep ==
  ASSUME Facts, Counted(objpt - 1), xpc = "pass", blk.typ # "OBOND", NextBlock, UNCHANGED asmvars,
         symct' = symct + Len(SymsOf(blk)), header'.reloc = header.reloc + RLSIZ * Len(RelsOf(blk)),
         exttab' = exttab \o NewNumbers, NEW k, k = objpt
  PROVE  Counted(k)'
<1>1. PICK r, s, rb, sb, g, l, gb, lb, c, t, x, b :
        /\ r = RelsTo(objpt - 1) /\ s = SymsTo(objpt - 1) /\ rb = RelsOf(blk) /\ sb = SymsOf(blk)
        /\ g = ItemsTo("OBGLO", objpt - 1) /\ l = ItemsTo("OBLOC", objpt - 1)
        /\ gb = ItemsOf(blk, "OBGLO") /\ lb = ItemsOf(blk, "OBLOC")
        /\ c = symct /\ t = exttab /\ x = NewNumbers /\ b = blk
  OBVIOUS
<1>2. /\ r \in Seq(BlockRels) /\ rb \in Seq(BlockRels) /\ s \in Seq(BlockSyms) /\ sb \in Seq(BlockSyms)
      /\ RelsTo(k) = r \o rb /\ SymsTo(k) = s \o sb
  BY <1>1, BlockAdds
<1>3. /\ g \in Seq(ListItems) /\ l \in Seq(ListItems) /\ gb \in Seq(ListItems) /\ lb \in Seq(ListItems)
      /\ ItemsTo("OBGLO", k) = g \o gb /\ ItemsTo("OBLOC", k) = l \o lb
  <2>1. \A typ \in ListTypes : ItemsTo(typ, k) = ItemsTo(typ, objpt - 1) \o ItemsOf(blk, typ)
        /\ ItemsTo(typ, objpt - 1) \in Seq(ListItems) /\ ItemsOf(blk, typ) \in Seq(ListItems)
    BY BlockAdds
  <2>2. "OBGLO" \in ListTypes /\ "OBLOC" \in ListTypes
    BY DEF ListTypes
  <2> QED
    BY <1>1, <2>1, <2>2
<1>4. /\ RelsTo(k)' = RelsTo(k) /\ SymsTo(k)' = SymsTo(k)
      /\ ItemsTo("OBGLO", k)' = ItemsTo("OBGLO", k) /\ ItemsTo("OBLOC", k)' = ItemsTo("OBLOC", k)
  BY DEF asmvars, RelsTo, SymsTo, ItemsTo, Prefix
<1>5. /\ c = Len(s) /\ header.reloc = RLSIZ * Len(r) /\ t \in Seq(Int)
      /\ NoneUndefined(l) => Numbered1(t, Externals(g), s, 0)
  BY <1>1 DEF Counted
<1>6. c \in Nat /\ b \in Blocks
  BY <1>1, <1>2, <1>5, BlockRead
<1>7. x \in Seq(Int) /\ Externals(gb) \in Seq(ListItems) /\ (NoneUndefined(lb) => Numbered1(x, Externals(gb), sb, c))
  <2>1. x = IF b.typ \in {"OBGLO", "OBLOC"} THEN Numbers(b.items, c) ELSE <<>>
    BY <1>1 DEF NewNumbers
  <2>2. gb = ItemsOf(b, "OBGLO") /\ lb = ItemsOf(b, "OBLOC") /\ sb = SymsOf(b)
    BY <1>1
  <2> QED
    BY <1>6, <2>1, <2>2, NumbersOfBlock
<1>8. symct' = Len(SymsTo(k)')
  BY <1>1, <1>2, <1>4, <1>5, ConcatProperties
<1>9. header'.reloc = RLSIZ * Len(RelsTo(k)')
  <2>1. Len(r \o rb) = Len(r) + Len(rb) /\ Len(r) \in Nat /\ Len(rb) \in Nat
    BY <1>2, ConcatProperties
  <2>2. header'.reloc = RLSIZ * Len(r) + RLSIZ * Len(rb)
    BY <1>1, <1>5
  <2> QED
    BY <1>2, <1>4, <2>1, <2>2 DEF RLSIZ
<1>10. exttab' = t \o x /\ exttab' \in Seq(Int)
  BY <1>1, <1>5, <1>7, ConcatProperties
<1>11. ASSUME NoneUndefined(l \o lb) PROVE NoneUndefined(l) /\ NoneUndefined(lb)
  <2>1. PICK n, m, z : n = Len(l) /\ m = Len(lb) /\ z = l \o lb
    OBVIOUS
  <2>2. n \in Nat /\ m \in Nat /\ Len(z) = n + m /\ \A i \in 1 .. n + m : z[i] = IF i <= n THEN l[i] ELSE lb[i - n]
    BY <1>3, <2>1, ConcatProperties
  <2>3. \A i \in 1 .. n + m : ~Undefined(z[i])
    BY <1>11, <2>1, <2>2 DEF NoneUndefined
  <2>4. \A i \in 1 .. n : i \in 1 .. n + m /\ z[i] = l[i]
    <3> SUFFICES ASSUME NEW i \in 1 .. n PROVE i \in 1 .. n + m /\ z[i] = l[i]
      OBVIOUS
    <3>1. i \in 1 .. n + m /\ i <= n
      BY <2>2
    <3> QED
      BY <2>2, <3>1
  <2>5. \A i \in 1 .. m : n + i \in 1 .. n + m /\ z[n + i] = lb[i]
    <3> SUFFICES ASSUME NEW i \in 1 .. m PROVE n + i \in 1 .. n + m /\ z[n + i] = lb[i]
      OBVIOUS
    <3>1. n + i \in 1 .. n + m /\ ~(n + i <= n) /\ (n + i) - n = i
      BY <2>2
    <3> QED
      BY <2>2, <3>1
  <2> QED
    BY <2>1, <2>3, <2>4, <2>5 DEF NoneUndefined
<1>12. Externals(g) \in Seq(ListItems) /\ Externals(g \o gb) = Externals(g) \o Externals(gb)
  <2>1. NumbersRight(g, c)
    BY <1>3, <1>6, NumbersTell
  <2> QED
    BY <1>3, <2>1, ExternalsConcat DEF NumbersRight
<1>13. NoneUndefined(l \o lb) => Numbered1(t \o x, Externals(g) \o Externals(gb), s \o sb, 0)
  <2>1. PICK E, F : E = Externals(g) /\ F = Externals(gb)
    OBVIOUS
  <2>2. E \in Seq(ListItems) /\ F \in Seq(ListItems)
    BY <1>7, <1>12, <2>1
  <2>3. NoneUndefined(l \o lb) => Numbered1(t, E, s, 0) /\ Numbered1(x, F, sb, Len(s))
    BY <1>5, <1>7, <1>11, <2>1
  <2>4. NoneUndefined(l \o lb) => Numbered1(t \o x, E \o F, s \o sb, 0)
    BY <1>2, <1>5, <1>7, <2>2, <2>3, NumberedOn
  <2> QED
    BY <2>1, <2>4
<1> QED
  BY <1>2, <1>3, <1>4, <1>8, <1>9, <1>10, <1>12, <1>13 DEF Counted

LEMMA HeaderKeeps ==
  ASSUME XconType, NEW r, NEW e, NEW i, NEW y, NEW g
  PROVE  /\ [header EXCEPT !.symb = y].reloc = header.reloc /\ [header EXCEPT !.symb = y].init = header.init
         /\ [header EXCEPT !.exec = e, !.init = i].reloc = header.reloc
         /\ [header EXCEPT !.exec = e, !.init = i].init = i
         /\ [header EXCEPT !.reloc = r, !.seg = g].reloc = r
<1>1. PICK a, b, c, d, k : a = header.seg /\ b = header.exec /\ c = header.init /\ d = header.reloc /\ k = header.symb
  OBVIOUS
<1>2. header = [seg |-> a, exec |-> b, init |-> c, reloc |-> d, symb |-> k]
  BY <1>1 DEF XconType
<1> QED
  BY <1>2

LEMMA NumberingInit == Init => Numbering
  BY DEF Init, Numbering

LEMMA CountFirst ==
  ASSUME AsmInv, BlocksInv, SectionsFit, apc = "ended"
  PROVE  /\ RelsTo(1) = <<>> /\ SymsTo(1) = <<>> /\ \A typ \in ListTypes : ItemsTo(typ, 1) = <<>>
<1>1. out \in Objects /\ LastBlk \in Nat /\ LastBlk >= 2 /\ out.blks[1].typ = "OBOST"
  BY Ended
<1>2. 0 \in 0 .. LastBlk /\ 0 # LastBlk /\ 0 + 1 = 1
  BY <1>1
<1>3. PICK b : b = out.blks[1]
  OBVIOUS
<1>4. RelsOf(b) = <<>> /\ SymsOf(b) = <<>> /\ \A typ \in ListTypes : ItemsOf(b, typ) = <<>>
  BY <1>1, <1>3 DEF RelsOf, SymsOf, ItemsOf, ListTypes
<1>5. /\ RelsTo(0) = <<>> /\ SymsTo(0) = <<>> /\ \A typ \in ListTypes : ItemsTo(typ, 0) = <<>>
      /\ RelsTo(0 + 1) = RelsTo(0) \o RelsOf(out.blks[0 + 1])
      /\ SymsTo(0 + 1) = SymsTo(0) \o SymsOf(out.blks[0 + 1])
      /\ \A typ \in ListTypes : ItemsTo(typ, 0 + 1) = ItemsTo(typ, 0) \o ItemsOf(out.blks[0 + 1], typ)
  BY <1>1, <1>2, OneMore
<1>6. <<>> \o <<>> = <<>>
  OBVIOUS
<1> QED
  BY <1>2, <1>3, <1>4, <1>5, <1>6

LEMMA BeginNumbering == ASSUME Facts, Numbering, Begin PROVE Numbering'
<1>1. /\ xpc = "asz8k" /\ apc = "ended" /\ xpc' = "pass" /\ objpt' = 2 /\ UNCHANGED <<out, xpass2, header, symct, exttab>>
  BY DEF Begin, asmvars, sizes
<1>2. symct = 0 /\ header.reloc = 0 /\ exttab = <<>> /\ ~xpass2
  BY <1>1 DEF Numbering, Facts, XconInv, XconReads
<1>3. RelsTo(1) = <<>> /\ SymsTo(1) = <<>> /\ \A typ \in ListTypes : ItemsTo(typ, 1) = <<>>
  BY <1>1, CountFirst DEF Facts
<1>4. Externals(<<>>) = <<>>
  BY DEF Externals, FlattenSeq
<1>5. ItemsTo("OBGLO", 1) = <<>>
  BY <1>3 DEF ListTypes
<1>6. Numbered1(<<>>, <<>>, <<>>, 0)
  BY DEF Numbered1
<1>7. Counted(1)
  BY <1>2, <1>3, <1>4, <1>5, <1>6 DEF Counted, RLSIZ
<1>8. Counted(1)'
  BY <1>1, <1>7, CountStill
<1>9. objpt' - 1 = 1
  BY <1>1
<1> QED
  BY <1>1, <1>2, <1>8, <1>9 DEF Numbering

(* Steps after pass 1 count no more.                                       *)
LEMMA KeepsNumbering ==
  ASSUME Facts, Numbering, UNCHANGED <<out, symct, exttab>>, header'.reloc = header.reloc,
         xpc # "asz8k", xpc' # "asz8k", xpc' # "ferr" => xpc \in {"pass", "interlude", "done"},
         \/ xpass2 /\ xpass2'
         \/ ~xpass2 /\ ~xpass2' /\ objpt' = objpt
         \/ ~xpass2 /\ xpass2' /\ objpt = LastBlk
  PROVE  Numbering'
<1>1. LastBlk' = LastBlk
  BY DEF LastBlk
<1>2. SUFFICES ASSUME xpc' \in {"pass", "interlude", "done"}
               PROVE  Counted(IF xpass2 THEN LastBlk - 1 ELSE objpt - 1)'
  BY DEF Numbering
<1>3. PICK k : k = IF xpass2 THEN LastBlk - 1 ELSE objpt - 1
  OBVIOUS
<1>4. Counted(k)
  BY <1>2, <1>3 DEF Numbering
<1>5. Counted(k)'
  BY <1>4, CountStill
<1>6. (IF xpass2 THEN LastBlk - 1 ELSE objpt - 1)' = k
  BY <1>1, <1>3
<1> QED
  BY <1>5, <1>6 DEF Counted

(* A block of pass 1.                                                      *)
LEMMA BlockNumbering ==
  ASSUME Facts, Numbering, xpc = "pass", ~xpass2, blk.typ # "OBOND", NextBlock, UNCHANGED <<asmvars, xpc, xpass2>>,
         symct' = symct + Len(SymsOf(blk)), header'.reloc = header.reloc + RLSIZ * Len(RelsOf(blk)),
         exttab' = exttab \o NewNumbers
  PROVE  Numbering'
<1>1. Counted(objpt - 1)
  BY DEF Numbering
<1>2. PICK k : k = objpt
  OBVIOUS
<1>3. Counted(k)'
  BY <1>1, <1>2, CountStep
<1>4. objpt' - 1 = k
  BY <1>2, BlockRead
<1>5. (IF xpass2 THEN LastBlk - 1 ELSE objpt - 1)' = k
  BY <1>4
<1> QED
  BY <1>3, <1>4 DEF Numbering

LEMMA CountTypes ==
  ASSUME Facts, Numbering, xpc = "pass"
  PROVE  symct \in Nat /\ exttab \in Seq(Int) /\ header.reloc \in Nat /\ XconType /\ exttab \o <<>> = exttab
<1>1. PICK k : k = IF xpass2 THEN LastBlk - 1 ELSE objpt - 1
  OBVIOUS
<1>2. Counted(k)
  BY <1>1 DEF Numbering
<1>3. objpt \in 2 .. LastBlk /\ LastBlk \in Nat /\ LastBlk >= 2 /\ out \in Objects
  BY Ended DEF Facts, XconInv, XconReads
<1>4. k \in 0 .. LastBlk
  BY <1>1, <1>3
<1>5. SymsTo(k) \in Seq(BlockSyms)
  BY <1>3, <1>4, OneMore
<1>6. exttab \in Seq(Int) /\ symct \in Nat
  BY <1>2, <1>5 DEF Counted
<1>7. exttab \o <<>> = exttab
  BY <1>6, ConcatEmptySeq
<1> QED
  BY <1>6, <1>7 DEF Facts, XconInv, XconType

LEMMA Sections1Numbering == ASSUME Facts, Numbering, Sections1 PROVE Numbering'
<1>1. /\ xpc = "pass" /\ ~xpass2 /\ blk.typ = "OBSEC" /\ NextBlock /\ UNCHANGED <<asmvars, xpc, xpass2, exttab>>
      /\ symct' = symct + Len(blk.items)
  BY DEF Sections1, Block1
<1>2. header' = [header EXCEPT !.symb = header.symb + Len(blk.items) * SYSIZ]
  BY DEF Sections1
<1>3. symct \in Nat /\ header.reloc \in Nat /\ XconType /\ exttab \o <<>> = exttab
  BY <1>1, CountTypes
<1>4. header'.reloc = header.reloc
  BY <1>2, <1>3, HeaderKeeps, Zenon
<1>5. Len(SymsOf(blk)) = Len(blk.items) /\ RelsOf(blk) = <<>> /\ NewNumbers = <<>>
  <2>1. blk \in Blocks
    BY <1>1, BlockRead
  <2> QED
    BY <1>1, <2>1, PartsType DEF RelsOf, NewNumbers, ListTypes
<1>6. header'.reloc = header.reloc + RLSIZ * Len(RelsOf(blk))
  BY <1>3, <1>4, <1>5 DEF RLSIZ
<1> QED
  BY <1>1, <1>3, <1>5, <1>6, BlockNumbering

LEMMA Symbols1Numbering == ASSUME Facts, Numbering, Symbols1 PROVE Numbering'
<1>1. /\ xpc = "pass" /\ ~xpass2 /\ blk.typ \in {"OBGLO", "OBLOC"} /\ NextBlock /\ UNCHANGED <<asmvars, xpc, xpass2>>
      /\ symct' = symct + Len(blk.items) /\ exttab' = exttab \o Numbers(blk.items, symct)
  BY DEF Symbols1, Block1
<1>2. header' = [header EXCEPT !.symb = header.symb + Len(blk.items) * SYSIZ]
  BY DEF Symbols1
<1>3. symct \in Nat /\ header.reloc \in Nat /\ XconType
  BY <1>1, CountTypes
<1>4. header'.reloc = header.reloc
  BY <1>2, <1>3, HeaderKeeps, Zenon
<1>5. Len(SymsOf(blk)) = Len(blk.items) /\ RelsOf(blk) = <<>> /\ NewNumbers = Numbers(blk.items, symct)
  <2>1. blk \in Blocks
    BY <1>1, BlockRead
  <2> QED
    BY <1>1, <2>1, PartsType DEF RelsOf, NewNumbers, ListTypes
<1>6. header'.reloc = header.reloc + RLSIZ * Len(RelsOf(blk))
  BY <1>3, <1>4, <1>5 DEF RLSIZ
<1> QED
  BY <1>1, <1>5, <1>6, BlockNumbering

LEMMA Text1Numbering == ASSUME Facts, Numbering, Text1 PROVE Numbering'
<1>1. /\ xpc = "pass" /\ ~xpass2 /\ blk.typ = "OBTXT" /\ NextBlock /\ UNCHANGED <<asmvars, xpc, xpass2, exttab, symct>>
  BY DEF Text1, Block1
<1> DEFINE g == header.seg \/ \E i \in DOMAIN blk.rel : blk.rel[i].act \in {"RAZLS", "RAZSS", "RAZOF"}
           r == header.reloc + RLSIZ * Len(blk.rel)
<1>2. header' = [header EXCEPT !.reloc = r, !.seg = g]
  BY DEF Text1
<1>3. symct \in Nat /\ header.reloc \in Nat /\ XconType /\ exttab \o <<>> = exttab
  BY <1>1, CountTypes
<1>4. header'.reloc = r
  <2> HIDE DEF r, g
  <2> QED
    BY <1>2, <1>3, HeaderKeeps, Zenon
<1>5. SymsOf(blk) = <<>> /\ Len(RelsOf(blk)) = Len(blk.rel) /\ NewNumbers = <<>>
  <2>1. blk \in Blocks
    BY <1>1, BlockRead
  <2> QED
    BY <1>1, <2>1, PartsType DEF SymsOf, NewNumbers, ListTypes
<1>6. symct' = symct + Len(SymsOf(blk))
  BY <1>1, <1>3, <1>5
<1> QED
  BY <1>1, <1>3, <1>4, <1>5, <1>6, BlockNumbering

LEMMA IgnoredNumbering == ASSUME Facts, Numbering, Ignored PROVE Numbering'
<1>1. /\ xpc = "pass" /\ blk.typ = "OBTRA" /\ NextBlock
      /\ UNCHANGED <<asmvars, xpc, xpass2, exttab, symct, header>>
  BY DEF Ignored, sizes
<1>2. CASE xpass2
  BY <1>1, <1>2, KeepsNumbering DEF asmvars
<1>3. CASE ~xpass2
  <2>1. symct \in Nat /\ header.reloc \in Nat /\ exttab \o <<>> = exttab
    BY <1>1, CountTypes
  <2>2. SymsOf(blk) = <<>> /\ RelsOf(blk) = <<>> /\ NewNumbers = <<>>
    BY <1>1 DEF SymsOf, RelsOf, NewNumbers, ListTypes
  <2>3. symct' = symct + Len(SymsOf(blk)) /\ header'.reloc = header.reloc + RLSIZ * Len(RelsOf(blk))
    BY <1>1, <2>1, <2>2 DEF RLSIZ
  <2> QED
    BY <1>1, <1>3, <2>1, <2>2, <2>3, BlockNumbering
<1> QED
  BY <1>2, <1>3 DEF Facts, XconInv, XconType

LEMMA NumberingStep == Facts /\ Numbering /\ [Next]_vars => Numbering'
<1> SUFFICES ASSUME Facts, Numbering, [Next]_vars PROVE Numbering'
  OBVIOUS
<1>1. CASE Assemble /\ UNCHANGED xvars
  <2>1. apc # "ended"
    BY <1>1, Zenon DEF Assemble, StartPass, Interlude, EndPass, End, Label, Data, Instr, Align, Block, Org, Abs,
                SectNoLabel, SectOld, SectNew, Global, Equ, If, Else, Endif, Skip, Assembling, Reading
  <2>2. xpc = "asz8k"
    BY <2>1 DEF Facts, XconInv, XconReads
  <2>3. UNCHANGED <<xpc, symct, header, exttab>>
    BY <1>1 DEF xvars
  <2> QED
    BY <2>2, <2>3 DEF Numbering
<1>2. CASE EndPass1
  <2>1. UNCHANGED <<out, xpass2, objpt, symct, exttab, header>> /\ xpc = "pass" /\ xpc' = "interlude" /\ ~xpass2
    BY <1>2 DEF EndPass1, Block1, asmvars, sizes
  <2> QED
    BY <2>1, KeepsNumbering
<1>3. CASE Interpass
  <2>1. UNCHANGED <<out, symct, exttab>> /\ xpc = "interlude" /\ xpc' = "pass" /\ xpass2'
        /\ header' = [header EXCEPT !.exec = exttab = <<>>, !.init = SumPlaces(nseg)]
    BY <1>3 DEF Interpass, asmvars
  <2>2. ~xpass2 /\ objpt = LastBlk /\ XconType
    BY <2>1 DEF Facts, XconInv, XconReads, XconType
  <2>3. header'.reloc = header.reloc
    <3>1. PICK e, i : e = (exttab = <<>>) /\ i = SumPlaces(nseg)
      OBVIOUS
    <3>2. header' = [header EXCEPT !.exec = e, !.init = i]
      BY <2>1, <3>1
    <3>3. PICK a, b, c, d, k : a = header.seg /\ b = header.exec /\ c = header.init /\ d = header.reloc /\ k = header.symb
      OBVIOUS
    <3>4. header = [seg |-> a, exec |-> b, init |-> c, reloc |-> d, symb |-> k]
      BY <2>2, <3>3 DEF XconType
    <3> QED
      BY <3>2, <3>4
  <2> QED
    BY <2>1, <2>2, <2>3, KeepsNumbering
<1>4. CASE Sections2 \/ Symbols2 \/ Text2 \/ EndPass2
  <2>1. UNCHANGED <<out, symct, exttab, header, xpass2>> /\ xpc = "pass" /\ xpc' # "asz8k" /\ xpass2
    BY <1>4 DEF Sections2, Symbols2, Text2, EndPass2, Block2, asmvars, sizes
  <2> QED
    BY <2>1, KeepsNumbering
<1>5. CASE UNCHANGED vars
  <2>1. UNCHANGED <<out, symct, exttab, header, xpass2, xpc, objpt>>
    BY <1>5 DEF vars, xvars, asmvars
  <2>2. CASE xpc = "asz8k"
    BY <2>1, <2>2 DEF Numbering
  <2>3. CASE xpc = "ferr"
    BY <2>1, <2>3 DEF Numbering
  <2>4. CASE xpc \notin {"asz8k", "ferr"}
    <3>1. PICK k : k = IF xpass2 THEN LastBlk - 1 ELSE objpt - 1
      OBVIOUS
    <3>2. (IF xpass2 THEN LastBlk - 1 ELSE objpt - 1)' = k
      BY <2>1, <3>1 DEF LastBlk
    <3>3. Counted(k)' <=> Counted(k)
      BY <2>1, CountStill
    <3> QED
      BY <2>1, <2>4, <3>1, <3>2, <3>3 DEF Numbering
  <2> QED
    BY <2>2, <2>3, <2>4
<1>6. CASE Begin \/ Ignored \/ Sections1 \/ Symbols1 \/ Text1
  BY <1>6, BeginNumbering, IgnoredNumbering, Sections1Numbering, Symbols1Numbering, Text1Numbering
<1> QED
  BY <1>1, <1>2, <1>3, <1>4, <1>5, <1>6 DEF Next, Convert

-----------------------------------------------------------------------------
(* The entries of the relocations and of the symbols in the file.          *)
RelocLoc(R) == (R.b.adr % W) + R.r.pos - 6 + (IF R.r.act = "RAA32M" THEN 2 ELSE 0)
EntryFor(R) ==
  [sgn |-> R.b.sec - firstseg, flg |-> RelType(R.r), loc |-> RelocLoc(R) % W,
   bas |-> IF R.r.base >= RBEXT THEN exttab[R.r.base - RBEXT + 1] ELSE R.r.base - firstseg]
NameIn(x) == IF x.typ = "OBSEC" THEN x.item ELSE x.item.name
Held(f, off, size, e) == \A o \in off .. off + size - 1 : o \in DOMAIN f /\ f[o] = [of |-> e, byte |-> o - off]
RelsHeld(f, at, rels) == \A m \in 1 .. Len(rels) : Held(f, at + RLSIZ * (m - 1), RLSIZ, EntryFor(rels[m]))
SymsHeld(f, at, syms) ==
  \A m \in 1 .. Len(syms) : \E e : e.name = NameIn(syms[m]) /\ Held(f, at + SYSIZ * (m - 1), SYSIZ, e)
ByteStays(f, g, o) == o \in DOMAIN f => o \in DOMAIN g /\ g[o] = f[o]

(* An entry is read where it was written.                                  *)
LEMMA ReadHeld ==
  ASSUME NEW off \in Int, NEW size \in Nat \ {0}, NEW e, Held(file, off, size, e)
  PROVE  ReadAt(off, size) = e
<1>1. off \in off .. off + size - 1 /\ off - off = 0
  OBVIOUS
<1>2. off \in DOMAIN file /\ file[off] = [of |-> e, byte |-> 0] /\ file[off].of = e
  BY <1>1 DEF Held
<1>3. e \in {file[o].of : o \in {off} \cap DOMAIN file}
  <2>1. off \in {off} \cap DOMAIN file
    BY <1>2
  <2> QED
    BY <1>2, <2>1
<1>4. \A o \in off .. off + size - 1 : o \in DOMAIN file /\ file[o] = [of |-> e, byte |-> o - off]
  BY DEF Held
<1> QED
  BY <1>2, <1>3, <1>4 DEF ReadAt

LEMMA HeldStays ==
  ASSUME NEW f, NEW g, NEW off, NEW size, NEW e, Held(f, off, size, e),
         \A o \in off .. off + size - 1 : ByteStays(f, g, o)
  PROVE  Held(g, off, size, e)
  BY DEF Held, ByteStays

(* What Put writes and what it leaves.                                     *)
LEMMA Places ==
  ASSUME NEW off \in Int, NEW m \in Int, NEW j \in Int, NEW o \in Int, NEW size \in {RLSIZ, SYSIZ},
         j \in 0 .. size - 1, o = off + size * (m - 1) + j
  PROVE  (o - off) \div size + 1 = m /\ (o - off) % size = j
<1>1. CASE size = RLSIZ
  <2>1. o - off = 6 * (m - 1) + j /\ j \in 0 .. 5
    BY <1>1 DEF RLSIZ
  <2>2. (o - off) \div 6 + 1 = m /\ (o - off) % 6 = j
    BY <2>1
  <2> QED
    BY <1>1, <2>2 DEF RLSIZ
<1>2. CASE size = SYSIZ
  <2>1. o - off = 12 * (m - 1) + j /\ j \in 0 .. 11
    BY <1>2 DEF SYSIZ
  <2>2. (o - off) \div 12 + 1 = m /\ (o - off) % 12 = j
    BY <2>1
  <2> QED
    BY <1>2, <2>2 DEF SYSIZ
<1> QED
  BY <1>1, <1>2

LEMMA Within ==
  ASSUME NEW off \in Int, NEW n \in Nat, NEW m \in 1 .. n, NEW size \in {RLSIZ, SYSIZ},
         NEW o \in off + size * (m - 1) .. off + size * (m - 1) + size - 1
  PROVE  /\ o \in off .. off + size * n - 1 /\ o - (off + size * (m - 1)) \in 0 .. size - 1
         /\ o = off + size * (m - 1) + (o - (off + size * (m - 1)))
<1>1. CASE size = RLSIZ
  BY <1>1 DEF RLSIZ
<1>2. CASE size = SYSIZ
  BY <1>2 DEF SYSIZ
<1> QED
  BY <1>1, <1>2

LEMMA PutEntries ==
  ASSUME NEW f, NEW off \in Int, NEW size \in {RLSIZ, SYSIZ}, NEW es, Len(es) \in Nat
  PROVE  LET g == Put(f, off, size, es) IN
         /\ \A m \in 1 .. Len(es) : Held(g, off + size * (m - 1), size, es[m])
         /\ \A o : o \notin off .. off + size * Len(es) - 1 => ByteStays(f, g, o)
<1> DEFINE at == off .. off + size * Len(es) - 1
           g == Put(f, off, size, es)
<1>1. g = [o \in at \cup DOMAIN f |->
             IF o \in at THEN [of |-> es[(o - off) \div size + 1], byte |-> (o - off) % size] ELSE f[o]]
  BY DEF Put
<1>2. \A o : o \notin at => ByteStays(f, g, o)
  <2> HIDE DEF at, g
  <2> QED
    BY <1>1 DEF ByteStays
<1>3. ASSUME NEW m \in 1 .. Len(es), NEW o \in off + size * (m - 1) .. off + size * (m - 1) + size - 1
      PROVE  o \in DOMAIN g /\ g[o] = [of |-> es[m], byte |-> o - (off + size * (m - 1))]
  <2>1. PICK n, j : n = Len(es) /\ j = o - (off + size * (m - 1))
    OBVIOUS
  <2>2. n \in Nat /\ m \in 1 .. n
    BY <2>1
  <2>3. o \in at /\ j \in 0 .. size - 1 /\ o = off + size * (m - 1) + j
    BY <2>1, <2>2, Within
  <2>4. o \in Int /\ j \in Int /\ m \in Int
    BY <2>3 DEF RLSIZ, SYSIZ
  <2>5. (o - off) \div size + 1 = m /\ (o - off) % size = j
    BY <2>3, <2>4, Places
  <2> HIDE DEF at, g
  <2> QED
    BY <1>1, <2>1, <2>3, <2>5
<1> QED
  BY <1>2, <1>3 DEF Held

(* The relocations only become more.                                       *)
LEMMA RelsGrow ==
  ASSUME out \in Objects, NEW k \in 0 .. LastBlk, NEW l \in k .. LastBlk
  PROVE  Len(RelsTo(k)) \in Nat /\ Len(RelsTo(l)) \in Nat /\ Len(RelsTo(k)) <= Len(RelsTo(l))
<1>1. LastBlk \in Nat
  BY DEF Objects, LastBlk
<1> DEFINE Fine(d) == k + d <= LastBlk => Len(RelsTo(k)) <= Len(RelsTo(k + d))
           T == {d \in Nat : Fine(d)}
<1>2. \A i \in 0 .. LastBlk : Len(RelsTo(i)) \in Nat
  <2> SUFFICES ASSUME NEW i \in 0 .. LastBlk PROVE Len(RelsTo(i)) \in Nat
    OBVIOUS
  <2>1. RelsTo(i) \in Seq(BlockRels)
    BY OneMore
  <2> QED
    BY <2>1
<1>3. 0 \in T
  BY <1>1, <1>2
<1>4. ASSUME NEW d \in T PROVE d + 1 \in T
  <2>1. d \in Nat /\ d + 1 \in Nat /\ Fine(d)
    OBVIOUS
  <2>2. ASSUME k + (d + 1) <= LastBlk PROVE Len(RelsTo(k)) <= Len(RelsTo(k + (d + 1)))
    <3>1. PICK i : i = k + d
      OBVIOUS
    <3>2. i \in 0 .. LastBlk /\ i # LastBlk /\ i + 1 = k + (d + 1) /\ i + 1 \in 1 .. LastBlk
      BY <1>1, <2>1, <2>2, <3>1
    <3>3. PICK a, b, c, x : a = RelsTo(k) /\ b = RelsTo(i) /\ c = RelsTo(i + 1) /\ x = RelsOf(out.blks[i + 1])
      OBVIOUS
    <3>4. out.blks[i + 1] \in Blocks
      BY <3>2 DEF Objects, LastBlk
    <3>5. b \in Seq(BlockRels) /\ x \in Seq(BlockRels) /\ c = b \o x
      BY <3>2, <3>3, <3>4, OneMore, PartsType
    <3>6. Len(c) = Len(b) + Len(x) /\ Len(b) \in Nat /\ Len(x) \in Nat
      BY <3>5, ConcatProperties
    <3>7. Len(a) <= Len(b)
      BY <1>1, <2>1, <3>1, <3>2, <3>3
    <3>8. Len(a) \in Nat
      BY <1>2, <3>3
    <3> QED
      BY <3>2, <3>3, <3>6, <3>7, <3>8
  <2> QED
    BY <2>1, <2>2
<1>5. \A d \in Nat : d \in T
  <2> HIDE DEF T
  <2> QED
    BY <1>3, <1>4, NatSetInduction
<1>6. PICK d : d = l - k
  OBVIOUS
<1>7. d \in Nat /\ k + d = l /\ k + d <= LastBlk /\ l \in 0 .. LastBlk
  BY <1>1, <1>6
<1>8. Fine(d)
  BY <1>5, <1>7
<1> QED
  BY <1>2, <1>7, <1>8

(* The entries so far are in the file: those of the relocations behind the *)
(* segments, those of the symbols behind the place of all relocations.     *)
SymbolsFrom == Behind + header.reloc
NoBytes(rels) == \A m \in 1 .. Len(rels) : rels[m].r.act # "RAA8"
Filed(k) ==
  /\ header.init = Sum(segtab, Segs) /\ reloff = Behind + RLSIZ * Len(RelsTo(k))
  /\ symoff = SymbolsFrom + SYSIZ * Len(SymsTo(k)) /\ NoBytes(RelsTo(k))
  /\ AddressesFit /\ AllPlaced(TextTo(k)) =>
       RelsHeld(file, Behind, RelsTo(k)) /\ SymsHeld(file, SymbolsFrom, SymsTo(k))
Filing == xpass2 /\ xpc # "ferr" => Filed(objpt - 1)

LEMMA RelsHeldOn ==
  ASSUME NEW f, NEW g, NEW at \in Int, NEW R \in Seq(BlockRels), NEW Q \in Seq(BlockRels), RelsHeld(f, at, R),
         \A o \in at .. at + RLSIZ * Len(R) - 1 : ByteStays(f, g, o), RelsHeld(g, at + RLSIZ * Len(R), Q)
  PROVE  RelsHeld(g, at, R \o Q)
<1>1. PICK n, k, S : n = Len(R) /\ k = Len(Q) /\ S = R \o Q
  OBVIOUS
<1>2. n \in Nat /\ k \in Nat /\ Len(S) = n + k /\ \A m \in 1 .. n + k : S[m] = IF m <= n THEN R[m] ELSE Q[m - n]
  BY <1>1, ConcatProperties
<1>3. ASSUME NEW m \in 1 .. n + k PROVE Held(g, at + RLSIZ * (m - 1), RLSIZ, EntryFor(S[m]))
  <2>1. CASE m <= n
    <3>1. m \in 1 .. n /\ S[m] = R[m]
      BY <1>2, <2>1
    <3>2. Held(f, at + RLSIZ * (m - 1), RLSIZ, EntryFor(R[m]))
      BY <1>1, <3>1 DEF RelsHeld
    <3>3. \A o \in at + RLSIZ * (m - 1) .. at + RLSIZ * (m - 1) + RLSIZ - 1 : o \in at .. at + RLSIZ * n - 1
      BY <1>2, <3>1 DEF RLSIZ
    <3>4. \A o \in at + RLSIZ * (m - 1) .. at + RLSIZ * (m - 1) + RLSIZ - 1 : ByteStays(f, g, o)
      BY <1>1, <3>3
    <3>5. PICK off, size, e : off = at + RLSIZ * (m - 1) /\ size = RLSIZ /\ e = EntryFor(R[m])
      OBVIOUS
    <3>6. Held(g, off, size, e)
      <4>1. Held(f, off, size, e) /\ \A o \in off .. off + size - 1 : ByteStays(f, g, o)
        BY <3>2, <3>4, <3>5
      <4> QED
        BY <4>1, HeldStays, Zenon
    <3> QED
      BY <3>1, <3>5, <3>6
  <2>2. CASE m > n
    <3>1. PICK j : j = m - n
      OBVIOUS
    <3>2. j \in 1 .. k /\ S[m] = Q[j] /\ at + RLSIZ * n + RLSIZ * (j - 1) = at + RLSIZ * (m - 1)
      <4>1. n \in Nat /\ k \in Nat /\ S[m] = IF m <= n THEN R[m] ELSE Q[m - n]
        BY <1>2, <2>2
      <4>2. j \in 1 .. k /\ ~(m <= n) /\ at + RLSIZ * n + RLSIZ * (j - 1) = at + RLSIZ * (m - 1)
        BY <2>2, <3>1, <4>1 DEF RLSIZ
      <4> QED
        BY <3>1, <4>1, <4>2
    <3>3. Held(g, at + RLSIZ * n + RLSIZ * (j - 1), RLSIZ, EntryFor(Q[j]))
      BY <1>1, <3>2 DEF RelsHeld
    <3> QED
      BY <3>2, <3>3
  <2> QED
    BY <1>2, <2>1, <2>2
<1> QED
  BY <1>1, <1>2, <1>3 DEF RelsHeld

LEMMA SymsHeldOn ==
  ASSUME NEW f, NEW g, NEW at \in Int, NEW R \in Seq(BlockSyms), NEW Q \in Seq(BlockSyms), SymsHeld(f, at, R),
         \A o \in at .. at + SYSIZ * Len(R) - 1 : ByteStays(f, g, o), SymsHeld(g, at + SYSIZ * Len(R), Q)
  PROVE  SymsHeld(g, at, R \o Q)
<1>1. PICK n, k, S : n = Len(R) /\ k = Len(Q) /\ S = R \o Q
  OBVIOUS
<1>2. n \in Nat /\ k \in Nat /\ Len(S) = n + k /\ \A m \in 1 .. n + k : S[m] = IF m <= n THEN R[m] ELSE Q[m - n]
  BY <1>1, ConcatProperties
<1>3. ASSUME NEW m \in 1 .. n + k
      PROVE  \E e : e.name = NameIn(S[m]) /\ Held(g, at + SYSIZ * (m - 1), SYSIZ, e)
  <2>1. CASE m <= n
    <3>1. m \in 1 .. n /\ S[m] = R[m]
      BY <1>2, <2>1
    <3>2. PICK e : e.name = NameIn(R[m]) /\ Held(f, at + SYSIZ * (m - 1), SYSIZ, e)
      BY <1>1, <3>1 DEF SymsHeld
    <3>3. \A o \in at + SYSIZ * (m - 1) .. at + SYSIZ * (m - 1) + SYSIZ - 1 : o \in at .. at + SYSIZ * n - 1
      BY <1>2, <3>1 DEF SYSIZ
    <3>4. \A o \in at + SYSIZ * (m - 1) .. at + SYSIZ * (m - 1) + SYSIZ - 1 : ByteStays(f, g, o)
      BY <1>1, <3>3
    <3>5. PICK off, size : off = at + SYSIZ * (m - 1) /\ size = SYSIZ
      OBVIOUS
    <3>6. Held(g, off, size, e)
      <4>1. Held(f, off, size, e) /\ \A o \in off .. off + size - 1 : ByteStays(f, g, o)
        BY <3>2, <3>4, <3>5
      <4> QED
        BY <4>1, HeldStays, Zenon
    <3> QED
      BY <3>1, <3>2, <3>5, <3>6
  <2>2. CASE m > n
    <3>1. PICK j : j = m - n
      OBVIOUS
    <3>2. j \in 1 .. k /\ S[m] = Q[j] /\ at + SYSIZ * n + SYSIZ * (j - 1) = at + SYSIZ * (m - 1)
      <4>1. n \in Nat /\ k \in Nat /\ S[m] = IF m <= n THEN R[m] ELSE Q[m - n]
        BY <1>2, <2>2
      <4>2. j \in 1 .. k /\ ~(m <= n) /\ at + SYSIZ * n + SYSIZ * (j - 1) = at + SYSIZ * (m - 1)
        BY <2>2, <3>1, <4>1 DEF SYSIZ
      <4> QED
        BY <3>1, <4>1, <4>2
    <3>3. PICK e : e.name = NameIn(Q[j]) /\ Held(g, at + SYSIZ * n + SYSIZ * (j - 1), SYSIZ, e)
      BY <1>1, <3>2 DEF SymsHeld
    <3> QED
      BY <3>2, <3>3
  <2> QED
    BY <1>2, <2>1, <2>2
<1> QED
  BY <1>1, <1>2, <1>3 DEF SymsHeld

(* What a block of pass 2 has to do.                                       *)
EntriesOn ==
  /\ \A o \in Int : o \in Behind .. reloff - 1 \/ o \in SymbolsFrom .. symoff - 1 => ByteStays(file, file', o)
  /\ RelsHeld(file', reloff, RelsOf(blk)) /\ SymsHeld(file', symoff, SymsOf(blk))

LEMMA AddsNoBytes ==
  ASSUME NEW R \in Seq(BlockRels), NEW Q \in Seq(BlockRels), NoBytes(R), NoBytes(Q)
  PROVE  NoBytes(R \o Q)
<1>1. PICK n, k, S : n = Len(R) /\ k = Len(Q) /\ S = R \o Q
  OBVIOUS
<1>2. n \in Nat /\ k \in Nat /\ Len(S) = n + k /\ \A m \in 1 .. n + k : S[m] = IF m <= n THEN R[m] ELSE Q[m - n]
  BY <1>1, ConcatProperties
<1>3. \A m \in 1 .. n + k : m \in 1 .. n \/ (~(m <= n) /\ m - n \in 1 .. k)
  BY <1>2
<1> QED
  BY <1>1, <1>2, <1>3 DEF NoBytes

LEMMA PlacedBefore ==
  ASSUME Facts, xpc = "pass", blk.typ # "OBOND", NextBlock, UNCHANGED asmvars, AllPlaced(TextTo(objpt))
  PROVE  AllPlaced(TextTo(objpt - 1)) /\ AllPlaced(ReadBack(blk))
<1>1. PICK p, q, r : p = TextTo(objpt - 1) /\ q = ReadBack(blk) /\ r = TextTo(objpt)
  OBVIOUS
<1>2. p \in Seq(Entries) /\ q \in Seq(Entries) /\ r = p \o q
  BY <1>1, BlockRead, ReadBackType
<1>3. PICK n, m : n = Len(p) /\ m = Len(q)
  OBVIOUS
<1>4. n \in Nat /\ m \in Nat /\ Len(r) = n + m /\ \A i \in 1 .. n + m : r[i] = IF i <= n THEN p[i] ELSE q[i - n]
  BY <1>2, <1>3, ConcatProperties
<1>5. \A i \in 1 .. n + m : EntryPlaced(r[i])
  BY <1>1, <1>4 DEF AllPlaced
<1>6. \A i \in 1 .. n : i \in 1 .. n + m /\ r[i] = p[i]
  BY <1>4
<1>7. \A k \in 1 .. m : n + k \in 1 .. n + m /\ r[n + k] = q[k]
  <2> SUFFICES ASSUME NEW k \in 1 .. m PROVE n + k \in 1 .. n + m /\ r[n + k] = q[k]
    OBVIOUS
  <2>1. n + k \in 1 .. n + m /\ ~(n + k <= n) /\ (n + k) - n = k
    BY <1>4
  <2> QED
    BY <1>4, <2>1
<1> QED
  BY <1>1, <1>3, <1>5, <1>6, <1>7 DEF AllPlaced

LEMMA StillEntries ==
  ASSUME UNCHANGED <<asmvars, exttab, segtab, header>>, NEW k
  PROVE  /\ RelsTo(k)' = RelsTo(k) /\ SymsTo(k)' = SymsTo(k) /\ TextTo(k)' = TextTo(k) /\ Segs' = Segs
         /\ Behind' = Behind /\ SymbolsFrom' = SymbolsFrom /\ AddressesFit' = AddressesFit
         /\ Sum(segtab, Segs)' = Sum(segtab, Segs)
         /\ \A R : EntryFor(R)' = EntryFor(R) /\ \A p : AllPlaced(p)' = AllPlaced(p)
<1>1. out' = out
  BY DEF asmvars
<1>2. Segs' = Segs
  BY <1>1 DEF Segs, SecsIn, LastBlk, Prefix
<1>3. Sum(segtab, Segs)' = Sum(segtab, Segs)
  BY <1>2
<1>4. Behind' = Behind
  BY <1>2, <1>3 DEF Behind, Base
<1> QED
  BY <1>1, <1>2, <1>3, <1>4 DEF RelsTo, SymsTo, TextTo, Prefix, SymbolsFrom, AddressesFit, EntryFor, AllPlaced, EntryPlaced

LEMMA BlockFiling ==
  ASSUME Facts, Filing, xpc = "pass", xpass2, blk.typ # "OBOND", NextBlock,
         UNCHANGED <<asmvars, exttab, segtab, header>>,
         reloff' = reloff + RLSIZ * Len(RelsOf(blk)), symoff' = symoff + SYSIZ * Len(SymsOf(blk)),
         NoBytes(RelsOf(blk)), AddressesFit /\ AllPlaced(TextTo(objpt)) => EntriesOn
  PROVE  Filing'
<1>1. PICK k : k = objpt
  OBVIOUS
<1>2. objpt' - 1 = k
  BY <1>1, BlockRead
<1>3. PICK r, s, rb, sb, a, z, ro, so, f, g :
        /\ r = RelsTo(objpt - 1) /\ s = SymsTo(objpt - 1) /\ rb = RelsOf(blk) /\ sb = SymsOf(blk)
        /\ a = Behind /\ z = SymbolsFrom /\ ro = reloff /\ so = symoff /\ f = file /\ g = file'
  OBVIOUS
<1>4. /\ r \in Seq(BlockRels) /\ rb \in Seq(BlockRels) /\ s \in Seq(BlockSyms) /\ sb \in Seq(BlockSyms)
      /\ RelsTo(k) = r \o rb /\ SymsTo(k) = s \o sb
  BY <1>1, <1>3, BlockAdds
<1>5. /\ RelsTo(k)' = r \o rb /\ SymsTo(k)' = s \o sb /\ TextTo(k)' = TextTo(k) /\ Behind' = a /\ SymbolsFrom' = z
      /\ AddressesFit' = AddressesFit /\ Sum(segtab, Segs)' = Sum(segtab, Segs) /\ header' = header
      /\ AllPlaced(TextTo(k)') = AllPlaced(TextTo(k))' /\ AllPlaced(TextTo(k))' = AllPlaced(TextTo(k))
  BY <1>3, <1>4, StillEntries
<1>6. Filed(objpt - 1) /\ xpc # "ferr"
  BY DEF Filing
<1>7. a \in Int /\ z \in Int
  <2>1. apc = "ended" /\ header.reloc \in Nat
    BY DEF Facts, XconInv, XconReads, XconType
  <2>2. a \in Nat
    BY <1>3, <2>1, Layout
  <2> QED
    BY <1>3, <2>1, <2>2 DEF SymbolsFrom
<1>8. ro = a + RLSIZ * Len(r) /\ so = z + SYSIZ * Len(s) /\ NoBytes(r) /\ header.init = Sum(segtab, Segs)
  BY <1>3, <1>6 DEF Filed
<1>9. /\ Len(r) \in Nat /\ Len(s) \in Nat /\ Len(rb) \in Nat /\ Len(sb) \in Nat
      /\ Len(r \o rb) = Len(r) + Len(rb) /\ Len(s \o sb) = Len(s) + Len(sb)
  BY <1>4, ConcatProperties
<1>10. reloff' = a + RLSIZ * Len(r \o rb) /\ symoff' = z + SYSIZ * Len(s \o sb)
  <2>1. reloff' = ro + RLSIZ * Len(rb) /\ symoff' = so + SYSIZ * Len(sb)
    BY <1>3
  <2> QED
    BY <1>7, <1>8, <1>9, <2>1 DEF RLSIZ, SYSIZ
<1>11. NoBytes(r \o rb)
  BY <1>3, <1>4, <1>8, AddsNoBytes
<1>12. ASSUME AddressesFit, AllPlaced(TextTo(k))
       PROVE  RelsHeld(g, a, r \o rb) /\ SymsHeld(g, z, s \o sb)
  <2>1. AllPlaced(TextTo(objpt - 1))
    BY <1>1, <1>12, PlacedBefore
  <2>2. RelsHeld(f, a, r) /\ SymsHeld(f, z, s)
    BY <1>3, <1>6, <1>12, <2>1 DEF Filed
  <2>3. /\ \A o \in Int : o \in a .. ro - 1 \/ o \in z .. so - 1 => ByteStays(f, g, o)
        /\ RelsHeld(g, ro, rb) /\ SymsHeld(g, so, sb)
    BY <1>1, <1>3, <1>12 DEF EntriesOn
  <2>4. \A o \in a .. a + RLSIZ * Len(r) - 1 : ByteStays(f, g, o)
    <3>1. ro \in Int
      BY <1>7, <1>8, <1>9 DEF RLSIZ
    <3>2. \A o \in a .. ro - 1 : o \in Int
      BY <1>7, <3>1
    <3>3. \A o \in a .. ro - 1 : ByteStays(f, g, o)
      BY <2>3, <3>2, Zenon
    <3>4. PICK x : x = a + RLSIZ * Len(r)
      OBVIOUS
    <3>5. ro = x
      BY <1>8, <3>4
    <3>6. \A o \in a .. x - 1 : ByteStays(f, g, o)
      BY <3>3, <3>5
    <3>7. x \in Int /\ Len(r) \in Nat /\ a \in Int
      BY <1>7, <1>9, <3>1, <3>5
    <3> QED
      BY <3>4, <3>6, <3>7 DEF RLSIZ
  <2>5. \A o \in z .. z + SYSIZ * Len(s) - 1 : ByteStays(f, g, o)
    <3>1. so \in Int
      BY <1>7, <1>8, <1>9 DEF SYSIZ
    <3>2. \A o \in z .. so - 1 : o \in Int
      BY <1>7, <3>1
    <3>3. \A o \in z .. so - 1 : ByteStays(f, g, o)
      BY <2>3, <3>2, Zenon
    <3>4. PICK x : x = z + SYSIZ * Len(s)
      OBVIOUS
    <3>5. so = x
      BY <1>8, <3>4
    <3>6. \A o \in z .. x - 1 : ByteStays(f, g, o)
      BY <3>3, <3>5
    <3>7. x \in Int /\ Len(s) \in Nat /\ z \in Int
      BY <1>7, <1>9, <3>1, <3>5
    <3> QED
      BY <3>4, <3>6, <3>7 DEF SYSIZ
  <2>6. RelsHeld(g, a, r \o rb)
    BY <1>4, <1>7, <1>8, <2>2, <2>3, <2>4, RelsHeldOn
  <2>7. SymsHeld(g, z, s \o sb)
    BY <1>4, <1>7, <1>8, <2>2, <2>3, <2>5, SymsHeldOn
  <2> QED
    BY <2>6, <2>7
<1>13. RelsHeld(g, a, r \o rb) => RelsHeld(file, Behind, RelsTo(k))'
  <2>1. \A R : EntryFor(R)' = EntryFor(R)
    BY StillEntries
  <2> QED
    BY <1>3, <1>5, <2>1 DEF RelsHeld
<1>14. SymsHeld(g, z, s \o sb) => SymsHeld(file, SymbolsFrom, SymsTo(k))'
  BY <1>3, <1>5 DEF SymsHeld
<1>15. Filed(k)'
  BY <1>5, <1>8, <1>10, <1>11, <1>12, <1>13, <1>14 DEF Filed
<1> QED
  BY <1>2, <1>15 DEF Filing

(* The place that is left for the entries of a block.                      *)
LEMMA RoomLeft ==
  ASSUME Facts, Numbering, Filing, xpc = "pass", xpass2, blk.typ # "OBOND", NextBlock, UNCHANGED asmvars
  PROVE  /\ Behind \in Int /\ SymbolsFrom \in Int /\ reloff \in Int /\ symoff \in Int
         /\ Len(RelsOf(blk)) \in Nat /\ Len(SymsOf(blk)) \in Nat
         /\ reloff >= Behind /\ symoff >= SymbolsFrom /\ reloff + RLSIZ * Len(RelsOf(blk)) <= SymbolsFrom
<1>1. PICK r, s, rb, sb, a, l : /\ r = RelsTo(objpt - 1) /\ s = SymsTo(objpt - 1) /\ rb = RelsOf(blk)
                                /\ sb = SymsOf(blk) /\ a = Behind /\ l = RelsTo(LastBlk - 1)
  OBVIOUS
<1>2. /\ r \in Seq(BlockRels) /\ rb \in Seq(BlockRels) /\ s \in Seq(BlockSyms) /\ sb \in Seq(BlockSyms)
      /\ RelsTo(objpt) = r \o rb
  BY <1>1, BlockAdds
<1>3. Len(r) \in Nat /\ Len(s) \in Nat /\ Len(rb) \in Nat /\ Len(sb) \in Nat /\ Len(r \o rb) = Len(r) + Len(rb)
  BY <1>2, ConcatProperties
<1>4. a \in Nat
  <2>1. apc = "ended"
    BY DEF Facts, XconInv, XconReads
  <2> QED
    BY <1>1, <2>1, Layout
<1>5. Len(l) \in Nat /\ Len(r \o rb) <= Len(l)
  <2>1. out \in Objects
    BY DEF Facts, AsmInv, ObjectRight, Good
  <2>2. PICK j, k : j = objpt /\ k = LastBlk - 1
    OBVIOUS
  <2>3. j \in 0 .. LastBlk /\ k \in j .. LastBlk
    BY <2>2, BlockRead
  <2>4. Len(RelsTo(k)) \in Nat /\ Len(RelsTo(j)) <= Len(RelsTo(k))
    BY <2>1, <2>3, RelsGrow
  <2> QED
    BY <1>1, <1>2, <2>2, <2>4
<1>6. header.reloc = RLSIZ * Len(l)
  BY <1>1 DEF Numbering, Counted
<1>7. reloff = a + RLSIZ * Len(r) /\ symoff = SymbolsFrom + SYSIZ * Len(s)
  BY <1>1 DEF Filing, Filed
<1>8. PICK ro, so, z : ro = reloff /\ so = symoff /\ z = SymbolsFrom
  OBVIOUS
<1>9. z = a + RLSIZ * Len(l)
  BY <1>1, <1>6, <1>8 DEF SymbolsFrom
<1>10. z \in Int /\ ro \in Int /\ so \in Int /\ ro >= a /\ so >= z /\ ro + RLSIZ * Len(rb) <= z
  <2>1. ro = a + RLSIZ * Len(r) /\ so = z + SYSIZ * Len(s)
    BY <1>7, <1>8
  <2> QED
    BY <1>3, <1>4, <1>5, <1>9, <2>1 DEF RLSIZ, SYSIZ
<1> QED
  BY <1>1, <1>3, <1>4, <1>8, <1>10

LEMMA NoneHeld ==
  ASSUME NEW f, NEW at PROVE RelsHeld(f, at, <<>>) /\ SymsHeld(f, at, <<>>) /\ NoBytes(<<>>)
  BY DEF RelsHeld, SymsHeld, NoBytes

(* A list of symbols.                                                      *)
LEMMA SymbolsFiling ==
  ASSUME Facts, Numbering, Filing, xpc = "pass", xpass2, blk.typ \in ListTypes, NextBlock,
         UNCHANGED <<asmvars, exttab, segtab, header, reloff>>, NEW es, Len(es) = Len(SymsOf(blk)),
         \A m \in 1 .. Len(es) : es[m].name = NameIn(SymsOf(blk)[m]),
         file' = Put(file, symoff, SYSIZ, es), symoff' = symoff + Len(es) * SYSIZ
  PROVE  Filing'
<1>1. blk.typ # "OBOND" /\ blk.typ # "OBTXT"
  BY DEF ListTypes
<1>2. /\ Behind \in Int /\ SymbolsFrom \in Int /\ reloff \in Int /\ symoff \in Int /\ Len(SymsOf(blk)) \in Nat
      /\ reloff >= Behind /\ symoff >= SymbolsFrom /\ reloff + RLSIZ * Len(RelsOf(blk)) <= SymbolsFrom
  BY <1>1, RoomLeft
<1>3. RelsOf(blk) = <<>> /\ Len(RelsOf(blk)) = 0
  BY <1>1 DEF RelsOf
<1>4. PICK n, so, ro, z, f, g : /\ n = Len(es) /\ so = symoff /\ ro = reloff /\ z = SymbolsFrom
                                /\ f = file /\ g = file'
  OBVIOUS
<1>5. n \in Nat /\ so \in Int /\ ro \in Int /\ z \in Int /\ ro <= z /\ z <= so
  BY <1>2, <1>3, <1>4 DEF RLSIZ
<1>6. /\ \A m \in 1 .. n : Held(g, so + SYSIZ * (m - 1), SYSIZ, es[m])
      /\ \A o : o \notin so .. so + SYSIZ * n - 1 => ByteStays(f, g, o)
  <2>1. g = Put(f, so, SYSIZ, es)
    BY <1>4
  <2>2. PICK size : size = SYSIZ
    OBVIOUS
  <2>3. size \in {RLSIZ, SYSIZ} /\ Len(es) \in Nat
    BY <1>4, <1>5, <2>2
  <2>4. /\ \A m \in 1 .. Len(es) : Held(Put(f, so, size, es), so + size * (m - 1), size, es[m])
        /\ \A o : o \notin so .. so + size * Len(es) - 1 => ByteStays(f, Put(f, so, size, es), o)
    BY <1>5, <2>3, PutEntries
  <2> QED
    BY <1>4, <2>1, <2>2, <2>4
<1>7. SymsHeld(g, so, SymsOf(blk))
  BY <1>4, <1>6 DEF SymsHeld
<1>8. \A o \in Int : o \in Behind .. ro - 1 \/ o \in z .. so - 1 => ByteStays(f, g, o)
  <2>1. \A o \in Int : o \in Behind .. ro - 1 \/ o \in z .. so - 1 => o \notin so .. so + SYSIZ * n - 1
    BY <1>2, <1>5
  <2> QED
    BY <1>6, <2>1
<1>9. EntriesOn
  BY <1>3, <1>4, <1>7, <1>8, NoneHeld DEF EntriesOn
<1>10. reloff' = reloff + RLSIZ * Len(RelsOf(blk))
  BY <1>2, <1>3 DEF RLSIZ
<1>11. symoff' = symoff + SYSIZ * Len(SymsOf(blk))
  <2>1. n = Len(SymsOf(blk)) /\ symoff' = so + n * SYSIZ
    BY <1>4
  <2>2. so + n * SYSIZ = so + SYSIZ * n
    BY <1>5 DEF SYSIZ
  <2> QED
    BY <1>4, <2>1, <2>2
<1>12. NoBytes(RelsOf(blk))
  BY <1>3, NoneHeld
<1> QED
  BY <1>1, <1>9, <1>10, <1>11, <1>12, BlockFiling

LEMMA Sections2Filing == ASSUME Facts, Numbering, Filing, Sections2 PROVE Filing'
<1> DEFINE n == Len(blk.items)
           es == [i \in 1 .. n |-> [name |-> blk.items[i], typ |-> "SEG", val |-> 0, sg |-> nseg + i - 1 - firstseg]]
<1>1. /\ xpc = "pass" /\ xpass2 /\ blk.typ = "OBSEC" /\ NextBlock
      /\ UNCHANGED <<asmvars, exttab, segtab, header, reloff>>
      /\ file' = Put(file, symoff, SYSIZ, es) /\ symoff' = symoff + n * SYSIZ
  BY DEF Sections2, Block2, sizes
<1>2. blk \in Blocks /\ blk.typ \in ListTypes
  BY <1>1, BlockRead DEF ListTypes
<1>3. /\ n \in Nat /\ Len(SymsOf(blk)) = n
      /\ \A i \in 1 .. n : SymsOf(blk)[i] = [typ |-> blk.typ, item |-> blk.items[i]]
  <2>1. blk.items \in Seq(ListItems)
    BY <1>2, PartsType
  <2> QED
    BY <1>2, <2>1, PartsType
<1>4. Len(es) = n /\ \A i \in 1 .. n : es[i].name = blk.items[i]
  BY <1>3
<1> HIDE DEF n, es
<1>5. \A m \in 1 .. Len(es) : es[m].name = NameIn(SymsOf(blk)[m])
  BY <1>1, <1>3, <1>4 DEF NameIn
<1> QED
  BY <1>1, <1>2, <1>3, <1>4, <1>5, SymbolsFiling

LEMMA Symbols2Filing == ASSUME Facts, Numbering, Filing, Symbols2 PROVE Filing'
<1> DEFINE n == Len(blk.items)
           es == [i \in 1 .. n |-> Entry(blk.items[i])]
<1>1. /\ xpc = "pass" /\ xpass2 /\ blk.typ \in {"OBGLO", "OBLOC"} /\ NextBlock
      /\ UNCHANGED <<asmvars, exttab, segtab, header, reloff>>
      /\ file' = Put(file, symoff, SYSIZ, es) /\ symoff' = symoff + n * SYSIZ
  BY DEF Symbols2, Block2, sizes
<1>2. blk \in Blocks /\ blk.typ \in ListTypes
  BY <1>1, BlockRead DEF ListTypes
<1>3. /\ n \in Nat /\ Len(SymsOf(blk)) = n
      /\ \A i \in 1 .. n : SymsOf(blk)[i] = [typ |-> blk.typ, item |-> blk.items[i]]
  <2>1. blk.items \in Seq(ListItems)
    BY <1>2, PartsType
  <2> QED
    BY <1>2, <2>1, PartsType
<1>4. Len(es) = n /\ \A i \in 1 .. n : es[i].name = blk.items[i].name
  BY <1>3 DEF Entry
<1> HIDE DEF n, es
<1>5. \A m \in 1 .. Len(es) : es[m].name = NameIn(SymsOf(blk)[m])
  BY <1>1, <1>3, <1>4 DEF NameIn
<1> QED
  BY <1>1, <1>2, <1>3, <1>4, <1>5, SymbolsFiling

(* The text of a block stays before the entries.                           *)
LEMMA TextBefore ==
  ASSUME Facts, xpc = "pass", xpass2, blk.typ = "OBTXT", NextBlock, UNCHANGED asmvars, AddressesFit,
         AllPlaced(TextTo(objpt)), NEW g,
         g = Put(file, segoff[blk.sec] + Adr, 1, [i \in DOMAIN blk.txt |-> [text |-> blk.txt[i]]])
  PROVE  \A o \in Int : o >= Behind => ByteStays(file, g, o)
<1>1. PICK n, off, es : /\ n = Len(blk.txt) /\ off = segoff[blk.sec] + Adr
                        /\ es = [i \in DOMAIN blk.txt |-> [text |-> blk.txt[i]]]
  OBVIOUS
<1>2. n \in Nat /\ DOMAIN blk.txt = 1 .. n
  BY <1>1, TextBlock
<1>3. Len(es) = n
  BY <1>1, <1>2
<1>4. \A o : o \notin off .. off + 1 * n - 1 => ByteStays(file, g, o)
  <2>1. g = Put(file, off, 1, es)
    BY <1>1
  <2> QED
    BY <1>3, <2>1 DEF Put, ByteStays
<1>5. CASE n = 0
  <2>1. PICK s, a, e, x, y : s = blk.sec /\ a = Adr /\ e = segoff[s] /\ x = Base /\ y = Sum(segtab, s)
    OBVIOUS
  <2>2. s \in Sections /\ a \in Int
    <3>1. blk.adr \in 0 .. W - 1 /\ a = blk.adr /\ s \in Sections
      BY <2>1, TextBlock
    <3> QED
      BY <3>1
  <2>3. /\ apc = "ended" /\ segtab \in SegTabs
        /\ segoff = [i \in Sections |-> IF i < Segs THEN Base + Sum(segtab, i) ELSE 0]
    BY DEF Facts, XconInv, XconType, XconReads, XconWrites
  <2>4. x \in Int /\ y \in Int
    <3>1. s \in 0 .. SECSIZ /\ SECSIZ \in Nat
      BY <2>2, <2>3, Layout DEF Sections
    <3> QED
      BY <2>1, <2>3, <3>1, Layout, SumGrows
  <2>5. e = IF s < Segs THEN x + y ELSE 0
    BY <2>1, <2>2, <2>3, Zenon
  <2>6. off \in Int
    <3>1. e \in Int
      BY <2>4, <2>5
    <3> QED
      BY <1>1, <2>1, <2>2, <3>1
  <2>7. \A o : o \notin off .. off + 1 * n - 1
    BY <1>5, <2>6
  <2> QED
    BY <1>4, <2>7
<1>6. CASE n # 0
  <2>1. PICK q, s, x, a, e : /\ q = ReadBack(blk) /\ s = blk.sec /\ x = Adr + n - 1 /\ a = Adr /\ e = segoff[blk.sec]
    OBVIOUS
  <2>2. n \in 1 .. n /\ Len(q) = n
    BY <1>1, <1>2, <1>6, <2>1, BlockText
  <2>3. q[n].sec = s /\ q[n].loc = x /\ x \in 0 .. segtab[s].len - 1
    BY <1>1, <2>1, <2>2, BlockText
  <2>4. AllPlaced(q)
    BY <2>1, PlacedBefore
  <2>5. s \in 1 .. Segs - 1 /\ Stored(segtab, s)
    BY <2>2, <2>3, <2>4 DEF AllPlaced, EntryPlaced
  <2>6. segoff[s] + x \in Int /\ segoff[s] + x < Behind /\ segoff[s] \in Int
    BY <2>3, <2>5, SegmentsApart
  <2>7. a \in Int /\ Behind \in Int
    <3>1. blk.adr \in 0 .. W - 1 /\ a = blk.adr
      BY <2>1, TextBlock
    <3>2. apc = "ended"
      BY DEF Facts, XconInv, XconReads
    <3> QED
      BY <3>1, <3>2, Layout
  <2>8. off + 1 * n - 1 < Behind /\ off \in Int
    <3>1. e \in Int /\ e + x < Behind /\ off = e + a /\ x = a + n - 1
      BY <1>1, <2>1, <2>6
    <3> QED
      BY <1>2, <2>7, <3>1
  <2>9. \A o \in Int : o >= Behind => o \notin off .. off + 1 * n - 1
    BY <1>2, <2>7, <2>8
  <2> QED
    BY <1>4, <2>9
<1> QED
  BY <1>5, <1>6

LEMMA Text2Filing == ASSUME Facts, Numbering, Filing, Text2 PROVE Filing'
<1>1. CASE Illegal # {}
  BY <1>1 DEF Text2, Filing
<1>2. CASE Illegal = {}
  <2>1. PICK n, es, g : /\ n = Len(blk.rel) /\ es = [i \in 1 .. n |-> RelEntry(blk.rel[i])]
                        /\ g = Put(file, segoff[blk.sec] + Adr, 1, [i \in DOMAIN blk.txt |-> [text |-> blk.txt[i]]])
    OBVIOUS
  <2>2. /\ xpc = "pass" /\ xpass2 /\ blk.typ = "OBTXT" /\ blk.typ # "OBOND" /\ NextBlock
        /\ UNCHANGED <<asmvars, exttab, segtab, header, symoff>>
        /\ file' = Put(g, reloff, RLSIZ, es) /\ reloff' = reloff + n * RLSIZ
    BY <1>2, <2>1 DEF Text2, Block2, sizes
  <2>3. blk \in Blocks /\ blk.typ \notin ListTypes
    BY <2>2, BlockRead DEF ListTypes
  <2>4. /\ n \in Nat /\ Len(RelsOf(blk)) = n /\ \A i \in 1 .. n : RelsOf(blk)[i] = [b |-> blk, r |-> blk.rel[i]]
        /\ DOMAIN blk.rel = 1 .. n
    <3>1. blk.rel \in Seq(PlacedRelocs)
      BY <2>2, <2>3, PartsType
    <3> QED
      BY <2>1, <2>2, <2>3, <3>1, PartsType
  <2>5. SymsOf(blk) = <<>> /\ Len(SymsOf(blk)) = 0
    BY <2>3 DEF SymsOf
  <2>6. Len(es) = n
    BY <2>1, <2>4
  <2>7. ASSUME NEW m \in 1 .. n PROVE es[m] = EntryFor(RelsOf(blk)[m])
    <3>1. PICK r, b : r = blk.rel[m] /\ b = blk
      OBVIOUS
    <3>2. es[m] = RelEntry(r)
      BY <2>1, <3>1
    <3>3. PICK R : R = [b |-> b, r |-> r]
      OBVIOUS
    <3>4. RelsOf(blk)[m] = R
      BY <2>4, <3>1, <3>3
    <3>5. R.b = b /\ R.r = r
      BY <3>3
    <3>6. RelLoc(r) = RelocLoc(R)
      BY <3>1, <3>5 DEF RelLoc, RelocLoc, Adr
    <3>7. RelEntry(r) = EntryFor(R)
      BY <3>1, <3>5, <3>6 DEF RelEntry, EntryFor
    <3> QED
      BY <3>2, <3>4, <3>7
  <2>8. NoBytes(RelsOf(blk))
    <3>1. ASSUME NEW m \in 1 .. n PROVE RelsOf(blk)[m].r.act # "RAA8"
      <4>1. RelsOf(blk)[m].r = blk.rel[m]
        BY <2>4
      <4> QED
        BY <1>2, <2>4, <4>1 DEF Illegal
    <3> QED
      BY <2>4, <3>1 DEF NoBytes
  <2>9. PICK ro, so, z, a, f, h : /\ ro = reloff /\ so = symoff /\ z = SymbolsFrom /\ a = Behind
                                  /\ f = file /\ h = file'
    OBVIOUS
  <2>10. a \in Int /\ z \in Int /\ ro \in Int /\ so \in Int /\ ro >= a /\ so >= z /\ ro + RLSIZ * n <= z
    BY <2>2, <2>4, <2>9, RoomLeft
  <2>11. /\ \A m \in 1 .. n : Held(h, ro + RLSIZ * (m - 1), RLSIZ, es[m])
         /\ \A o : o \notin ro .. ro + RLSIZ * n - 1 => ByteStays(g, h, o)
    <3>1. h = Put(g, ro, RLSIZ, es)
      BY <2>2, <2>9
    <3>2. PICK size : size = RLSIZ
      OBVIOUS
    <3>3. size \in {RLSIZ, SYSIZ} /\ Len(es) \in Nat
      BY <2>4, <2>6, <3>2
    <3>4. /\ \A m \in 1 .. Len(es) : Held(Put(g, ro, size, es), ro + size * (m - 1), size, es[m])
          /\ \A o : o \notin ro .. ro + size * Len(es) - 1 => ByteStays(g, Put(g, ro, size, es), o)
      BY <2>10, <3>3, PutEntries
    <3> QED
      BY <2>6, <3>1, <3>2, <3>4
  <2>12. RelsHeld(h, ro, RelsOf(blk))
    BY <2>4, <2>7, <2>11 DEF RelsHeld
  <2>13. ASSUME AddressesFit, AllPlaced(TextTo(objpt)) PROVE EntriesOn
    <3>1. \A o \in Int : o >= a => ByteStays(f, g, o)
      BY <2>1, <2>2, <2>9, <2>13, TextBefore
    <3>2. ASSUME NEW o \in Int, (o \in a .. ro - 1 \/ o \in z .. so - 1) PROVE ByteStays(f, h, o)
      <4>1. o >= a /\ o \notin ro .. ro + RLSIZ * n - 1
        BY <2>4, <2>10, <3>2 DEF RLSIZ
      <4>2. ByteStays(f, g, o) /\ ByteStays(g, h, o)
        BY <2>11, <3>1, <4>1
      <4> QED
        BY <4>2 DEF ByteStays
    <3> QED
      BY <2>5, <2>9, <2>12, <3>2, NoneHeld DEF EntriesOn
  <2>14. reloff' = reloff + RLSIZ * Len(RelsOf(blk)) /\ symoff' = symoff + SYSIZ * Len(SymsOf(blk))
    <3>1. reloff' = ro + n * RLSIZ /\ symoff' = so
      BY <2>2, <2>9
    <3>2. ro + n * RLSIZ = ro + RLSIZ * n /\ so = so + SYSIZ * 0
      BY <2>4, <2>10 DEF RLSIZ, SYSIZ
    <3> QED
      BY <2>4, <2>5, <2>9, <3>1, <3>2
  <2> QED
    BY <2>2, <2>8, <2>13, <2>14, BlockFiling
<1> QED
  BY <1>1, <1>2

LEMMA IgnoredFiling == ASSUME Facts, Numbering, Filing, Ignored, xpass2 PROVE Filing'
<1>1. /\ xpc = "pass" /\ blk.typ = "OBTRA" /\ blk.typ # "OBOND" /\ NextBlock
      /\ UNCHANGED <<asmvars, exttab, segtab, header, reloff, symoff, file>>
  BY DEF Ignored, sizes, offsets
<1>2. SymsOf(blk) = <<>> /\ RelsOf(blk) = <<>> /\ Len(SymsOf(blk)) = 0 /\ Len(RelsOf(blk)) = 0
  BY <1>1 DEF SymsOf, RelsOf, ListTypes
<1>3. reloff \in Int /\ symoff \in Int
  BY <1>1, RoomLeft
<1>4. reloff' = reloff + RLSIZ * Len(RelsOf(blk)) /\ symoff' = symoff + SYSIZ * Len(SymsOf(blk))
  BY <1>1, <1>2, <1>3 DEF RLSIZ, SYSIZ
<1>5. EntriesOn
  <2>1. \A o : ByteStays(file, file', o)
    BY <1>1 DEF ByteStays
  <2> QED
    BY <1>2, <2>1, NoneHeld DEF EntriesOn
<1>6. NoBytes(RelsOf(blk))
  BY <1>2, NoneHeld
<1> QED
  BY <1>1, <1>4, <1>5, <1>6, BlockFiling

LEMMA InterpassFiling == ASSUME Facts, Numbering, Interpass PROVE Filing'
<1>1. /\ xpc = "interlude" /\ xpc' = "pass" /\ xpass2' = TRUE /\ objpt' = 2
      /\ UNCHANGED <<asmvars, segtab, exttab>>
      /\ header' = [header EXCEPT !.exec = exttab = <<>>, !.init = SumPlaces(nseg)]
      /\ reloff' = Start + SumPlaces(nseg)
      /\ symoff' = Start + SumPlaces(nseg) + header.reloc
  BY DEF Interpass
<1>2. apc = "ended" /\ objpt = LastBlk /\ nseg = 1 + SecsIn(objpt - 1) /\ XconType /\ header.reloc \in Nat
  BY <1>1 DEF Facts, XconInv, XconReads, XconType
<1>3. nseg = Segs /\ Start = Base
  BY <1>2 DEF Segs, Start, Base, firstseg
<1>4. SumPlaces(nseg) = Sum(segtab, Segs)
  BY <1>3, SumsAgree
<1>5. Behind = Base + Sum(segtab, Segs) /\ Behind \in Nat
  BY <1>2, Layout
<1>6. header'.reloc = header.reloc /\ header'.init = SumPlaces(nseg)
  <2>1. PICK e, i : e = (exttab = <<>>) /\ i = SumPlaces(nseg)
    OBVIOUS
  <2>2. header' = [header EXCEPT !.exec = e, !.init = i]
    BY <1>1, <2>1
  <2>3. PICK a, b, c, d, k : a = header.seg /\ b = header.exec /\ c = header.init /\ d = header.reloc /\ k = header.symb
    OBVIOUS
  <2>4. header = [seg |-> a, exec |-> b, init |-> c, reloc |-> d, symb |-> k]
    BY <1>2, <2>3 DEF XconType
  <2>5. header'.reloc = header.reloc /\ header'.init = i
    BY <2>2, <2>4
  <2> QED
    BY <2>1, <2>5
<1>7. Segs' = Segs /\ Sum(segtab, Segs)' = Sum(segtab, Segs) /\ Behind' = Behind /\ SymbolsFrom' = SymbolsFrom
  <2>1. Segs' = Segs
    BY <1>1 DEF asmvars, Segs, SecsIn, LastBlk, Prefix
  <2>2. Sum(segtab, Segs)' = Sum(segtab, Segs)
    BY <1>1, <2>1
  <2>3. Behind' = Behind
    BY <2>1, <2>2 DEF Behind, Base
  <2> QED
    BY <1>6, <2>1, <2>2, <2>3 DEF SymbolsFrom
<1>8. reloff' = Behind /\ symoff' = SymbolsFrom /\ SymbolsFrom \in Nat /\ header'.init = Sum(segtab, Segs)
  BY <1>1, <1>2, <1>3, <1>4, <1>5, <1>6 DEF SymbolsFrom
<1>9. RelsTo(1)' = <<>> /\ SymsTo(1)' = <<>>
  <2>1. RelsTo(1) = <<>> /\ SymsTo(1) = <<>>
    BY <1>2, CountFirst DEF Facts
  <2> QED
    BY <1>1, <2>1 DEF asmvars, RelsTo, SymsTo, Prefix
<1>10. reloff' = Behind' + RLSIZ * Len(RelsTo(1)') /\ symoff' = SymbolsFrom' + SYSIZ * Len(SymsTo(1)')
  <2>1. Len(RelsTo(1)') = 0 /\ Len(SymsTo(1)') = 0
    BY <1>9
  <2> QED
    BY <1>5, <1>7, <1>8, <2>1 DEF RLSIZ, SYSIZ
<1>11. (RelsHeld(file, Behind, RelsTo(1)) /\ SymsHeld(file, SymbolsFrom, SymsTo(1)) /\ NoBytes(RelsTo(1)))'
  BY <1>9 DEF RelsHeld, SymsHeld, NoBytes
<1>12. Filed(1)'
  BY <1>7, <1>8, <1>10, <1>11 DEF Filed
<1>13. objpt' - 1 = 1
  BY <1>1
<1> QED
  BY <1>12, <1>13 DEF Filing

LEMMA FilingStep == Facts /\ Numbering /\ Filing /\ [Next]_vars => Filing'
<1> SUFFICES ASSUME Facts, Numbering, Filing, [Next]_vars PROVE Filing'
  OBVIOUS
<1>1. CASE Assemble /\ UNCHANGED xvars
  <2>1. apc # "ended"
    BY <1>1, Zenon DEF Assemble, StartPass, Interlude, EndPass, End, Label, Data, Instr, Align, Block, Org, Abs,
                SectNoLabel, SectOld, SectNew, Global, Equ, If, Else, Endif, Skip, Assembling, Reading
  <2>2. ~xpass2
    BY <2>1 DEF Facts, XconInv, XconReads
  <2>3. ~xpass2'
    BY <1>1, <2>2 DEF xvars
  <2> QED
    BY <2>3 DEF Filing
<1>2. CASE Begin \/ EndPass1 \/ Sections1 \/ Symbols1 \/ Text1
  <2>1. ~xpass2'
    BY <1>2 DEF Begin, EndPass1, Sections1, Symbols1, Text1, Block1, Facts, XconInv, XconReads
  <2> QED
    BY <2>1 DEF Filing
<1>3. CASE UNCHANGED vars \/ EndPass2
  <2>1. UNCHANGED <<asmvars, exttab, segtab, header, xpass2, objpt, reloff, symoff, file>>
    BY <1>3 DEF vars, xvars, EndPass2, sizes, offsets
  <2>2. xpc' # "ferr" => xpc # "ferr"
    BY <1>3 DEF vars, xvars, EndPass2, Block2
  <2>3. PICK k : k = objpt - 1
    OBVIOUS
  <2>4. /\ RelsTo(k)' = RelsTo(k) /\ SymsTo(k)' = SymsTo(k) /\ TextTo(k)' = TextTo(k) /\ Segs' = Segs
        /\ Behind' = Behind /\ SymbolsFrom' = SymbolsFrom /\ AddressesFit' = AddressesFit
        /\ Sum(segtab, Segs)' = Sum(segtab, Segs)
        /\ \A R : EntryFor(R)' = EntryFor(R) /\ \A p : AllPlaced(p)' = AllPlaced(p)
    BY <2>1, StillEntries
  <2>5. Filed(k)' <=> Filed(k)
    BY <2>1, <2>4 DEF Filed, RelsHeld, SymsHeld
  <2>6. objpt' - 1 = k
    BY <2>1, <2>3
  <2> QED
    BY <2>1, <2>2, <2>3, <2>5, <2>6 DEF Filing
<1>4. CASE Ignored
  <2>1. xpass2' = xpass2
    BY <1>4 DEF Ignored
  <2>2. CASE xpass2
    BY <1>4, <2>2, IgnoredFiling
  <2>3. CASE ~xpass2
    BY <2>1, <2>3 DEF Filing
  <2> QED
    BY <2>2, <2>3
<1>5. CASE Interpass \/ Sections2 \/ Symbols2 \/ Text2
  BY <1>5, InterpassFiling, Sections2Filing, Symbols2Filing, Text2Filing
<1> QED
  BY <1>1, <1>2, <1>3, <1>4, <1>5 DEF Next, Convert

LEMMA FilingInit == Init => Filing
  BY DEF Init, Filing

-----------------------------------------------------------------------------
(* Each relocation of a block is that of one byte of its text, and no byte *)
(* has another.                                                            *)
InBlock(x) ==
  /\ x.b \in Range(out.blks) /\ x.b.typ = "OBTXT" /\ x.b \in TextBlocks
  /\ x.r.pos >= 6 /\ x.r.pos + Width(x.r.act) <= 6 + Len(x.b.txt)
Matches(x, e) ==
  /\ e.rel = [act |-> x.r.act, base |-> x.r.base, of |-> x.r.of]
  /\ e.sec = x.b.sec /\ e.loc = x.b.adr + x.r.pos - 6 /\ InBlock(x)
Matching(f, R, T) ==
  /\ f \in [1 .. Len(R) -> 1 .. Len(T)] /\ \A i \in 1 .. Len(R) : Matches(R[i], T[f[i]])
  /\ \A i, j \in 1 .. Len(R) : f[i] = f[j] => i = j
  /\ \A m \in 1 .. Len(T) : T[m].rel # NoRel => \E i \in 1 .. Len(R) : f[i] = m

LEMMA BlockMatching ==
  ASSUME Good(out, 0), NEW b \in Range(out.blks)
  PROVE  \E f : Matching(f, RelsOf(b), ReadBack(b))
<1>0. out \in Objects /\ out.blks \in Seq(Blocks)
  BY DEF Good, Objects
<1>1. PICK o \in 1 .. Len(out.blks) : b = out.blks[o]
  BY <1>0 DEF Range
<1>2. b \in Blocks
  BY <1>0, <1>1
<1>3. CASE b.typ # "OBTXT"
  <2>1. RelsOf(b) = <<>> /\ ReadBack(b) = <<>>
    BY <1>3 DEF RelsOf, ReadBack
  <2>2. PICK f : f = [i \in 1 .. 0 |-> 0]
    OBVIOUS
  <2>3. Matching(f, <<>>, <<>>)
    BY <2>2 DEF Matching
  <2> QED
    BY <2>1, <2>3
<1>4. CASE b.typ = "OBTXT"
  <2>1. b \in TextBlocks /\ TextGood(b, 0)
    <3>1. b \in TextBlocks
      BY <1>2, <1>4, TypeTells
    <3>2. TextGood(b, 0)
      BY <1>1, <1>4 DEF Good
    <3> QED
      BY <3>1, <3>2
  <2>2. PICK n, k, rel, txt, R, T :
          n = Len(b.rel) /\ k = Len(b.txt) /\ rel = b.rel /\ txt = b.txt /\ R = RelsOf(b) /\ T = ReadBack(b)
    OBVIOUS
  <2>3. n \in Nat /\ k \in Nat /\ DOMAIN rel = 1 .. n /\ DOMAIN txt = 1 .. k /\ rel \in Seq(PlacedRelocs)
    BY <2>1, <2>2 DEF TextBlocks
  <2>4. Len(R) = n /\ \A i \in 1 .. n : R[i] = [b |-> b, r |-> rel[i]]
    BY <1>2, <1>4, <2>2, PartsType
  <2>5. Len(T) = k /\ \A i \in 1 .. k : T[i].rel = RelAt(b, i) /\ T[i].sec = b.sec /\ T[i].loc = b.adr + i - 1
    <3>1. T = [i \in 1 .. k |-> [val |-> b.txt[i], rel |-> RelAt(b, i), sec |-> b.sec, loc |-> b.adr + i - 1]]
      BY <1>2, <2>1, <2>2, ReadBackType
    <3> QED
      BY <2>3, <3>1
  <2>6. \A i \in 1 .. n : rel[i].pos \in Nat /\ rel[i].act \in Acts
    <3>1. \A i \in 1 .. n : rel[i] \in PlacedRelocs
      BY <2>2, <2>3
    <3> QED
      BY <3>1 DEF PlacedRelocs
  <2>7. \A i \in 1 .. n : rel[i].pos >= 6 /\ \A j \in 1 .. i - 1 : rel[j].pos > rel[i].pos
    BY <2>1, <2>2 DEF TextGood, Descending
  <2>8. ASSUME NEW i \in 1 .. n
        PROVE  rel[i].pos <= 5 + k /\ rel[i].pos + Width(rel[i].act) <= 6 + k
    <3>1. rel[i].pos <= 5 + k /\ rel[i].pos + Width(rel[i].act) <= 6 + k + 0
      BY <2>1, <2>2 DEF TextGood
    <3>2. 6 + k + 0 = 6 + k
      BY <2>3
    <3> QED
      BY <3>1, <3>2
  <2>9. ASSUME NEW i \in 1 .. n, NEW j \in 1 .. n, rel[i].pos = rel[j].pos PROVE i = j
    <3>1. PICK p, q : p = rel[i].pos /\ q = rel[j].pos
      OBVIOUS
    <3>2. p \in Nat /\ q \in Nat /\ p = q
      BY <2>6, <2>9, <3>1
    <3>3. CASE i < j
      <4>1. i \in 1 .. j - 1
        BY <3>3
      <4>2. p > q
        BY <2>7, <3>1, <4>1
      <4> QED
        BY <3>2, <4>2
    <3>4. CASE j < i
      <4>1. j \in 1 .. i - 1
        BY <3>4
      <4>2. q > p
        BY <2>7, <3>1, <4>1
      <4> QED
        BY <3>2, <4>2
    <3> QED
      BY <3>3, <3>4
  <2>10. PICK f : f = [i \in 1 .. n |-> rel[i].pos - 5]
    OBVIOUS
  <2>11. ASSUME NEW i \in 1 .. n PROVE f[i] \in 1 .. k /\ rel[i].pos = f[i] + 5
    <3>1. PICK p, y : p = rel[i].pos /\ y = f[i]
      OBVIOUS
    <3>2. y = p - 5 /\ p \in Nat /\ p >= 6 /\ p <= 5 + k
      BY <2>6, <2>7, <2>8, <2>10, <3>1
    <3>3. y \in 1 .. k /\ p = y + 5
      BY <2>3, <3>2
    <3> QED
      BY <3>1, <3>3
  <2>12. f \in [1 .. n -> 1 .. k]
    BY <2>10, <2>11
  <2>13. ASSUME NEW i \in 1 .. n PROVE Matches(R[i], T[f[i]])
    <3>1. PICK r, y, e, x : r = rel[i] /\ y = f[i] /\ e = T[y] /\ x = R[i]
      OBVIOUS
    <3>2. x = [b |-> b, r |-> r] /\ x.b = b /\ x.r = r
      BY <2>4, <3>1
    <3>3. y \in 1 .. k /\ r.pos = y + 5 /\ r \in Range(b.rel)
      BY <2>2, <2>3, <2>11, <3>1 DEF Range
    <3>4. \A q \in Range(b.rel) : q.pos = y + 5 => q = r
      <4> SUFFICES ASSUME NEW j \in 1 .. n, rel[j].pos = y + 5 PROVE rel[j] = r
        BY <2>2, <2>3 DEF Range
      <4>1. rel[j].pos = rel[i].pos
        BY <3>1, <3>3
      <4>2. i = j
        BY <2>9, <4>1
      <4> QED
        BY <3>1, <4>2
    <3>5. RelAt(b, y) = [act |-> r.act, base |-> r.base, of |-> r.of]
      <4>1. {q \in Range(b.rel) : q.pos = y + 5} = {r}
        BY <3>3, <3>4
      <4>2. (CHOOSE q \in {r} : TRUE) = r
        OBVIOUS
      <4> QED
        BY <4>1, <4>2 DEF RelAt
    <3>6. e.rel = RelAt(b, y) /\ e.sec = b.sec /\ e.loc = b.adr + y - 1
      BY <2>5, <3>1, <3>3
    <3>7. e.loc = b.adr + r.pos - 6
      <4>1. b.adr \in Int
        BY <2>1 DEF TextBlocks
      <4>2. PICK a, p : a = b.adr /\ p = r.pos
        OBVIOUS
      <4>3. a + y - 1 = a + p - 6
        BY <2>3, <3>3, <4>1, <4>2
      <4> QED
        BY <3>6, <4>2, <4>3
    <3>8. InBlock(x)
      <4>1. r.pos >= 6 /\ r.pos + Width(r.act) <= 6 + Len(b.txt)
        BY <2>2, <2>7, <2>8, <3>1
      <4> QED
        BY <1>4, <2>1, <3>2, <4>1 DEF InBlock
    <3>9. Matches(x, e)
      BY <3>2, <3>5, <3>6, <3>7, <3>8 DEF Matches
    <3> QED
      BY <3>1, <3>9
  <2>14. ASSUME NEW i \in 1 .. n, NEW j \in 1 .. n, f[i] = f[j] PROVE i = j
    <3>1. rel[i].pos = rel[j].pos
      BY <2>11, <2>14
    <3> QED
      BY <2>9, <3>1
  <2>15. ASSUME NEW m \in 1 .. k, T[m].rel # NoRel PROVE \E i \in 1 .. n : f[i] = m
    <3>1. RelAt(b, m) # NoRel
      BY <2>5, <2>15
    <3>2. {q \in Range(b.rel) : q.pos = m + 5} # {}
      BY <3>1 DEF RelAt
    <3>3. PICK i \in 1 .. n : rel[i].pos = m + 5
      BY <2>2, <2>3, <3>2 DEF Range
    <3>4. PICK y : y = f[i]
      OBVIOUS
    <3>5. y \in 1 .. k /\ m + 5 = y + 5
      BY <2>11, <3>3, <3>4
    <3>6. y = m
      BY <3>5
    <3> QED
      BY <3>4, <3>6
  <2> QED
    BY <2>2, <2>4, <2>5, <2>12, <2>13, <2>14, <2>15 DEF Matching
<1> QED
  BY <1>3, <1>4

LEMMA MatchingOn ==
  ASSUME NEW R \in Seq(BlockRels), NEW Q \in Seq(BlockRels), NEW T \in Seq(Entries), NEW U \in Seq(Entries),
         NEW f, NEW g, Matching(f, R, T), Matching(g, Q, U)
  PROVE  \E h : Matching(h, R \o Q, T \o U)
<1>1. PICK n, k, a, c, S, V : n = Len(R) /\ k = Len(Q) /\ a = Len(T) /\ c = Len(U) /\ S = R \o Q /\ V = T \o U
  OBVIOUS
<1>2. n \in Nat /\ k \in Nat /\ Len(S) = n + k /\ \A m \in 1 .. n + k : S[m] = IF m <= n THEN R[m] ELSE Q[m - n]
  BY <1>1, ConcatProperties
<1>3. a \in Nat /\ c \in Nat /\ Len(V) = a + c /\ \A m \in 1 .. a + c : V[m] = IF m <= a THEN T[m] ELSE U[m - a]
  BY <1>1, ConcatProperties
<1>4. /\ f \in [1 .. n -> 1 .. a] /\ \A i \in 1 .. n : Matches(R[i], T[f[i]])
      /\ \A i, j \in 1 .. n : f[i] = f[j] => i = j
      /\ \A m \in 1 .. a : T[m].rel # NoRel => \E i \in 1 .. n : f[i] = m
  BY <1>1 DEF Matching
<1>5. /\ g \in [1 .. k -> 1 .. c] /\ \A i \in 1 .. k : Matches(Q[i], U[g[i]])
      /\ \A i, j \in 1 .. k : g[i] = g[j] => i = j
      /\ \A m \in 1 .. c : U[m].rel # NoRel => \E i \in 1 .. k : g[i] = m
  BY <1>1 DEF Matching
<1>6. PICK h : h = [i \in 1 .. n + k |-> IF i <= n THEN f[i] ELSE a + g[i - n]]
  OBVIOUS
<1>7. ASSUME NEW i \in 1 .. n
      PROVE  i \in 1 .. n + k /\ h[i] = f[i] /\ h[i] \in 1 .. a /\ h[i] \in 1 .. a + c /\ S[i] = R[i] /\ V[h[i]] = T[f[i]]
  <2>1. i \in 1 .. n + k /\ i <= n
    BY <1>2
  <2>2. PICK y : y = f[i]
    OBVIOUS
  <2>3. y \in 1 .. a /\ h[i] = y /\ S[i] = R[i]
    BY <1>2, <1>4, <1>6, <2>1, <2>2
  <2>4. y \in 1 .. a + c /\ V[y] = T[y]
    BY <1>3, <2>3
  <2> QED
    BY <2>1, <2>2, <2>3, <2>4
<1>8. ASSUME NEW j \in 1 .. k
      PROVE  /\ n + j \in 1 .. n + k /\ h[n + j] = a + g[j] /\ g[j] \in 1 .. c /\ h[n + j] \in 1 .. a + c
             /\ S[n + j] = Q[j] /\ V[h[n + j]] = U[g[j]]
  <2>1. n + j \in 1 .. n + k /\ ~(n + j <= n) /\ (n + j) - n = j
    BY <1>2
  <2>2. PICK y : y = g[j]
    OBVIOUS
  <2>3. y \in 1 .. c /\ h[n + j] = a + y /\ S[n + j] = Q[j]
    BY <1>2, <1>5, <1>6, <2>1, <2>2
  <2>4. a + y \in 1 .. a + c /\ ~(a + y <= a) /\ (a + y) - a = y
    BY <1>3, <2>3
  <2>5. V[a + y] = U[y]
    BY <1>3, <2>4
  <2> QED
    BY <2>1, <2>2, <2>3, <2>4, <2>5
<1>9. \A i \in 1 .. n + k : i \in 1 .. n \/ \E j \in 1 .. k : i = n + j
  <2> SUFFICES ASSUME NEW i \in 1 .. n + k, i \notin 1 .. n PROVE \E j \in 1 .. k : i = n + j
    OBVIOUS
  <2>1. i - n \in 1 .. k /\ i = n + (i - n)
    BY <1>2
  <2> QED
    BY <2>1
<1>10. h \in [1 .. n + k -> 1 .. a + c]
  <2>1. \A i \in 1 .. n + k : h[i] \in 1 .. a + c
    BY <1>7, <1>8, <1>9
  <2> QED
    BY <1>6, <2>1
<1>11. \A i \in 1 .. n + k : Matches(S[i], V[h[i]])
  BY <1>4, <1>5, <1>7, <1>8, <1>9
<1>12. ASSUME NEW i \in 1 .. n + k, NEW j \in 1 .. n + k, h[i] = h[j] PROVE i = j
  <2>1. CASE i \in 1 .. n /\ j \in 1 .. n
    BY <1>4, <1>7, <1>12, <2>1
  <2>2. ASSUME NEW x \in 1 .. n, NEW y \in 1 .. k, h[x] = h[n + y] PROVE FALSE
    <3>1. PICK p, q : p = h[x] /\ q = g[y]
      OBVIOUS
    <3>2. p \in 1 .. a /\ q \in 1 .. c /\ p = a + q
      BY <1>7, <1>8, <2>2, <3>1
    <3> QED
      BY <1>3, <3>2
  <2>3. ASSUME NEW x \in 1 .. k, NEW y \in 1 .. k, i = n + x, j = n + y PROVE i = j
    <3>1. PICK p, q : p = g[x] /\ q = g[y]
      OBVIOUS
    <3>2. p \in 1 .. c /\ q \in 1 .. c /\ a + p = a + q
      BY <1>8, <1>12, <2>3, <3>1
    <3>3. p = q
      BY <1>3, <3>2
    <3> QED
      BY <1>5, <2>3, <3>1, <3>3
  <2> QED
    BY <1>9, <1>12, <2>1, <2>2, <2>3
<1>13. ASSUME NEW m \in 1 .. a + c, V[m].rel # NoRel PROVE \E i \in 1 .. n + k : h[i] = m
  <2>1. CASE m <= a
    <3>1. m \in 1 .. a /\ V[m] = T[m]
      BY <1>3, <2>1
    <3>2. PICK i \in 1 .. n : f[i] = m
      BY <1>4, <1>13, <3>1
    <3> QED
      BY <1>7, <3>2
  <2>2. CASE m > a
    <3>1. PICK y : y = m - a
      OBVIOUS
    <3>2. y \in 1 .. c /\ V[m] = U[y] /\ m = a + y
      BY <1>3, <2>2, <3>1
    <3>3. PICK j \in 1 .. k : g[j] = y
      BY <1>5, <1>13, <3>2
    <3> QED
      BY <1>8, <3>2, <3>3
  <2> QED
    BY <1>3, <2>1, <2>2
<1>14. Matching(h, S, V)
  <2>1. Len(S) = n + k /\ Len(V) = a + c
    BY <1>2, <1>3
  <2> QED
    BY <1>10, <1>11, <1>12, <1>13, <2>1 DEF Matching
<1> QED
  BY <1>1, <1>14

(* The relocations so far and the text so far.                             *)
LEMMA MatchingTo ==
  ASSUME Good(out, 0), NEW k \in 0 .. LastBlk
  PROVE  \E f : Matching(f, RelsTo(k), TextTo(k))
<1>1. out \in Objects /\ out.blks \in Seq(Blocks) /\ LastBlk \in Nat /\ LastBlk = Len(out.blks)
  BY DEF Good, Objects, LastBlk
<1> DEFINE Fine(d) == d <= LastBlk => \E f : Matching(f, RelsTo(d), TextTo(d))
           T == {d \in Nat : Fine(d)}
<1>2. 0 \in T
  <2>1. RelsTo(0) = <<>> /\ TextTo(0) = <<>>
    BY <1>1, OneMore, Further
  <2>2. PICK f : f = [i \in 1 .. 0 |-> 0]
    OBVIOUS
  <2>3. Matching(f, <<>>, <<>>)
    BY <2>2 DEF Matching
  <2> QED
    BY <2>1, <2>3
<1>3. ASSUME NEW d \in T PROVE d + 1 \in T
  <2>1. d \in Nat /\ d + 1 \in Nat /\ Fine(d)
    OBVIOUS
  <2>2. ASSUME d + 1 <= LastBlk PROVE \E f : Matching(f, RelsTo(d + 1), TextTo(d + 1))
    <3>1. d \in 0 .. LastBlk /\ d # LastBlk /\ d <= LastBlk /\ d + 1 \in 1 .. LastBlk
      BY <1>1, <2>1, <2>2
    <3>2. PICK b : b = out.blks[d + 1]
      OBVIOUS
    <3>3. b \in Range(out.blks) /\ b \in Blocks
      BY <1>1, <3>1, <3>2 DEF Range
    <3>4. RelsTo(d + 1) = RelsTo(d) \o RelsOf(b) /\ RelsTo(d) \in Seq(BlockRels) /\ RelsOf(b) \in Seq(BlockRels)
      BY <1>1, <3>1, <3>2, <3>3, OneMore, PartsType
    <3>5. TextTo(d + 1) = TextTo(d) \o ReadBack(b) /\ TextTo(d) \in Seq(Entries) /\ ReadBack(b) \in Seq(Entries)
      BY <1>1, <3>1, <3>2, <3>3, Further, ReadBackType
    <3>6. PICK f : Matching(f, RelsTo(d), TextTo(d))
      BY <2>1, <3>1
    <3>7. PICK g : Matching(g, RelsOf(b), ReadBack(b))
      BY <3>3, BlockMatching
    <3>8. \E h : Matching(h, RelsTo(d) \o RelsOf(b), TextTo(d) \o ReadBack(b))
      BY <3>4, <3>5, <3>6, <3>7, MatchingOn
    <3> QED
      BY <3>4, <3>5, <3>8
  <2> QED
    BY <2>1, <2>2
<1>4. \A d \in Nat : d \in T
  <2> HIDE DEF T
  <2> QED
    BY <1>2, <1>3, NatSetInduction
<1> QED
  BY <1>1, <1>4

(* What the listed symbols are, and the precondition.                      *)
LEMMA AllListed ==
  ASSUME Facts, apc = "ended", NEW typ \in ListTypes
  PROVE  Items(typ) = ItemsTo(typ, LastBlk - 1) /\ Items(typ) = Listed(out, typ) /\ Items(typ) \in Seq(ListItems)
<1>1. Items(typ) = Listed(out, typ) /\ Items(typ) \in Seq(ListItems)
  BY ItemsListed DEF Facts
<1>2. out \in Objects /\ out.cur = None
  BY DEF Facts, AsmInv, ObjectRight, Good
<1>3. LastBlk \in Nat /\ LastBlk >= 2 /\ out.blks[LastBlk].typ = "OBOND"
  BY Ended DEF Facts
<1>4. Listed(out, typ) = ItemsTo(typ, LastBlk)
  <2>1. Prefix(LastBlk) = out.blks
    BY <1>2, <1>3, Further
  <2> QED
    BY <1>2, <2>1, ListedType DEF ItemsTo
<1>5. PICK k : k = LastBlk - 1
  OBVIOUS
<1>6. k \in 0 .. LastBlk /\ k # LastBlk /\ k + 1 = LastBlk
  BY <1>3, <1>5
<1>7. ItemsTo(typ, LastBlk) = ItemsTo(typ, k) \o ItemsOf(out.blks[LastBlk], typ) /\ ItemsTo(typ, k) \in Seq(ListItems)
  <2>1. ItemsTo(typ, k + 1) = ItemsTo(typ, k) \o ItemsOf(out.blks[k + 1], typ) /\ ItemsTo(typ, k) \in Seq(ListItems)
    BY <1>2, <1>6, OneMore
  <2> QED
    BY <1>6, <2>1
<1>8. ItemsOf(out.blks[LastBlk], typ) = <<>>
  BY <1>3 DEF ItemsOf, ListTypes
<1>9. ItemsTo(typ, LastBlk) = ItemsTo(typ, k)
  <2>1. PICK S, x : S = ListItems /\ x = ItemsTo(typ, k)
    OBVIOUS
  <2>2. x \in Seq(S)
    BY <1>7, <2>1
  <2>3. x \o <<>> = x
    BY <2>2, ConcatEmptySeq
  <2> QED
    BY <1>7, <1>8, <2>1, <2>3
<1> QED
  BY <1>1, <1>4, <1>5, <1>9

(* The symbol whose number an external has.                                *)
LEMMA SymbolFound ==
  ASSUME Facts, NamedInv, Numbering, Filing, xpc = "done", AddressesFit, Placed, AllPlaced(want),
         NoLocalUndefined, NamedDirectly, NEW r, r # NoRel, r.base >= RBEXT, RelBears(Globals, r), r.base \in Int
  PROVE  ReadAt(SymbolsAt + exttab[r.base - RBEXT + 1] * SYSIZ, SYSIZ).name = r.of
<1>1. /\ apc = "ended" /\ objpt = LastBlk /\ xpass2 /\ nseg = 1 + SecsIn(objpt - 1) /\ header.reloc \in Nat
  BY DEF Facts, XconInv, XconReads, XconType
<1>2. PICK k, S, E, G, j, x, z, t :
        /\ k = LastBlk - 1 /\ S = SymsTo(k) /\ G = Globals /\ E = Externals(G) /\ j = r.base - RBEXT + 1
        /\ x = exttab[j] /\ z = SymbolsFrom /\ t = exttab
  OBVIOUS
<1>3. j \in 1 .. Len(E) /\ E[j].name = r.of
  BY <1>2 DEF RelBears, Bears
<1>4. ItemsTo("OBGLO", k) = G /\ NoneUndefined(ItemsTo("OBLOC", k))
  <2>1. "OBGLO" \in ListTypes /\ "OBLOC" \in ListTypes
    BY DEF ListTypes
  <2>2. ItemsTo("OBGLO", k) = G
    BY <1>1, <1>2, <2>1, AllListed DEF Globals
  <2>3. Items("OBLOC") = ItemsTo("OBLOC", k) /\ Items("OBLOC") \in Seq(ListItems)
    BY <1>1, <1>2, <2>1, AllListed
  <2>4. \A i \in 1 .. Len(Items("OBLOC")) : Items("OBLOC")[i].sec # RBUND
    BY <2>3 DEF NoLocalUndefined
  <2> QED
    BY <2>2, <2>3, <2>4 DEF NoneUndefined, Undefined
<1>5. Counted(k)
  BY <1>1, <1>2 DEF Numbering
<1>6. Numbered1(t, E, S, 0)
  BY <1>2, <1>4, <1>5 DEF Counted
<1>7. x \in Int /\ x - 0 + 1 \in 1 .. Len(S) /\ S[x - 0 + 1] = [typ |-> "OBGLO", item |-> E[j]]
  BY <1>2, <1>3, <1>6 DEF Numbered1
<1>8. PICK y : y = x - 0 + 1
  OBVIOUS
<1>9. y \in 1 .. Len(S) /\ S[y] = [typ |-> "OBGLO", item |-> E[j]] /\ y - 1 = x /\ y \in Int
  BY <1>7, <1>8
<1>10. NameIn(S[y]) = r.of
  BY <1>3, <1>9 DEF NameIn
<1>11. Filed(k)
  BY <1>1, <1>2 DEF Filing
<1>12. AllPlaced(TextTo(k))
  BY <1>1, <1>2, Ended DEF Facts
<1>13. SymsHeld(file, z, S)
  BY <1>2, <1>11, <1>12 DEF Filed
<1>14. PICK e : e.name = NameIn(S[y]) /\ Held(file, z + SYSIZ * (y - 1), SYSIZ, e)
  BY <1>9, <1>13 DEF SymsHeld
<1>15. SymbolsAt = z /\ z \in Int
  <2>1. nseg = Segs /\ SegmentsAt = Base
    BY <1>1 DEF Segs, SegmentsAt, Base
  <2>2. header.init = Sum(segtab, Segs)
    BY <1>11 DEF Filed
  <2>3. RelocsAt = Behind
    BY <2>1, <2>2 DEF RelocsAt, Behind
  <2>4. Behind \in Nat
    BY <1>1, Layout
  <2> QED
    BY <1>1, <1>2, <2>3, <2>4 DEF SymbolsAt, SymbolsFrom
<1>16. SymbolsAt + x * SYSIZ = z + SYSIZ * (y - 1) /\ z + SYSIZ * (y - 1) \in Int
  BY <1>7, <1>9, <1>15 DEF SYSIZ
<1>17. ReadAt(z + SYSIZ * (y - 1), SYSIZ) = e
  <2>1. PICK o, size : o = z + SYSIZ * (y - 1) /\ size = SYSIZ
    OBVIOUS
  <2>2. o \in Int /\ size \in Nat \ {0} /\ Held(file, o, size, e)
    BY <1>14, <1>16, <2>1 DEF SYSIZ
  <2>3. ReadAt(o, size) = e
    BY <2>2, ReadHeld
  <2> QED
    BY <2>1, <2>3
<1> QED
  BY <1>2, <1>10, <1>14, <1>16, <1>17

(* An entry says what asz8k wanted.                                        *)
LEMMA TypeSays ==
  ASSUME NEW r, r.act \in Acts, r.act # "RAA8", r.base \in Int
  PROVE  RelType(r) \in {"XOF", "XSSG", "XLSG"} <=> r.base >= RBEXT
<1>1. CASE r.act \in {"RAA32M", "RAA16M", "RAZOF"}
  BY <1>1 DEF RelType, RBEXT
<1>2. CASE r.act = "RAZSS"
  BY <1>2 DEF RelType, RBEXT
<1>3. CASE r.act = "RAZLS"
  BY <1>3 DEF RelType, RBEXT
<1> QED
  BY <1>1, <1>2, <1>3 DEF Acts

LEMMA PlaceSays ==
  ASSUME Facts, AddressesFit, NEW x \in BlockRels, InBlock(x), NEW e, Matches(x, e)
  PROVE  RelocLoc(x) % W = e.loc + (IF x.r.act = "RAA32M" THEN 2 ELSE 0)
<1>1. PICK a, p, n, d, w : /\ a = x.b.adr /\ p = x.r.pos /\ n = Len(x.b.txt) /\ w = Width(x.r.act)
                           /\ d = IF x.r.act = "RAA32M" THEN 2 ELSE 0
  OBVIOUS
<1>2. x.b \in TextBlocks /\ x.r \in PlacedRelocs
  BY DEF BlockRels
<1>3. n \in Nat /\ p \in Nat
  BY <1>1, <1>2 DEF TextBlocks, PlacedRelocs
<1>4. a \in 0 .. W - 1 /\ a + n < W
  BY <1>1 DEF AddressesFit, InBlock
<1>5. p >= 6 /\ p + w <= 6 + n
  BY <1>1 DEF InBlock
<1>6. w \in 1 .. 4 /\ d \in 0 .. 2 /\ d < w
  BY <1>1 DEF Width
<1>7. W \in Nat /\ a % W = a
  BY <1>4, Width16
<1>8. RelocLoc(x) = a + p - 6 + d /\ e.loc = a + p - 6
  BY <1>1, <1>7 DEF RelocLoc, Matches
<1>9. a + p - 6 + d \in 0 .. W - 1
  BY <1>3, <1>4, <1>5, <1>6, <1>7
<1>10. (a + p - 6 + d) % W = a + p - 6 + d
  BY <1>9, Width16
<1> QED
  BY <1>1, <1>8, <1>10

LEMMA EntrySays ==
  ASSUME Facts, NamedInv, Numbering, Filing, xpc = "done", AddressesFit, Placed, AllPlaced(want),
         NoLocalUndefined, NamedDirectly, NEW x \in BlockRels, x.r.act # "RAA8", NEW e, Matches(x, e),
         e.rel # NoRel, RelBears(Globals, e.rel)
  PROVE  Seen(EntryFor(x)) = Wanted(e)
<1>1. x.r \in PlacedRelocs /\ x.r.act \in Acts /\ x.r.base \in Int
  BY DEF BlockRels, PlacedRelocs
<1>2. PICK r, n : r = e.rel /\ n = EntryFor(x)
  OBVIOUS
<1>3. r.act = x.r.act /\ r.base = x.r.base /\ r.of = x.r.of /\ e.sec = x.b.sec /\ InBlock(x)
  BY <1>2 DEF Matches
<1>4. /\ n.sgn = e.sec - 1 /\ n.flg = RelType(x.r) /\ n.loc = RelocLoc(x) % W
      /\ n.bas = IF r.base >= RBEXT THEN exttab[r.base - RBEXT + 1] ELSE r.base - 1
  BY <1>2, <1>3 DEF EntryFor, firstseg
<1>5. n.loc = e.loc + (IF r.act = "RAA32M" THEN 2 ELSE 0)
  BY <1>3, <1>4, PlaceSays
<1>6. n.flg \in {"XOF", "XSSG", "XLSG"} <=> r.base >= RBEXT
  BY <1>1, <1>3, <1>4, TypeSays
<1>7. CASE r.base >= RBEXT
  <2>1. ReadAt(SymbolsAt + n.bas * SYSIZ, SYSIZ).name = r.of
    <3>1. r # NoRel /\ RelBears(Globals, r) /\ r.base \in Int
      BY <1>1, <1>2, <1>3
    <3>2. ReadAt(SymbolsAt + exttab[r.base - RBEXT + 1] * SYSIZ, SYSIZ).name = r.of
      BY <1>7, <3>1, SymbolFound
    <3> QED
      BY <1>4, <1>7, <3>2
  <2> QED
    BY <1>2, <1>4, <1>5, <1>6, <1>7, <2>1 DEF Seen, Wanted
<1>8. CASE ~(r.base >= RBEXT)
  BY <1>2, <1>4, <1>5, <1>6, <1>8 DEF Seen, Wanted
<1> QED
  BY <1>7, <1>8

(* The entries of a text that carry a relocation are as many as the        *)
(* relocations a matching pairs them with.                                 *)
Carriers(T) == {m \in 1 .. Len(T) : T[m].rel # NoRel}

LEMMA Relocated ==
  ASSUME NEW f, NEW R, Len(R) \in Nat, NEW T, Len(T) \in Nat, Matching(f, R, T),
         NEW D, D = Carriers(T)
  PROVE  /\ Cardinality(D) = Len(R) /\ \A i \in 1 .. Len(R) : f[i] \in D
         /\ \A m \in D : \E i \in 1 .. Len(R) : f[i] = m
<1>1. PICK n, k : n = Len(R) /\ k = Len(T)
  OBVIOUS
<1> USE DEF Carriers
<1>2. /\ f \in [1 .. n -> 1 .. k] /\ \A i \in 1 .. n : Matches(R[i], T[f[i]])
      /\ \A i, j \in 1 .. n : f[i] = f[j] => i = j
      /\ \A m \in 1 .. k : T[m].rel # NoRel => \E i \in 1 .. n : f[i] = m
  BY <1>1 DEF Matching
<1>3. ASSUME NEW i \in 1 .. n PROVE f[i] \in D
  <2>1. PICK a, b, c : a = R[i].r.act /\ b = R[i].r.base /\ c = R[i].r.of
    OBVIOUS
  <2>2. T[f[i]].rel = [act |-> a, base |-> b, of |-> c]
    BY <1>2, <2>1 DEF Matches
  <2>3. [act |-> a, base |-> b, of |-> c] # NoRel
    <3>1. "base" \in DOMAIN [act |-> a, base |-> b, of |-> c] /\ "base" \notin DOMAIN [act |-> "none"]
      OBVIOUS
    <3> QED
      BY <3>1 DEF NoRel
  <2>4. f[i] \in 1 .. k
    BY <1>2
  <2> QED
    BY <1>1, <2>2, <2>3, <2>4
<1>4. f \in Bijection(1 .. n, D)
  <2>1. f \in [1 .. n -> D]
    BY <1>2, <1>3
  <2>2. \A m \in D : \E i \in 1 .. n : f[i] = m
    BY <1>1, <1>2
  <2> QED
    BY <1>2, <2>1, <2>2 DEF Bijection, Injection, Surjection, IsInjective
<1>5. Cardinality(D) = n
  <2>1. n \in Int /\ 1 \in Int /\ n \in Nat
    BY <1>1
  <2>2. IsFiniteSet(1 .. n) /\ Cardinality(1 .. n) = IF 1 > n THEN 0 ELSE n - 1 + 1
    BY <2>1, FS_Interval
  <2>3. ExistsBijection(1 .. n, D)
    BY <1>4 DEF ExistsBijection
  <2>4. Cardinality(D) = Cardinality(1 .. n)
    BY <2>2, <2>3, FS_Bijection
  <2> QED
    BY <2>1, <2>2, <2>4
<1> QED
  BY <1>1, <1>2, <1>3, <1>5

LEMMA NamedTell == Facts /\ NamedInv /\ Numbering /\ Filing => (AddressesFit => GlobalsNamed)
<1> SUFFICES ASSUME Facts, NamedInv, Numbering, Filing, AddressesFit, NoLocalUndefined, NamedDirectly,
                    xpc = "done", Placed
             PROVE  /\ header.reloc = RLSIZ * Cardinality(Relocatable)
                    /\ {Seen(ReadAt(RelocsAt + RLSIZ * (k - 1), RLSIZ)) : k \in 1 .. Cardinality(Relocatable)}
                         = {Wanted(want[i]) : i \in Relocatable}
  BY DEF GlobalsNamed, RelocationsNamed
<1>1. /\ apc = "ended" /\ objpt = LastBlk /\ xpass2 /\ nseg = 1 + SecsIn(objpt - 1)
  BY DEF Facts, XconInv, XconReads
<1>2. Good(out, 0) /\ out \in Objects /\ LastBlk \in Nat /\ LastBlk >= 2 /\ TextTo(LastBlk - 1) = want
  BY <1>1, Ended DEF Facts, AsmInv, ObjectRight
<1>3. PICK k, R, n, N : k = LastBlk - 1 /\ R = RelsTo(k) /\ n = Len(R) /\ N = Len(want)
  OBVIOUS
<1>4. k \in 0 .. LastBlk
  BY <1>2, <1>3
<1>5. R \in Seq(BlockRels) /\ want \in Seq(Entries) /\ n \in Nat /\ N \in Nat /\ DOMAIN want = 1 .. N
  <2>1. R \in Seq(BlockRels)
    BY <1>2, <1>3, <1>4, OneMore
  <2>2. want \in Seq(Entries)
    BY <1>2, <1>3, <1>4, Further
  <2> QED
    BY <1>3, <2>1, <2>2
<1>6. PICK f : Matching(f, R, want)
  BY <1>2, <1>3, <1>4, MatchingTo
<1>7. Relocatable = {m \in 1 .. Len(want) : want[m].rel # NoRel}
  BY <1>3, <1>5 DEF Relocatable
<1>8. /\ Cardinality(Relocatable) = n /\ \A i \in 1 .. n : f[i] \in Relocatable
      /\ \A m \in Relocatable : \E i \in 1 .. n : f[i] = m
  <2>1. PICK V : V = want
    OBVIOUS
  <2>2. PICK D : D = Relocatable
    OBVIOUS
  <2>3. /\ Len(R) \in Nat /\ Len(V) \in Nat
        /\ Matching(f, R, V) /\ D = Carriers(V)
    BY <1>3, <1>5, <1>6, <1>7, <2>1, <2>2 DEF Carriers
  <2>4. Len(R) \in Nat
    BY <2>3
  <2>5. Len(V) \in Nat
    BY <2>3
  <2>6. Matching(f, R, V)
    BY <2>3
  <2>7. D = Carriers(V)
    BY <2>3
  <2>8. /\ Cardinality(D) = Len(R) /\ \A i \in 1 .. Len(R) : f[i] \in D
        /\ \A m \in D : \E i \in 1 .. Len(R) : f[i] = m
    BY <2>4, <2>5, <2>6, <2>7, Relocated
  <2> QED
    BY <1>3, <2>2, <2>8
<1>9. AllPlaced(want)
  <2>1. nseg = Segs
    BY <1>1 DEF Segs
  <2> QED
    BY <1>3, <1>5, <2>1 DEF Placed, AllPlaced, EntryPlaced, InFile, Stored
<1>10. Filed(k) /\ Counted(k)
  BY <1>1, <1>3 DEF Filing, Numbering
<1>11. RelsHeld(file, Behind, R) /\ NoBytes(R)
  BY <1>2, <1>3, <1>9, <1>10 DEF Filed
<1>12. header.reloc = RLSIZ * n
  BY <1>3, <1>10 DEF Counted
<1>13. RelocsAt = Behind /\ Behind \in Nat
  <2>1. nseg = Segs /\ SegmentsAt = Base
    BY <1>1 DEF Segs, SegmentsAt, Base
  <2>2. header.init = Sum(segtab, Segs)
    BY <1>10 DEF Filed
  <2> QED
    BY <1>1, <2>1, <2>2, Layout DEF RelocsAt, Behind
<1>14. WantBears(Globals, want)
  <2>1. Direct
    <3>1. "OBGLO" \in ListTypes
      BY DEF ListTypes
    <3>2. Items("OBGLO") = Globals /\ Items("OBGLO") \in Seq(ListItems)
      BY <1>1, <3>1, AllListed DEF Globals
    <3>3. DOMAIN Items("OBGLO") = 1 .. Len(Globals)
      BY <3>2
    <3> QED
      BY <3>2, <3>3 DEF NamedDirectly, Direct
  <2> QED
    BY <2>1 DEF NamedInv
<1>15. ASSUME NEW i \in 1 .. n
       PROVE  Seen(ReadAt(RelocsAt + RLSIZ * (i - 1), RLSIZ)) = Wanted(want[f[i]])
  <2>1. PICK x, m, e : x = R[i] /\ m = f[i] /\ e = want[m]
    OBVIOUS
  <2>2. x \in BlockRels /\ x.r.act # "RAA8" /\ Held(file, Behind + RLSIZ * (i - 1), RLSIZ, EntryFor(x))
    <3>1. x \in BlockRels
      BY <1>3, <1>5, <2>1
    <3>2. x.r.act # "RAA8"
      BY <1>3, <1>11, <2>1 DEF NoBytes
    <3>3. Held(file, Behind + RLSIZ * (i - 1), RLSIZ, EntryFor(x))
      BY <1>3, <1>11, <2>1 DEF RelsHeld
    <3> QED
      BY <3>1, <3>2, <3>3
  <2>3. Matches(x, e)
    BY <1>3, <1>6, <2>1 DEF Matching
  <2>4. m \in 1 .. Len(want) /\ e.rel # NoRel
    BY <1>7, <1>8, <2>1
  <2>5. RelBears(Globals, e.rel)
    BY <1>14, <2>1, <2>4 DEF WantBears
  <2>6. Seen(EntryFor(x)) = Wanted(e)
    BY <1>9, <2>2, <2>3, <2>4, <2>5, EntrySays
  <2>7. ReadAt(Behind + RLSIZ * (i - 1), RLSIZ) = EntryFor(x)
    <3>1. PICK o, size, y : o = Behind + RLSIZ * (i - 1) /\ size = RLSIZ /\ y = EntryFor(x)
      OBVIOUS
    <3>2. o \in Int /\ size \in Nat \ {0}
      BY <1>5, <1>13, <3>1 DEF RLSIZ
    <3>3. Held(file, o, size, y)
      BY <2>2, <3>1
    <3>4. ReadAt(o, size) = y
      BY <3>2, <3>3, ReadHeld
    <3> QED
      BY <3>1, <3>4
  <2> QED
    BY <1>13, <2>1, <2>6, <2>7
<1>16. {Seen(ReadAt(RelocsAt + RLSIZ * (i - 1), RLSIZ)) : i \in 1 .. n} = {Wanted(want[m]) : m \in Relocatable}
  <2> DEFINE A(i) == Seen(ReadAt(RelocsAt + RLSIZ * (i - 1), RLSIZ))
             B(m) == Wanted(want[m])
  <2>1. \A i \in 1 .. n : A(i) = B(f[i])
    BY <1>15
  <2> HIDE DEF A, B
  <2>2. {A(i) : i \in 1 .. n} = {B(m) : m \in Relocatable}
    BY <1>8, <2>1
  <2> QED
    BY <2>2 DEF A, B
<1> QED
  BY <1>8, <1>12, <1>16

(* For every command line and every program without a .equ of an external, *)
(* without an undefined local and with no section beyond 64 K: xcon's      *)
(* relocation entries are as many as the relocations that asz8k asked for  *)
(* and say the same, each the place in its segment and the segment or the  *)
(* very symbol that the source named.  xcon finds that symbol by a number  *)
(* counted in pass 1, before the symbol is written; the entries follow the *)
(* order of the blocks, not that of the text.                              *)
THEOREM RelocationsCorrect == Spec => [](AddressesFit => GlobalsNamed)
<1>1. Init => AsmInv /\ ListsInv /\ BlocksInv /\ SectionsFit /\ XconInv /\ NamedInv /\ Numbering /\ Filing
  BY AsmInit, ListsInit, BlocksInit, FitInit, XconInit, NamedInit, NumberingInit, FilingInit
<1>2. AsmInv /\ ListsInv /\ BlocksInv /\ SectionsFit /\ XconInv /\ NamedInv /\ Numbering /\ Filing /\ [Next]_vars
        => AsmInv' /\ ListsInv' /\ BlocksInv' /\ SectionsFit' /\ XconInv' /\ NamedInv' /\ Numbering' /\ Filing'
  BY AsmStep, ListsStep, BlocksStep, FitStep, XconStep, NamedStep, NumberingStep, FilingStep DEF Facts
<1>3. AsmInv /\ ListsInv /\ BlocksInv /\ SectionsFit /\ XconInv /\ NamedInv /\ Numbering /\ Filing
        => (AddressesFit => GlobalsNamed)
  BY NamedTell DEF Facts
<1> QED
  BY <1>1, <1>2, <1>3, PTL DEF Spec

=============================================================================
