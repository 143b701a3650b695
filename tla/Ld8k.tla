-------------------------------- MODULE Ld8k --------------------------------
(***************************************************************************)
(* The whole of ld8k (ld8k/ld8k.c): pass 1 (Ld8kPass1), the interlude that *)
(* lays the segments out, pass 2, which reads the modules again, copies    *)
(* their data and relocates it, and the finale, which writes the headers.  *)
(*                                                                         *)
(* image is the output file from the end of its descriptors on, as words   *)
(* at even file positions.  A data word that is not relocated is 0.        *)
(***************************************************************************)
EXTENDS Ld8kPass1, FiniteSetsExt, SequencesExt

VARIABLES
  modno2,    \* modno of pass 2
  pi,        \* p2read's index into postab
  segsiz, segpos,   \* scratch: sizes and file positions for this module
  ipos,      \* how much of the module's initialised part has been read
  rels,      \* the relocation entries read for this module, still to do
  image,
  relfile,   \* the relocation entries saved under -r
  loads,     \* history: the modules pass 2 has loaded, as <<fi, member>>
  out        \* the headers and tables written by the finale

p2vars == <<modno2, pi, segsiz, segpos, ipos, rels, image, relfile, loads, out>>
vars   == <<vars1, p2vars>>

NoOut == [segs |-> <<>>, exec |-> FALSE, magic |-> "?", init |-> 0]

Init ==
  /\ Init1
  /\ modno2 = 0 /\ pi = 0 /\ ipos = 0
  /\ segsiz = [j \in SegNos |-> 0] /\ segpos = [j \in SegNos |-> 0]
  /\ rels = <<>> /\ image = <<>> /\ relfile = <<>> /\ loads = <<>> /\ out = NoOut

(* The members of an archive are at different positions, behind its magic. *)
ASSUME PositionAssumption ==
  \A f \in DOMAIN Content : Content[f].kind = "lib" =>
    \A i, j \in 1 .. Len(Content[f].at) :
      Content[f].at[i] > 0 /\ (Content[f].at[i] = Content[f].at[j] => i = j)

XHSIZ == 16   \* sizes in the file: of the header,
SGSIZ == 4    \* of a segment descriptor,
RLSIZ == 6    \* of a relocation entry
Idata(typ) == typ \in COD .. MXP            \* idata[]
nonseg  == segmode = "nonseg"
splitid == "i" \in flags /\ nonseg /\ ~saverel
-----------------------------------------------------------------------------
(* interlude(): file positions and addresses for the segments in use,      *)
(* the preassigned ones first; then the definitions of a non-segmented     *)
(* load get their final addresses.  Locals still have module-relative ones.*)
Used == {j \in SegNos : segtab[j].siz > 0}
PreIndex(j) == CHOOSE p \in 1 .. Len(prelist) : prelist[p] = j
Precedes(i, j) ==
  IF segtab[i].alloc /\ segtab[j].alloc THEN PreIndex(i) < PreIndex(j)
  ELSE IF segtab[i].alloc \/ segtab[j].alloc THEN segtab[i].alloc ELSE i < j
Before(j) == {i \in Used : Precedes(i, j)}
Total(S) == MapThenSumSet(LAMBDA i : segtab[i].siz, S)
CodeOf(S) == {i \in S : splitid /\ segtab[i].typ = COD}
FileOf(S) == {i \in S : Idata(segtab[i].typ)}
flat == nonseg /\ ~saverel
Descriptors == XHSIZ + Cardinality(Used) * SGSIZ

LaidOut(j) ==
  IF j \notin Used THEN segtab[j]
  ELSE [segtab[j] EXCEPT
     !.pos = IF Idata(segtab[j].typ) THEN Descriptors + Total(FileOf(Before(j))) ELSE @,
     !.rel = IF j \in CodeOf(Used) THEN Total(CodeOf(Before(j)))
             ELSE IF flat THEN Total(Before(j) \ CodeOf(Before(j))) ELSE 0,
     !.hiwat = segtab[j].siz, !.siz = 0]

Interlude ==
  /\ pc = "interlude"
  /\ segtab' = [j \in SegNos |-> LaidOut(j)]
  /\ \E g \in Garbage :
       symtab' = [i \in DOMAIN symtab |->
         IF flat /\ symtab[i].fl \in {LOC, GLB}
         THEN [symtab[i] EXCEPT !.val =
                 (@ + (IF symtab[i].sg \in SegNos THEN segtab'[symtab[i].sg].rel ELSE g)) % W]
         ELSE symtab[i]]
  /\ errcnt' = errcnt
       + (IF Total(CodeOf(Used)) >= W THEN 1 ELSE 0)
       + (IF flat /\ Total(Used \ CodeOf(Used)) >= W THEN 1 ELSE 0)
       + (IF udefcnt > 0 /\ ~saverel THEN 1 ELSE 0)
  /\ IF errcnt' > 0 THEN Fatal /\ UNCHANGED <<fi, out>>
     ELSE /\ pc' = "p2open" /\ fi' = 1
          /\ out' = [out EXCEPT !.init = Total(FileOf(Used))]
  /\ UNCHANGED <<cmd, k, mi, changed, segmode, postab, optvars, symhash, seghash, udefcnt,
                 prelist, placed, modvars, modno2, pi, segsiz, segpos, ipos, rels,
                 image, relfile, loads>>
-----------------------------------------------------------------------------
(* pass2() and p2read(): the files again; those of archives at the         *)
(* positions postab remembers, up to a terminator.                         *)
P2Frame == UNCHANGED <<cmd, changed, segmode, postab, optvars, symvars, prelist, placed,
                       map, modmap, symap, modsym, mods, out>>
Posndx == filtab[fi].posndx
PosAt(i) == IF i <= Len(postab) THEN postab[i] ELSE 0

P2Load(m) ==                      \* p2load(), up to its segments
  /\ obj' = m /\ pc' = "p2seg" /\ k' = 0
  /\ modno2' = modno2 + 1 /\ ipos' = 0

P2Open ==
  /\ pc = "p2open" /\ fi <= Len(filtab)
  /\ CASE Posndx = 0 -> fi' = fi + 1 /\ UNCHANGED <<pc, k, obj, modno2, ipos, pi, loads>>
       [] Posndx < 0 -> /\ P2Load(File.mods[1]) /\ loads' = Append(loads, <<fi, 0>>)
                        /\ UNCHANGED <<fi, pi>>
       [] Posndx > 0 -> /\ pc' = "p2read" /\ pi' = Posndx
                        /\ UNCHANGED <<fi, k, obj, modno2, ipos, loads>>
  /\ UNCHANGED <<mi, errcnt, segtab, segrel, segsiz, segpos, rels, image, relfile>>
  /\ P2Frame

(* A position that is no member's reads no header: the file ends there.    *)
P2Read ==
  /\ pc = "p2read"
  /\ IF PosAt(pi) = 0
     THEN /\ pc' = "p2open" /\ fi' = fi + 1
          /\ UNCHANGED <<k, obj, modno2, ipos, pi, loads, errcnt>>
     ELSE /\ pi' = pi + 1
          /\ IF \E i \in 1 .. Len(File.mods) : File.at[i] = PosAt(pi)
             THEN \E i \in 1 .. Len(File.mods) :
                    /\ File.at[i] = PosAt(pi)
                    /\ P2Load(File.mods[i]) /\ loads' = Append(loads, <<fi, i>>)
                    /\ UNCHANGED errcnt
             ELSE Err(1) /\ UNCHANGED <<pc, k, obj, modno2, ipos, loads>>
          /\ UNCHANGED fi
  /\ UNCHANGED <<mi, segtab, segrel, segsiz, segpos, rels, image, relfile>>
  /\ P2Frame
-----------------------------------------------------------------------------
(* The segment loop of p2load().  The initialised part of a module holds   *)
(* every segment that is neither BSS nor stack, one after the other; the   *)
(* loop reads those whose type is marked in idata[].                       *)
InInit(m, i) == m.segs[i].typ \notin {BSS, STK}
InitOff(m, i) ==               \* where ordinal i starts; the size, for i past the end
  MapThenSumSet(LAMBDA q : m.segs[q].len, {q \in 1 .. i : InInit(m, q)})
InitWord(m, off) ==
  LET here == {r \in ToSet(m.rels) :
                 InitOff(m, r.sgn) + r.loc + (IF r.typ = "lsg" THEN 2 ELSE 0) = off}
  IN IF here = {} THEN 0 ELSE (CHOOSE r \in here : TRUE).add
Copied(at, len) ==
  [p \in DOMAIN image \cup {q \in at .. at + len - 1 : (q - at) % 2 = 0} |->
     IF p \in at .. at + len - 1 THEN InitWord(obj, ipos + p - at) ELSE image[p]]

Maps2 == IF modno2 <= modno THEN modmap[modno2] ELSE 0
Syms2 == IF modno2 <= modno THEN modsym[modno2] ELSE 0

(* The map entry of a segment is set if pass 2 loads what pass 1 loaded.   *)
(* Otherwise the code works on memory beyond segtab[], and the model stops.*)
P2Segment ==
  /\ pc = "p2seg" /\ k < Len(obj.segs)
  /\ LET s == obj.segs[k + 1]  j == MapAt(Maps2 + k) IN
     /\ j \in SegNos
     /\ segsiz' = [segsiz EXCEPT ![k] = segtab[j].siz]
     /\ segrel' = [segrel EXCEPT ![k] = segtab[j].rel + segtab[j].siz]
     /\ segpos' = [segpos EXCEPT ![k] = segtab[j].pos]
     /\ segtab' = [segtab EXCEPT ![j].siz = Round(@ + s.len),
                     ![j].pos = IF Idata(s.typ) THEN @ + Round(s.len) ELSE @]
     /\ IF Idata(s.typ)
        THEN image' = Copied(segtab[j].pos, s.len) /\ ipos' = ipos + s.len
        ELSE UNCHANGED <<image, ipos>>
     /\ k' = k + 1
  /\ UNCHANGED <<pc, fi, mi, errcnt, obj, modno2, pi, rels, relfile, loads>>
  /\ P2Frame

(* The relocation entries follow the initialised part.  If some of that is *)
(* still unread, its bytes (zeros) are read as entries and as many entries *)
(* at the end are not read.                                                *)
ZeroRel == [sgn |-> 0, ext |-> FALSE, typ |-> "none", loc |-> 0, bas |-> 0, add |-> 0]
RelsRead(m, unread) ==
  SubSeq([i \in 1 .. unread \div RLSIZ |-> ZeroRel] \o m.rels, 1, Len(m.rels))

P2Segments ==
  /\ pc = "p2seg" /\ k >= Len(obj.segs)
  /\ rels' = RelsRead(obj, InitOff(obj, Len(obj.segs)) - ipos)
  /\ pc' = "p2rel"
  /\ UNCHANGED <<k, fi, mi, errcnt, segtab, segrel, obj, modno2, pi, segsiz, segpos, ipos,
                 image, relfile, loads>>
  /\ P2Frame
-----------------------------------------------------------------------------
(* reloc(): one relocation entry.  val is what is added to the word and s  *)
(* the segment number that goes into a segmented address.                  *)
Symbol2(r) == symap[Syms2 + r.bas + 1]
NoSeg7(sg) == sg % 128
RelValBase(r) ==       \* mutant: where the segment starts, not this module's part
  IF ~r.ext THEN segtab[MapAt(Maps2 + r.bas)].rel
  ELSE IF saverel THEN 0 ELSE symtab[Symbol2(r)].val
RelVal(r) ==
  IF ~r.ext THEN segrel[r.bas] ELSE IF saverel THEN 0 ELSE symtab[Symbol2(r)].val
RelSeg(r) ==
  IF ~r.ext THEN MapAt(Maps2 + r.bas)
  ELSE IF saverel \/ NoSeg7(symtab[Symbol2(r)].sg) = 127 THEN 127
  ELSE MapAt(Maps2 + NoSeg7(symtab[Symbol2(r)].sg))

Word(p) == IF p \in DOMAIN image THEN image[p] ELSE 0
Put(f, p, w) == [q \in DOMAIN f \cup {p} |-> IF q = p THEN w ELSE f[q]]

SavedUnmoved(r, s) ==      \* mutant: the item's location in its module
  [r EXCEPT !.bas = IF r.ext THEN Symbol2(r) - 1 ELSE s, !.sgn = MapAt(Maps2 + @)]
Saved(r, s) ==             \* the entry that goes to the output under -r
  [r EXCEPT !.bas = IF r.ext THEN Symbol2(r) - 1 ELSE s,
            !.loc = (@ + segsiz[r.sgn]) % W, !.sgn = MapAt(Maps2 + @)]

Reloc(r) ==
  LET pos == segpos[r.sgn] + r.loc  val == RelVal(r)  s == RelSeg(r)
      short == val + (Word(pos) % 256) IN
  /\ image' =
       CASE r.typ = "off" -> Put(image, pos, (Word(pos) + val) % W)
         [] r.typ = "ssg" -> Put(image, pos, ((s % 256) * 256 + short) % W)
         [] r.typ = "lsg" -> Put(Put(image, pos, 32768 + (s % 128) * 256),
                                 pos + 2, (Word(pos + 2) + val) % W)
         [] OTHER -> image
  /\ errcnt' = IF r.typ = "ssg" /\ short > 255 THEN errcnt + 1 ELSE errcnt
  /\ relfile' = IF ~saverel THEN relfile
                ELSE Append(relfile, Saved(r, s))

P2Rel ==
  /\ pc = "p2rel" /\ rels /= <<>>
  /\ Reloc(Head(rels)) /\ rels' = Tail(rels)
  /\ UNCHANGED <<pc, k, fi, mi, segtab, segrel, obj, modno2, pi, segsiz, segpos, ipos, loads>>
  /\ P2Frame

P2Loaded ==
  /\ pc = "p2rel" /\ rels = <<>>
  /\ IF Posndx < 0 THEN pc' = "p2open" /\ fi' = fi + 1
                   ELSE pc' = "p2read" /\ UNCHANGED fi
  /\ UNCHANGED <<k, mi, errcnt, segtab, segrel, obj, modno2, pi, segsiz, segpos, ipos,
                 rels, image, relfile, loads>>
  /\ P2Frame

(* The end of pass 2 and finale(): the descriptors, preassigned ones first.*)
(* On an error the output file is emptied.                                 *)
InUse == {j \in SegNos : segtab[j].hiwat > 0}
Descriptor(j) == [no |-> IF saverel THEN UNSET ELSE j,
                  typ |-> segtab[j].typ, len |-> segtab[j].hiwat % W]

Finale ==
  /\ pc = "p2open" /\ fi > Len(filtab)
  /\ IF errcnt > 0 THEN pc' = "failed" /\ image' = <<>> /\ UNCHANGED out
     ELSE /\ pc' = "done"
          /\ out' = [out EXCEPT
               !.segs = LET order == SetToSortSeq(InUse, Precedes)
                        IN [n \in DOMAIN order |-> Descriptor(order[n])],
               !.exec = (udefcnt = 0),
               !.magic = IF nonseg THEN IF splitid THEN "split" ELSE "nonseg" ELSE "seg"]
          /\ UNCHANGED image
  /\ UNCHANGED <<cmd, k, fi, mi, changed, segmode, errcnt, postab, optvars, symvars, segvars,
                 modvars, modno2, pi, segsiz, segpos, ipos, rels, relfile, loads>>

Pass2 == \/ P2Open \/ P2Read \/ P2Segment \/ P2Segments
         \/ P2Rel \/ P2Loaded \/ Finale

Ended == pc \in {"done", "failed", "fatal"} /\ UNCHANGED vars

Step == (Step1 /\ UNCHANGED p2vars) \/ Interlude \/ Pass2
Next == Step \/ Ended
Spec == Init /\ [][Next]_vars /\ WF_vars(Step)
-----------------------------------------------------------------------------
(* Pass 2 reads the modules that pass 1 loaded, in the same order, so that *)
(* modmap and modsym mean in pass 2 what they meant in pass 1.             *)
Pass2Replays ==
  /\ IsPrefix(loads, mods)
  /\ pc \in {"done", "failed"} => loads = mods

(* The output file as its reader sees it: where a segment starts in the    *)
(* file and in memory follows from the descriptors alone.                  *)
DescNo(j) == CHOOSE n \in 1 .. Len(out.segs) : out.segs[n].no = j
LenBefore(n, Test(_)) ==
  MapThenSumSet(LAMBDA q : out.segs[q].len, {q \in 1 .. n - 1 : Test(out.segs[q].typ)})
FileBase(n) == XHSIZ + SGSIZ * Len(out.segs) + LenBefore(n, Idata)
IsCode(typ) == out.magic = "split" /\ typ = COD
NotCode(typ) == ~IsCode(typ)
MemBase(n) == IF out.magic = "seg" THEN 0
              ELSE IF IsCode(out.segs[n].typ) THEN LenBefore(n, IsCode)
              ELSE LenBefore(n, NotCode)

PieceOf(m, i) == CHOOSE p \in ToSet(placed) : p.mod = m /\ p.ord = i
Address(p, off) == <<p.seg, MemBase(DescNo(p.seg)) + p.off + off>>
DefinedIn(n) == {m \in 1 .. modno : Defines(Module(m), n)}
AddressOfName(n) ==        \* from the defining module, or from its common
  IF DefinedIn(n) = {} THEN Address(PieceOf(0, symhash[n]), 0)
  ELSE LET m == CHOOSE m \in DefinedIn(n) : TRUE
           s == CHOOSE s \in ToSet(Module(m).syms) : s.fl = GLB /\ s.name = n
       IN IF s.sg = UNSET THEN <<UNSET, s.val>> ELSE Address(PieceOf(m, s.sg), s.val)
TargetOf(m, r) == IF r.ext THEN AddressOfName(Module(m).syms[r.bas + 1].name)
                  ELSE Address(PieceOf(m, r.bas), 0)

(* The linked program is right: in the output file, at the place of every  *)
(* item to be relocated, stands its own addend plus the address at which   *)
(* the module that defines its target was put; and in its symbol table     *)
(* each definition has the address at which it can be found in memory.     *)
WordLinked(m, r) ==
  LET p == PieceOf(m, r.sgn)
      at == FileBase(DescNo(p.seg)) + p.off + r.loc
      t == TargetOf(m, r) IN
  CASE r.typ = "off" -> Word(at) = (r.add + t[2]) % W
    [] r.typ = "ssg" -> Word(at) = t[1] * 256 + r.add + t[2]
    [] r.typ = "lsg" -> Word(at) = 32768 + t[1] * 256 /\ Word(at + 2) = (r.add + t[2]) % W
ImageLinked ==
  pc = "done" /\ ~saverel =>
    /\ \A m \in 1 .. modno : \A i \in 1 .. Len(Module(m).rels) : WordLinked(m, Module(m).rels[i])
    /\ \A i \in 1 .. Len(symtab) : symtab[i].fl = GLB =>
         LET a == AddressOfName(symtab[i].name) IN symtab[i].sg = a[1] /\ symtab[i].val = a[2]

(* Under -r the modules' relocations are kept, in order, and each still    *)
(* points at its item and at its target in the segments of the output.     *)
ModuleOfRel(n) ==
  CHOOSE m \in 1 .. modno :
    /\ n > MapThenSumSet(LAMBDA q : Len(Module(q).rels), 1 .. m - 1)
    /\ n <= MapThenSumSet(LAMBDA q : Len(Module(q).rels), 1 .. m)
OutputOrdinal(j) == Cardinality({i \in SegNos : \E p \in ToSet(placed) :
                                    p.seg = i /\ p.len > 0 /\ Precedes(i, j)})
RelKept(n) ==
  LET m == ModuleOfRel(n)
      r == Module(m).rels[n - MapThenSumSet(LAMBDA q : Len(Module(q).rels), 1 .. m - 1)]
      p == PieceOf(m, r.sgn)  s == relfile[n] IN
  /\ s.sgn = OutputOrdinal(p.seg) /\ s.loc = p.off + r.loc
  /\ IF r.ext THEN symtab[s.bas + 1].name = Module(m).syms[r.bas + 1].name
     ELSE s.bas = OutputOrdinal(PieceOf(m, r.bas).seg)
RelocatableOutput ==
  pc = "done" /\ saverel => \A n \in 1 .. Len(relfile) : RelKept(n)

(* A link comes to an end: rescanning an archive does.                     *)
Terminates == <>(pc \in {"done", "failed", "fatal"})
=============================================================================
