----------------------------- MODULE Ld8kPass1 -----------------------------
(***************************************************************************)
(* Pass 1 of ld8k, the Z8000 linker (ld8k/ld8k.c): the command line, the   *)
(* scan of objects and archives, segment allocation, symbol resolution and *)
(* the allocation of commons.                                              *)
(*                                                                         *)
(* A file of the link is a record: kind "obj" holds one module in mods,    *)
(* "lib" is an archive (its members, each at a file position at[i]) and    *)
(* "none" cannot be opened.  A module has the parts xcon writes: segments, *)
(* symbols and relocations; cut names the part a truncated file ends in.   *)
(* Symbol names are model values, and of the code and data only the words  *)
(* that are relocated count.  Ordinals count from 0, as in the file.       *)
(***************************************************************************)
EXTENDS Integers, Sequences, FiniteSets

CONSTANTS
  Names,      \* the names of symbols and of segments
  SegNameTyp, \* name -> the segment type dodline() knows for it, or UND
  Content,    \* file name -> file (see above)
  Commands,   \* the command lines considered: sequences of options
  Garbage,    \* what a read beyond the end of an array may return
  SEGNO, MODNO, MAPNO, SYMPNO, SYMNO, FILNO,  \* table sizes
  SYMHASH, SEGHASH                            \* sizes of the hash tables

ASSUME LimitsAssumption ==
  /\ SEGNO \in 1 .. 128
  /\ {MODNO, MAPNO, SYMPNO, SYMNO, FILNO, SYMHASH, SEGHASH} \subseteq Nat
  /\ Garbage \subseteq Nat /\ Garbage # {}

W      == 256 * 256        \* a uint16_t holds 0 .. W-1
UNSET  == 255              \* x_sy_sg of a symbol that is in no segment
SegNos == 0 .. SEGNO - 1
Round(x) == x + (x % 2)

LOC == 1      \* x_sy_fl: a local symbol,
UNX == 2      \* an undefined external or a common,
GLB == 3      \* a global definition,
SEG == 4      \* the name of a segment
UND == 0      \* x_sg_typ: no type yet,
BSS == 1      \* memory without initial contents,
STK == 2      \* the stack,
COD == 3      \* code,
CON == 4      \* constants,
DAT == 5      \* initialised data,
MXU == 6      \* mixtures that cannot
MXP == 7      \* and that can be protected
Types == UND .. MXP

(* The type clash and mixing table ty[]: the types a segment of type t may *)
(* take in by itself, and the type of the mixture when it does take one.   *)
OkTyp ==
  <<Types, {UND, BSS, MXU}, {UND, STK, MXU}, {UND, COD, MXP},
    {UND, CON, MXU, MXP}, {UND, DAT, MXU}, Types, {UND, COD, CON, MXP}>>
MixTyp ==
  << <<UND, BSS, STK, COD, CON, DAT, MXU, MXP>>,
     <<BSS, BSS, BSS, MXU, DAT, DAT, MXU, MXU>>,
     <<STK, BSS, STK, MXU, MXU, DAT, MXU, MXU>>,
     <<COD, MXU, MXU, COD, MXP, MXU, MXU, MXP>>,
     <<CON, DAT, DAT, MXP, CON, DAT, MXU, MXP>>,
     <<DAT, DAT, DAT, MXU, DAT, DAT, MXU, MXU>>,
     <<MXU, MXU, MXU, MXU, MXU, MXU, MXU, MXU>>,
     <<MXP, MXU, MXU, MXP, MXP, MXU, MXU, MXP>> >>
NewTyp(old, new) == MixTyp[old + 1][new + 1]

(* What the files and the command lines are made of.                       *)
SymRecord == [fl : {LOC, UNX, GLB, SEG}, name : Names, sg : Nat, val : 0 .. W - 1]
SgRecord  == [no : 0 .. 255, typ : Types, len : 0 .. W - 1]
RelRecord == [sgn : Nat, ext : BOOLEAN, typ : {"off", "ssg", "lsg"}, loc : Nat,
              bas : Nat, add : Nat]
ModuleRecord == [magic : {"seg", "nonseg", "bad"}, cut : {"no", "head", "syms", "segs"},
                 segs : Seq(SgRecord), syms : Seq(SymRecord), rels : Seq(RelRecord)]
(* What p1doseg() relies on without a check: the segment tables are large  *)
(* enough for the module, and a number given is a segment.                 *)
LoadableOK(m) ==
  /\ m \in ModuleRecord /\ Len(m.segs) <= SEGNO
  /\ \A q \in 1 .. Len(m.segs) : m.segs[q].no % 128 \in SegNos \cup {127}
OptionOK(o) ==
  /\ o.op \in {"r", "i", "x", "w", "t", "file", "u", "d", "dn"}
  /\ o.op = "t" => o.size \in Nat
  /\ o.op = "file" => o.file \in DOMAIN Content
  /\ o.op \in {"u", "dn"} => o.name \in Names
  /\ o.op \in {"d", "dn"} => o.seg \in SegNos /\ o.typ \in Types

ASSUME InputAssumption ==
  /\ SegNameTyp \in [Names -> Types]
  /\ \A f \in DOMAIN Content :
       /\ Content[f].kind \in {"obj", "lib", "none"}
       /\ Content[f].mods \in Seq(ModuleRecord) /\ Content[f].at \in Seq(Nat)
       /\ Content[f].kind = "obj" => Len(Content[f].mods) = 1
       /\ Len(Content[f].at) = Len(Content[f].mods)
       /\ \A i \in 1 .. Len(Content[f].mods) : LoadableOK(Content[f].mods[i])
  /\ \A c \in Commands : \A i \in 1 .. Len(c) : OptionOK(c[i])

VARIABLES
  cmd,       \* the command line
  pc,        \* where ld8k is (see TypeOK)
  k,         \* the loop counter of the current loop
  flags,     \* the flags given: "r" saverel, "i" splitid, "x" nolocal
  stacksiz,
  filtab,    \* the files of the command line, with posndx
  fi, mi,    \* the current file, and the member scanned if it is an archive
  changed,   \* this scan of the archive has loaded a member
  obj,       \* the module being loaded
  segmode,   \* "?" before the first module; then "seg" or "nonseg"
  errcnt, udefcnt,
  symtab,    \* symlev is the index after its end
  symhash, seghash,   \* name -> index in symtab, for the names installed
  segtab, prelist,
  segrel,    \* scratch: where the segments of the current module start
  map, modmap,        \* flat map of segments, and where each module's starts
  symap, modsym,      \* the same for symbols
  postab,    \* positions of the archive members loaded; 0 is the terminator
  mods,      \* history: the module loaded as number m, as <<fi, mi>>
  placed     \* history: every piece of a segment given out

optvars == <<flags, stacksiz, filtab>>
symvars == <<symtab, symhash, seghash, udefcnt>>
segvars == <<segtab, prelist, placed>>
modvars == <<obj, segrel, map, modmap, symap, modsym, mods>>
vars1 == <<cmd, pc, k, fi, mi, changed, segmode, errcnt, postab,
           optvars, symvars, segvars, modvars>>

symlev == Len(symtab) + 1
modno  == Len(modmap)
mapx   == Len(map)
maps   == modmap[modno]
saverel == "r" \in flags
File    == Content[filtab[fi].file]
NoObj   == [magic |-> "bad", cut |-> "no", segs |-> <<>>, syms |-> <<>>, rels |-> <<>>]

Init1 ==
  /\ cmd \in Commands
  /\ pc = "pass0" /\ k = 1
  /\ flags = {} /\ stacksiz = 0 /\ filtab = <<>>
  /\ fi = 1 /\ mi = 0 /\ changed = FALSE /\ obj = NoObj
  /\ segmode = "?" /\ errcnt = 0 /\ udefcnt = 0
  /\ symtab = <<>> /\ symhash = <<>> /\ seghash = <<>>
  /\ segtab = [j \in SegNos |-> [typ |-> UND, siz |-> 0, alloc |-> FALSE,
                                 rel |-> 0, pos |-> 0, hiwat |-> 0]]
  /\ prelist = <<>> /\ segrel = [j \in SegNos |-> 0]
  /\ map = <<>> /\ modmap = <<>> /\ symap = <<>> /\ modsym = <<>>
  /\ postab = <<>> /\ mods = <<>> /\ placed = <<>>

Fatal == pc' = "fatal"        \* errex(): the process exits with status 1
Err(n) == errcnt' = errcnt + n
-----------------------------------------------------------------------------
(* The hash tables: Found says that the probe for a name ends at it, Room   *)
(* that the probe for a new one finds a free slot, Extend installs it.     *)
Found(hash, n) == n \in DOMAIN hash
Room(hash, size) == Cardinality(DOMAIN hash) < size
ExtendStale(hash, n, i) ==      \* mutant: the index before symlev
  [x \in DOMAIN hash \cup {n} |-> IF x = n THEN i - 1 ELSE hash[x]]
Extend(hash, n, i) == [x \in DOMAIN hash \cup {n} |-> IF x = n THEN i ELSE hash[x]]
Symbol(fl, n, sg, val) == [fl |-> fl, name |-> n, sg |-> sg, val |-> val]

(* findseg(): the first preassigned segment that takes siz more bytes of   *)
(* type typ or, if there is none, the first other one.                     *)
Fits(st, j, typ, siz) == typ \in OkTyp[st[j].typ + 1] /\ st[j].siz + siz < W
FirstFit(st, typ, siz, j) ==
  \/ \E p \in 1 .. Len(prelist) :
        /\ j = prelist[p] /\ Fits(st, j, typ, siz)
        /\ \A q \in 1 .. p - 1 : ~Fits(st, prelist[q], typ, siz)
  \/ /\ \A q \in 1 .. Len(prelist) : ~Fits(st, prelist[q], typ, siz)
     /\ ~st[j].alloc /\ Fits(st, j, typ, siz)
     /\ \A i \in 0 .. j - 1 : st[i].alloc \/ ~Fits(st, i, typ, siz)
NoFit(st, typ, siz) == \A j \in SegNos : ~FirstFit(st, typ, siz, j)
-----------------------------------------------------------------------------
(* pass0(): the command line, one option a step.  -d is taken in the form  *)
(* "n,t=name" with at most one type and one name; longer ones repeat it.   *)
Option(op) == pc = "pass0" /\ k <= Len(cmd) /\ cmd[k].op = op /\ k' = k + 1

OptFlag ==
  /\ \E f \in {"r", "i", "x"} : Option(f) /\ flags' = flags \cup {f}
  /\ UNCHANGED <<cmd, pc, fi, mi, changed, segmode, errcnt, postab,
                 stacksiz, filtab, symvars, segvars, modvars>>

OptStack ==      \* -t
  /\ Option("t")
  /\ IF Round(cmd[k].size) > W THEN Err(1) /\ UNCHANGED stacksiz
     ELSE stacksiz' = Round(cmd[k].size) /\ UNCHANGED errcnt
  /\ UNCHANGED <<cmd, pc, fi, mi, changed, segmode, postab,
                 flags, filtab, symvars, segvars, modvars>>

OptTypes ==      \* -w
  /\ Option("w")
  /\ segtab' = [j \in SegNos |-> IF j < 4
                  THEN [segtab[j] EXCEPT !.typ = <<COD, CON, DAT, BSS>>[j + 1]]
                  ELSE segtab[j]]
  /\ UNCHANGED <<cmd, pc, fi, mi, changed, segmode, errcnt, postab,
                 optvars, symvars, prelist, placed, modvars>>

OptFile ==
  /\ Option("file")
  /\ IF Len(filtab) >= FILNO THEN Fatal /\ UNCHANGED filtab
     ELSE filtab' = Append(filtab, [file |-> cmd[k].file, posndx |-> 0]) /\ UNCHANGED pc
  /\ UNCHANGED <<cmd, fi, mi, changed, segmode, errcnt, postab,
                 flags, stacksiz, symvars, segvars, modvars>>

OptUndef ==      \* -u
  /\ Option("u")
  /\ LET n == cmd[k].name IN
     IF Found(symhash, n) THEN UNCHANGED <<pc, symvars>>
     ELSE IF ~Room(symhash, SYMHASH) \/ symlev >= SYMNO
     THEN Fatal /\ UNCHANGED symvars
     ELSE /\ symtab' = Append(symtab, Symbol(UNX, n, UNSET, 0))
          /\ symhash' = Extend(symhash, n, symlev)
          /\ udefcnt' = udefcnt + 1
          /\ UNCHANGED <<pc, seghash>>
  /\ UNCHANGED <<cmd, fi, mi, changed, segmode, errcnt, postab,
                 optvars, segvars, modvars>>

(* dodset(i, typ) and, when a name follows, the symbol of the segment.     *)
Dodset(i, typ, nametyp) ==
  /\ prelist' = IF segtab[i].alloc THEN prelist ELSE Append(prelist, i)
  /\ segtab' = [segtab EXCEPT ![i].alloc = TRUE,
                  ![i].typ = LET t == IF typ = UND THEN @ ELSE NewTyp(@, typ)
                             IN IF nametyp = UND THEN t ELSE NewTyp(t, nametyp)]

OptDescr ==      \* -d without a name
  /\ Option("d") /\ Dodset(cmd[k].seg, cmd[k].typ, UND)
  /\ UNCHANGED <<cmd, pc, fi, mi, changed, segmode, errcnt, postab,
                 optvars, symvars, placed, modvars>>

OptNamed ==      \* -d with a name
  /\ Option("dn")
  /\ LET i == cmd[k].seg  n == cmd[k].name  taken == Found(seghash, n) IN
     IF taken /\ symtab[seghash[n]].sg % 128 \notin {127, i}
     THEN /\ Dodset(i, cmd[k].typ, UND) /\ Err(2)
          /\ UNCHANGED <<pc, symvars>>
     ELSE /\ Dodset(i, cmd[k].typ, SegNameTyp[n])
          /\ IF taken
             THEN /\ symtab' = [symtab EXCEPT ![seghash[n]].sg = i]
                  /\ UNCHANGED <<pc, seghash>>
             ELSE IF ~Room(seghash, SEGHASH) \/ symlev >= SYMNO
             THEN Fatal /\ UNCHANGED <<symtab, seghash>>
             ELSE /\ symtab' = Append(symtab, Symbol(SEG, n, i, 0))
                  /\ seghash' = Extend(seghash, n, symlev)
                  /\ UNCHANGED pc
          /\ UNCHANGED <<errcnt, symhash, udefcnt>>
  /\ UNCHANGED <<cmd, fi, mi, changed, segmode, postab, optvars, placed, modvars>>

EndPass0 ==
  /\ pc = "pass0" /\ k > Len(cmd) /\ pc' = "open"
  /\ UNCHANGED <<cmd, k, fi, mi, changed, segmode, errcnt, postab,
                 optvars, symvars, segvars, modvars>>

Pass0 == \/ OptFlag \/ OptStack \/ OptTypes \/ OptFile
         \/ OptUndef \/ OptDescr \/ OptNamed \/ EndPass0
-----------------------------------------------------------------------------
(* pass1() and p1entry(): the files in turn, and the scan of an archive.   *)
NextFile == pc' = "open" /\ fi' = fi + 1

SymtabFull(m) == symlev + Len(m.syms) > SYMNO

OpenFails ==       \* open, the read of the header or of the symbols fails
  /\ pc = "open" /\ fi <= Len(filtab)
  /\ \/ File.kind = "none"
     \/ File.kind = "obj" /\ File.mods[1].cut = "head"
     \/ File.kind = "obj" /\ File.mods[1].cut = "syms" /\ ~SymtabFull(File.mods[1])
  /\ Err(1) /\ NextFile
  /\ UNCHANGED <<cmd, k, mi, changed, segmode, postab, optvars, symvars, segvars, modvars>>

OpenObject ==
  /\ pc = "open" /\ fi <= Len(filtab)
  /\ File.kind = "obj" /\ File.mods[1].cut /= "head"
  /\ File.mods[1].cut = "syms" => SymtabFull(File.mods[1])
  /\ IF SymtabFull(File.mods[1]) THEN Fatal /\ UNCHANGED <<filtab, obj, mi>>
     ELSE /\ filtab' = [filtab EXCEPT ![fi].posndx = -1]
          /\ obj' = File.mods[1] /\ mi' = 0 /\ pc' = "load"
  /\ UNCHANGED <<cmd, k, fi, changed, segmode, errcnt, postab, flags, stacksiz,
                 symvars, segvars, segrel, map, modmap, symap, modsym, mods>>

SkipArchive ==     \* nothing is undefined
  /\ pc = "open" /\ fi <= Len(filtab) /\ File.kind = "lib" /\ udefcnt = 0
  /\ NextFile
  /\ UNCHANGED <<cmd, k, mi, changed, segmode, errcnt, postab,
                 optvars, symvars, segvars, modvars>>

OpenArchive ==
  /\ pc = "open" /\ fi <= Len(filtab) /\ File.kind = "lib" /\ udefcnt > 0
  /\ pc' = "scan" /\ mi' = 1 /\ changed' = FALSE
  /\ UNCHANGED <<cmd, k, fi, segmode, errcnt, postab, optvars, symvars, segvars, modvars>>

(* trysim(): the member is of the right kind and defines a wanted symbol.  *)
RightKind(m) == /\ segmode = "seg" => m.magic = "seg"
                /\ segmode = "nonseg" => m.magic /= "seg"
WantedAny(n) == Found(symhash, n)      \* mutant: any name seen before
Wanted(n) == Found(symhash, n) /\ symtab[symhash[n]].fl = UNX
Defines(m, n) == \E i \in 1 .. Len(m.syms) : m.syms[i].fl = GLB /\ m.syms[i].name = n
Readable(m) == m.cut \notin {"head", "syms"}
Trysim(m) == /\ Readable(m) /\ RightKind(m)
             /\ \E n \in Names : Defines(m, n) /\ Wanted(n)

(* lookup() goes round a full table in search of a name that is not there. *)
(* trysim() looks up the globals up to the first that is wanted.           *)
LookupFails(hash, size, n) == ~Found(hash, n) /\ ~Room(hash, size)
TrysimExits(m) ==
  \/ SymtabFull(m)
  \/ /\ m.cut /= "syms"
     /\ \E i \in 1 .. Len(m.syms) :
          /\ m.syms[i].fl = GLB /\ LookupFails(symhash, SYMHASH, m.syms[i].name)
          /\ \A j \in 1 .. i - 1 : m.syms[j].fl = GLB => ~Wanted(m.syms[j].name)

ScanMember ==
  /\ pc = "scan" /\ mi <= Len(File.mods)
  /\ LET m == File.mods[mi] IN
     IF m.cut /= "head" /\ RightKind(m) /\ TrysimExits(m)
     THEN Fatal /\ UNCHANGED <<mi, obj, filtab, postab, errcnt>>
     ELSE IF Trysim(m)
     THEN /\ postab' = Append(postab, File.at[mi])
          /\ filtab' = IF filtab[fi].posndx > 0 THEN filtab
                       ELSE [filtab EXCEPT ![fi].posndx = Len(postab) + 1]
          /\ obj' = m /\ pc' = "load"
          /\ UNCHANGED <<mi, errcnt>>
     ELSE /\ mi' = mi + 1
          /\ Err(IF m.cut = "head" \/ (m.cut = "syms" /\ RightKind(m)) THEN 1 ELSE 0)
          /\ UNCHANGED <<pc, obj, filtab, postab>>
  /\ UNCHANGED <<cmd, k, fi, changed, segmode, flags, stacksiz, symvars, segvars,
                 segrel, map, modmap, symap, modsym, mods>>

RescanNever == FALSE                    \* mutant: one scan of an archive
RescanWanted == udefcnt > 0             \* mutant: rescan as long as names are undefined
Rescan == changed /\ udefcnt > 0
ClosedNever == postab                   \* mutant: no terminator
Closed == IF filtab[fi].posndx > 0 THEN Append(postab, 0) ELSE postab

EndScan ==
  /\ pc = "scan" /\ mi > Len(File.mods)
  /\ IF Rescan
     THEN mi' = 1 /\ changed' = FALSE /\ UNCHANGED <<pc, fi, postab>>
     ELSE NextFile /\ postab' = Closed /\ UNCHANGED <<mi, changed>>
  /\ UNCHANGED <<cmd, k, segmode, errcnt, optvars, symvars, segvars, modvars>>
-----------------------------------------------------------------------------
(* p1load() and p1doseg(): the module's segments.                          *)
Reject ==
  /\ pc = "load"
  /\ \/ obj.magic = "bad"
     \/ obj.magic /= "bad" /\ segmode \notin {"?", obj.magic}
     \/ obj.magic /= "bad" /\ segmode \in {"?", obj.magic} /\ obj.cut = "segs"
  /\ segmode' = IF obj.magic /= "bad" /\ segmode = "?" THEN obj.magic ELSE segmode
  /\ Err(1) /\ pc' = "loaded"
  /\ UNCHANGED <<cmd, k, fi, mi, changed, postab, optvars, symvars, segvars, modvars>>

(* The first loop of p1doseg() looks up the module's segment names.        *)
NamedSeg(m, i) == {m.syms[j].name : j \in {j \in 1 .. Len(m.syms) :
                       /\ m.syms[j].fl = SEG /\ m.syms[j].sg = i
                       /\ Found(seghash, m.syms[j].name)}}

StartModule ==
  /\ pc = "load" /\ obj.magic /= "bad" /\ segmode \in {"?", obj.magic} /\ obj.cut /= "segs"
  /\ segmode' = obj.magic
  /\ IF \/ modno >= MODNO
        \/ mapx + Len(obj.segs) > MAPNO
        \/ Len(symap) + Len(obj.syms) > SYMPNO
        \/ \E i \in 1 .. Len(obj.syms) :
              obj.syms[i].fl = SEG /\ LookupFails(seghash, SEGHASH, obj.syms[i].name)
     THEN Fatal /\ UNCHANGED <<k, modmap, modsym, map, mods>>
     ELSE /\ modmap' = Append(modmap, mapx)
          /\ modsym' = Append(modsym, Len(symap))
          /\ map' = map \o [i \in 1 .. Len(obj.segs) |->
                       IF NamedSeg(obj, i - 1) = {} THEN UNSET
                       ELSE symtab[seghash[CHOOSE n \in NamedSeg(obj, i - 1) : TRUE]].sg]
          /\ mods' = Append(mods, <<fi, mi>>)
          /\ k' = 0 /\ pc' = "seg"
  /\ UNCHANGED <<cmd, fi, mi, changed, errcnt, postab, optvars, symvars, segvars,
                 obj, segrel, symap>>

Piece(m, i, j, off, len) == [mod |-> m, ord |-> i, seg |-> j, off |-> off, len |-> len]

PlaceSegment(j) ==
  LET s == obj.segs[k + 1]  end == segtab[j].siz + s.len IN
  /\ segtab' = [segtab EXCEPT ![j].typ = NewTyp(@, s.typ), ![j].siz = Round(end)]
  /\ map' = [map EXCEPT ![maps + k + 1] = j]
  /\ segrel' = [segrel EXCEPT ![k] = segtab[j].siz]
  /\ placed' = Append(placed, Piece(modno, k, j, segtab[j].siz, s.len))
  /\ Err(IF end >= W THEN 1 ELSE 0)
  /\ k' = k + 1

DoSegment ==
  /\ pc = "seg" /\ k < Len(obj.segs)
  /\ LET s == obj.segs[k + 1]  no == s.no % 128 IN
     IF no = 127 /\ NoFit(segtab, s.typ, s.len)
     THEN Fatal /\ UNCHANGED <<segtab, map, segrel, placed, errcnt, k>>
     ELSE /\ \E j \in SegNos : /\ IF no = 127 THEN FirstFit(segtab, s.typ, s.len, j)
                                              ELSE j = no
                               /\ PlaceSegment(j)
          /\ UNCHANGED pc
  /\ UNCHANGED <<cmd, fi, mi, changed, segmode, postab, optvars, symvars, prelist,
                 obj, modmap, symap, modsym, mods>>

EndSegments ==
  /\ pc = "seg" /\ k = Len(obj.segs)
  /\ pc' = "sym" /\ k' = 1
  /\ UNCHANGED <<cmd, fi, mi, changed, segmode, errcnt, postab,
                 optvars, symvars, segvars, modvars>>
-----------------------------------------------------------------------------
(* p1dosym(): the module's symbols, one a step.                            *)
Cur == obj.syms[k]
Mapped(i) == symap' = Append(symap, i)
SymStep == pc = "sym" /\ k <= Len(obj.syms) /\ k' = k + 1
SymFrame == UNCHANGED <<cmd, fi, mi, changed, segmode, postab, optvars, segvars,
                        obj, segrel, map, modmap, modsym, mods>>

(* A definition is moved to where its segment was placed.  A symbol in no  *)
(* segment (x_sy_sg is 255) makes the code read beyond segrel[] and map[]. *)
MapAt(i) == IF i < mapx THEN map[i + 1] ELSE UNSET
Starts(sg) == IF sg < SEGNO THEN {segrel[sg]} ELSE Garbage
Moved(s, start) == [s EXCEPT !.val = (@ + start) % W, !.sg = MapAt(maps + s.sg)]

SymSegment ==
  /\ SymStep /\ Cur.fl = SEG /\ Found(seghash, Cur.name)
  /\ Mapped(seghash[Cur.name])
  /\ UNCHANGED <<pc, errcnt, symvars>> /\ SymFrame

SymDroppedUnmapped ==      \* mutant: symap not advanced
  /\ SymStep /\ Cur.fl = LOC /\ "x" \in flags
  /\ UNCHANGED <<pc, symap, errcnt, symvars>> /\ SymFrame

SymDropped ==      \* a local symbol, under -x
  /\ SymStep /\ Cur.fl = LOC /\ "x" \in flags
  /\ Mapped(symlev)
  /\ UNCHANGED <<pc, errcnt, symvars>> /\ SymFrame

SymReference ==    \* of a name seen before; for a common, the larger size
  /\ SymStep /\ Cur.fl = UNX /\ Found(symhash, Cur.name)
  /\ LET i == symhash[Cur.name] IN
     /\ symtab' = IF symtab[i].val < Cur.val THEN [symtab EXCEPT ![i].val = Cur.val]
                  ELSE symtab
     /\ Mapped(i)
  /\ UNCHANGED <<pc, errcnt, symhash, seghash, udefcnt>> /\ SymFrame

MayDefineAgain(i) == TRUE               \* mutant: a second definition wins
MayDefine(i) == symtab[i].fl = UNX
CountNewPlain(s) == IF s.fl = UNX /\ s.val = 0 THEN udefcnt + 1 ELSE udefcnt    \* mutant: commons not counted
CountNew(s) == IF s.fl = UNX THEN udefcnt + 1 ELSE udefcnt

SymDefinition ==   \* of a name seen before
  /\ SymStep /\ Cur.fl = GLB /\ Found(symhash, Cur.name)
  /\ LET i == symhash[Cur.name] IN
     /\ IF MayDefine(i)
        THEN /\ \E start \in Starts(Cur.sg) : symtab' = [symtab EXCEPT ![i] = Moved(Cur, start)]
             /\ udefcnt' = udefcnt - 1 /\ UNCHANGED errcnt
        ELSE Err(1) /\ UNCHANGED <<symtab, udefcnt>>      \* multiple def
     /\ Mapped(i)
  /\ UNCHANGED <<pc, symhash, seghash>> /\ SymFrame

SymNew ==
  /\ SymStep
  /\ \/ Cur.fl = SEG /\ ~Found(seghash, Cur.name)
     \/ Cur.fl = LOC /\ "x" \notin flags
     \/ Cur.fl \in {UNX, GLB} /\ ~Found(symhash, Cur.name)
  /\ IF \/ Cur.fl = SEG /\ ~Room(seghash, SEGHASH)
        \/ Cur.fl \in {UNX, GLB} /\ ~Room(symhash, SYMHASH)
     THEN Fatal /\ UNCHANGED <<symap, symvars>>
     ELSE /\ \E start \in IF Cur.fl = GLB THEN Starts(Cur.sg) ELSE {0} :
               symtab' = Append(symtab, IF Cur.fl = GLB THEN Moved(Cur, start) ELSE Cur)
          /\ symhash' = IF Cur.fl \in {UNX, GLB} THEN Extend(symhash, Cur.name, symlev)
                        ELSE symhash
          /\ seghash' = IF Cur.fl = SEG THEN Extend(seghash, Cur.name, symlev) ELSE seghash
          /\ udefcnt' = CountNew(Cur)
          /\ Mapped(symlev) /\ UNCHANGED pc
  /\ UNCHANGED errcnt /\ SymFrame

EndSymbols ==
  /\ pc = "sym" /\ k > Len(obj.syms) /\ pc' = "loaded"
  /\ UNCHANGED <<cmd, k, fi, mi, changed, segmode, errcnt, postab,
                 optvars, symvars, segvars, modvars>>

(* Back in p1entry(): an archive is left at once when all is defined.      *)
Loaded ==
  /\ pc = "loaded"
  /\ IF File.kind = "obj" \/ udefcnt = 0 THEN NextFile /\ UNCHANGED mi
     ELSE pc' = "scan" /\ mi' = mi + 1 /\ UNCHANGED fi
  /\ changed' = (File.kind = "lib")
  /\ UNCHANGED <<cmd, k, segmode, errcnt, postab, optvars, symvars, segvars, modvars>>
-----------------------------------------------------------------------------
(* The rest of pass1(): commons, rounding, the stack segment.              *)
EndFiles ==
  /\ pc = "open" /\ fi > Len(filtab)
  /\ IF ~saverel /\ udefcnt > 0 THEN pc' = "commons" /\ k' = 1
     ELSE pc' = "stack" /\ UNCHANGED k
  /\ UNCHANGED <<cmd, fi, mi, changed, segmode, errcnt, postab,
                 optvars, symvars, segvars, modvars>>

IsCommonAny(s) == s.val /= 0            \* mutant: whatever the kind of the symbol
IsCommon(s) == s.fl = UNX /\ s.val /= 0
CommonAtDown(j, siz) == segtab[j].siz - (segtab[j].siz % 2)      \* mutant: rounds down
CommonAt(j, siz) == IF siz > 1 THEN Round(segtab[j].siz) ELSE segtab[j].siz

SkipSymbol ==
  /\ pc = "commons" /\ k < symlev /\ ~IsCommon(symtab[k]) /\ k' = k + 1
  /\ UNCHANGED <<cmd, pc, fi, mi, changed, segmode, errcnt, postab,
                 optvars, symvars, segvars, modvars>>

AllocCommon ==
  /\ pc = "commons" /\ k < symlev /\ IsCommon(symtab[k])
  /\ LET siz == symtab[k].val IN
     IF NoFit(segtab, BSS, siz) THEN Fatal /\ UNCHANGED <<segtab, symtab, udefcnt, placed, k>>
     ELSE \E j \in SegNos :
       LET at == CommonAt(j, siz) IN
       /\ FirstFit(segtab, BSS, siz, j)
       /\ segtab' = [segtab EXCEPT ![j].typ = NewTyp(@, BSS), ![j].siz = at + siz]
       /\ symtab' = [symtab EXCEPT ![k] = [@ EXCEPT !.fl = GLB, !.sg = j, !.val = at % W]]
       /\ placed' = Append(placed, Piece(0, k, j, at, siz))
       /\ udefcnt' = udefcnt - 1
       /\ k' = k + 1 /\ UNCHANGED pc
  /\ UNCHANGED <<cmd, fi, mi, changed, segmode, errcnt, postab,
                 optvars, symhash, seghash, prelist, modvars>>

EndCommons ==
  /\ pc = "commons" /\ k >= symlev /\ pc' = "stack"
  /\ UNCHANGED <<cmd, k, fi, mi, changed, segmode, errcnt, postab,
                 optvars, symvars, segvars, modvars>>

EndPass1 ==
  /\ pc = "stack"
  /\ LET st == [j \in SegNos |-> [segtab[j] EXCEPT !.siz = Round(@)]] IN
     IF stacksiz = 0
     THEN segtab' = st /\ pc' = "interlude" /\ UNCHANGED placed
     ELSE IF NoFit(st, STK, stacksiz) THEN Fatal /\ UNCHANGED <<segtab, placed>>
     ELSE \E j \in SegNos :
            /\ FirstFit(st, STK, stacksiz, j)
            /\ segtab' = [st EXCEPT ![j].typ = NewTyp(@, STK), ![j].siz = @ + stacksiz]
            /\ placed' = Append(placed, Piece(0, 0, j, st[j].siz, stacksiz))
            /\ pc' = "interlude"
  /\ UNCHANGED <<cmd, k, fi, mi, changed, segmode, errcnt, postab,
                 optvars, symvars, prelist, modvars>>

Pass1 == \/ OpenFails \/ OpenObject \/ SkipArchive \/ OpenArchive \/ ScanMember \/ EndScan
         \/ Reject \/ StartModule \/ DoSegment \/ EndSegments
         \/ SymSegment \/ SymDropped \/ SymReference \/ SymDefinition \/ SymNew
         \/ EndSymbols \/ Loaded
         \/ EndFiles \/ SkipSymbol \/ AllocCommon \/ EndCommons \/ EndPass1

(* Pass 1 is over: the interlude takes over, or the process has exited.    *)
Ended1 == pc \in {"interlude", "fatal"} /\ UNCHANGED vars1

Step1 == Pass0 \/ Pass1
Next1 == Step1 \/ Ended1
Spec1 == Init1 /\ [][Next1]_vars1 /\ WF_vars1(Step1)
-----------------------------------------------------------------------------
SegRecord == [typ : Types, siz : Nat, alloc : BOOLEAN, rel : Nat, pos : Nat, hiwat : Nat]

(* Every variable of pass 1 keeps its type: no counter falls below 0, a    *)
(* symbol's value fits its uint16_t, and no loop leaves its tables.        *)
ControlType ==
  /\ pc \in {"pass0", "open", "scan", "load", "seg", "sym", "loaded", "commons", "stack",
             "interlude", "fatal"}
  /\ cmd \in Commands /\ k \in Nat /\ mi \in Nat /\ fi \in Nat \ {0} /\ changed \in BOOLEAN
  /\ segmode \in {"?", "seg", "nonseg"} /\ errcnt \in Nat /\ postab \in Seq(Nat)
OptionType ==
  /\ flags \subseteq {"r", "i", "x"} /\ stacksiz \in Nat
  /\ filtab \in Seq([file : DOMAIN Content, posndx : Int])
SymbolType ==
  /\ symtab \in Seq(SymRecord) /\ udefcnt \in Nat
  /\ DOMAIN symhash \subseteq Names /\ DOMAIN seghash \subseteq Names
SegmentType == segtab \in [SegNos -> SegRecord] /\ prelist \in Seq(SegNos)
ModuleType ==
  /\ LoadableOK(obj) /\ segrel \in [SegNos -> Nat]
  /\ map \in Seq(Nat) /\ symap \in Seq(Nat) /\ modmap \in Seq(Nat) /\ modsym \in Seq(Nat)
LoopType ==
  /\ pc \in {"pass0", "sym", "commons"} => k >= 1
  /\ pc \in {"scan", "load", "seg", "sym", "loaded"} => fi <= Len(filtab)
  /\ pc = "scan" => mi >= 1
  /\ pc \in {"seg", "sym"} => modno >= 1
TypeOK1 == /\ ControlType /\ OptionType /\ SymbolType /\ SegmentType
           /\ ModuleType /\ LoopType

(* udefcnt, which decides whether archives are searched at all and whether *)
(* the link fails, counts exactly the undefined entries of symtab.         *)
UdefcntExact ==
  udefcnt = Cardinality({i \in 1 .. Len(symtab) : symtab[i].fl = UNX})

(* The hash tables index the symbol table: each external and each segment  *)
(* name has exactly one entry, and lookup() finds that one.                *)
HashExact ==
  /\ \A i \in 1 .. Len(symtab) : LET s == symtab[i] IN
       /\ s.fl \in {UNX, GLB} => Found(symhash, s.name) /\ symhash[s.name] = i
       /\ s.fl = SEG => Found(seghash, s.name) /\ seghash[s.name] = i
  /\ \A n \in DOMAIN symhash : symhash[n] \in 1 .. Len(symtab)
                              /\ symtab[symhash[n]].fl \in {UNX, GLB}
                              /\ symtab[symhash[n]].name = n
  /\ \A n \in DOMAIN seghash : seghash[n] \in 1 .. Len(symtab)
                              /\ symtab[seghash[n]].fl = SEG
                              /\ symtab[seghash[n]].name = n

(* The module loaded as number m.                                          *)
Member(x) == LET f == Content[filtab[x[1]].file] IN f.mods[IF x[2] = 0 THEN 1 ELSE x[2]]
Module(m) == Member(mods[m])

(* symap, which pass 2 uses to bind relocations, sends each external of    *)
(* each loaded module to the one entry of its name, whatever was dropped   *)
(* or merged in between.                                                   *)
SymapSound ==
  pc # "fatal" =>
  \A m \in 1 .. modno : \A i \in 1 .. Len(Module(m).syms) :
     LET s == Module(m).syms[i]  at == modsym[m] + i IN
     s.fl \in {UNX, GLB} /\ at <= Len(symap) =>
       Found(symhash, s.name) /\ symap[at] = symhash[s.name]

(* However often an archive is scanned, none of its members is loaded a    *)
(* second time.                                                            *)
MembersLoadedOnce == \A a, b \in 1 .. modno : mods[a] = mods[b] => a = b

(* When an archive is left, it holds no member that defines a name still   *)
(* undefined: the rescans have reached a fixed point.                      *)
Exhausted(f) == \A i \in 1 .. Len(f.mods) :
  Readable(f.mods[i]) /\ RightKind(f.mods[i]) =>
    \A n \in Names : Defines(f.mods[i], n) => ~Wanted(n)
ArchiveExhausted ==
  [][\A f \in DOMAIN Content :
       (/\ pc \in {"scan", "loaded"} /\ pc' = "open"
        /\ f = filtab[fi].file /\ File.kind = "lib") => Exhausted(Content[f])']_vars1

(* What the segments, commons and the stack are given of the same output   *)
(* segment does not overlap and lies within its size.                      *)
PiecesDisjoint ==
  \A a \in 1 .. Len(placed) :
    LET p == placed[a] IN
    /\ p.off + p.len <= segtab[p.seg].siz
    /\ \A b \in 1 .. a - 1 : LET q == placed[b] IN
         q.seg = p.seg => q.off + q.len <= p.off \/ p.off + p.len <= q.off

(* Pass 1 resolves symbols as SymbolResolution says: in particular nothing *)
(* that comes later moves a definition.                                    *)
Resolution == INSTANCE SymbolResolution WITH
  Places <- Nat \X Nat,
  wanted <- {n \in DOMAIN symhash : symtab[symhash[n]].fl = UNX},
  place  <- [n \in {n \in DOMAIN symhash : symtab[symhash[n]].fl = GLB} |->
               <<symtab[symhash[n]].sg, symtab[symhash[n]].val>>]
ResolvesSymbols == Resolution!Spec
=============================================================================
