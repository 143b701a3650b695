------------------------------- MODULE Xcon -------------------------------
(***************************************************************************)
(* xcon (ld8k/xcon.c) after asz8k: two passes over the blocks of the       *)
(* object file turn it into an x.out file.  Pass 1 adds up the sizes and   *)
(* notes which symbol each external is; the interlude lays the file out;   *)
(* pass 2 writes text, relocation entries and symbols, each at an offset   *)
(* of its own.  An action handles one block.  The file maps each offset to *)
(* what was last written there: a byte of text, or one byte of an entry.   *)
(***************************************************************************)
EXTENDS Asz8k

VARIABLES
  xpc,         \* "asz8k", "pass", "interlude", "done" or "ferr"
  xpass2, objpt,          \* which pass, and the block that is read next
  segtab, nseg,           \* segtab[], by number, and header.x_nseg
  exttab, symct,          \* the symbol numbers of the externals
  header,                 \* magic, init, reloc and symb
  segoff, reloff, symoff, \* where the next text, relocation, symbol goes
  file

xvars == <<xpc, xpass2, objpt, segtab, nseg, exttab, symct, header, segoff, reloff, symoff, file>>
vars == <<asmvars, xvars>>
sizes == <<segtab, exttab, symct, header>>
offsets == <<segoff, reloff, symoff, file>>

XHSIZ == 16    \* the sizes of the structures of xout.h
SGSIZ == 4
RLSIZ == 6
SYSIZ == 12
W == 65536     \* lengths and addresses have 16 bits

Init ==
  /\ Init1
  /\ xpc = "asz8k" /\ xpass2 = FALSE /\ objpt = 1
  /\ segtab = [s \in 0 .. SECSIZ - 1 |-> [typ |-> IF s = 0 THEN "BSS" ELSE "UND", len |-> 0]]
  /\ nseg = 1 /\ exttab = <<>> /\ symct = 0
  /\ header = [seg |-> cmd.xs, exec |-> FALSE, init |-> 0, reloc |-> 0, symb |-> 0]
  /\ segoff = [s \in 0 .. SECSIZ - 1 |-> 0] /\ reloff = 0 /\ symoff = 0
  /\ file = [o \in {} |-> 0]

Type(name) == CASE name = "__text" -> "COD" [] name = "__con" -> "CON"
                [] name = "__data" -> "DAT" [] name = "__bss" -> "BSS" [] OTHER -> "UND"
InFile(s) == segtab[s].typ \notin {"BSS", "STK"}
firstseg == 1  \* segtab[0] is BSS

blk == out.blks[objpt]
Block1(typs) == xpc = "pass" /\ ~xpass2 /\ blk.typ \in typs
Block2(typs) == xpc = "pass" /\ xpass2 /\ blk.typ \in typs
NextBlock == objpt' = objpt + 1

Begin ==                        \* main(), and dopass() up to its loop
  /\ xpc = "asz8k" /\ apc = "ended" /\ errs = {}
  /\ xpc' = "pass" /\ objpt' = 2 /\ nseg' = 1
  /\ UNCHANGED <<asmvars, xpass2, sizes, offsets>>

(* Pass 1.                                                                 *)
Sections1 ==
  /\ Block1({"OBSEC"})
  /\ LET n == Len(blk.items) IN
     /\ segtab' = [s \in DOMAIN segtab |->
                     IF s - nseg + 1 \in 1 .. n /\ Type(blk.items[s - nseg + 1]) # "UND"
                     THEN [segtab[s] EXCEPT !.typ = Type(blk.items[s - nseg + 1])] ELSE segtab[s]]
     /\ nseg' = nseg + n /\ symct' = symct + n
     /\ header' = [header EXCEPT !.symb = @ + n * SYSIZ]
  /\ NextBlock /\ UNCHANGED <<asmvars, xpc, xpass2, exttab, offsets>>

Undefined(item) == item.sec = RBUND
Numbers(items, first) ==        \* of the undefined ones, the first item having number first
  FlattenSeq([i \in DOMAIN items |-> IF Undefined(items[i]) THEN <<first + i - 1>> ELSE <<>>])
Symbols1 ==
  /\ Block1({"OBGLO", "OBLOC"})
  /\ LET n == Len(blk.items) IN
     /\ exttab' = exttab \o Numbers(blk.items, symct)
     /\ symct' = symct + n
     /\ header' = [header EXCEPT !.symb = @ + n * SYSIZ]
  /\ NextBlock /\ UNCHANGED <<asmvars, xpc, xpass2, segtab, nseg, offsets>>

Longer(len, end) == IF end > len THEN end % W ELSE len
Adr == blk.adr % W
Text1 ==
  /\ Block1({"OBTXT"})
  /\ segtab' = [segtab EXCEPT ![blk.sec].len = Longer(@, Adr + Len(blk.txt))]
  /\ header' = [header EXCEPT
       !.reloc = @ + RLSIZ * Len(blk.rel),
       !.seg = @ \/ \E i \in DOMAIN blk.rel : blk.rel[i].act \in {"RAZLS", "RAZSS", "RAZOF"}]
  /\ NextBlock /\ UNCHANGED <<asmvars, xpc, xpass2, nseg, exttab, symct, offsets>>

Ignored == /\ xpc = "pass" /\ blk.typ = "OBTRA"
           /\ NextBlock /\ UNCHANGED <<asmvars, xpc, xpass2, nseg, sizes, offsets>>

EndPass1 ==
  /\ Block1({"OBOND"}) /\ xpc' = "interlude"
  /\ UNCHANGED <<asmvars, xpass2, objpt, nseg, sizes, offsets>>

(* The layout: the header, the descriptors, the segments that have a place *)
(* in the file, the relocation entries, the symbols.                       *)
Start == XHSIZ + (nseg - firstseg) * SGSIZ
PlaceAll(s) == segtab[s].len                \* mutant: BSS has a place too
Place(s) == IF InFile(s) THEN segtab[s].len ELSE 0
SumPlaces(n) ==
  LET sum[i \in 0 .. n] == IF i = 0 THEN 0 ELSE sum[i - 1] + Place(i - 1) IN sum[n]

Interpass ==                    \* interlude()
  /\ xpc = "interlude" /\ xpc' = "pass" /\ xpass2' = TRUE
  /\ header' = [header EXCEPT !.exec = exttab = <<>>, !.init = SumPlaces(nseg)]
  /\ segoff' = [s \in DOMAIN segtab |-> IF s < nseg THEN Start + SumPlaces(s) ELSE 0]
  /\ reloff' = Start + SumPlaces(nseg)
  /\ symoff' = Start + SumPlaces(nseg) + header.reloc
  /\ objpt' = 2 /\ nseg' = 1
  /\ UNCHANGED <<asmvars, segtab, exttab, symct, file>>

(* Pass 2.                                                                 *)
Put(f, off, size, entries) ==   \* f, overwritten from off on
  LET at == off .. off + size * Len(entries) - 1 IN
  [o \in at \cup DOMAIN f |->
     IF o \in at THEN [of |-> entries[(o - off) \div size + 1], byte |-> (o - off) % size] ELSE f[o]]

Sections2 ==
  /\ Block2({"OBSEC"})
  /\ LET n == Len(blk.items) IN
     /\ file' = Put(file, symoff, SYSIZ, [i \in 1 .. n |->
                  [name |-> blk.items[i], typ |-> "SEG", val |-> 0, sg |-> nseg + i - 1 - firstseg]])
     /\ symoff' = symoff + n * SYSIZ /\ nseg' = nseg + n
  /\ NextBlock /\ UNCHANGED <<asmvars, xpc, xpass2, sizes, segoff, reloff>>

Entry(item) ==                  \* outsym()
  [name |-> item.name,
   typ |-> IF item.sec = RBUND THEN "UNX" ELSE IF blk.typ = "OBGLO" THEN "GLB" ELSE "LOC",
   val |-> item.val % W,
   sg |-> IF item.sec \in {RBABS, RBUND} THEN 255 ELSE item.sec - firstseg]
Symbols2 ==
  /\ Block2({"OBGLO", "OBLOC"})
  /\ LET n == Len(blk.items) IN
     /\ file' = Put(file, symoff, SYSIZ, [i \in 1 .. n |-> Entry(blk.items[i])])
     /\ symoff' = symoff + n * SYSIZ
  /\ NextBlock /\ UNCHANGED <<asmvars, xpc, xpass2, nseg, sizes, segoff, reloff>>

(* outtxt() and outrel().  A relocation that has no type is fatal, when    *)
(* the text and the entries before it are already written.                 *)
RelType(r) ==
  CASE r.act \in {"RAA32M", "RAA16M", "RAZOF"} -> IF r.base < RBEXT THEN "OFF" ELSE "XOF"
    [] r.act = "RAZSS" -> IF r.base < RBEXT THEN "SSG" ELSE "XSSG"
    [] r.act = "RAZLS" -> IF r.base < RBEXT THEN "LSG" ELSE "XLSG"
RelLocHigh(r) == Adr + r.pos - 6        \* mutant: the high word of a long
RelLoc(r) == Adr + r.pos - 6 + (IF r.act = "RAA32M" THEN 2 ELSE 0)
RelEntry(r) ==
  [sgn |-> blk.sec - firstseg, flg |-> RelType(r), loc |-> RelLoc(r) % W,
   bas |-> IF r.base >= RBEXT THEN exttab[r.base - RBEXT + 1] ELSE r.base - firstseg]
Illegal == {i \in DOMAIN blk.rel : blk.rel[i].act = "RAA8"}

Text2 ==
  /\ Block2({"OBTXT"})
  /\ LET n == IF Illegal = {} THEN Len(blk.rel) ELSE Min(Illegal) - 1
         text == Put(file, segoff[blk.sec] + Adr, 1, [i \in DOMAIN blk.txt |-> [text |-> blk.txt[i]]])
     IN  /\ file' = Put(text, reloff, RLSIZ, [i \in 1 .. n |-> RelEntry(blk.rel[i])])
         /\ reloff' = reloff + n * RLSIZ
  /\ xpc' = IF Illegal = {} THEN "pass" ELSE "ferr"
  /\ NextBlock /\ UNCHANGED <<asmvars, xpass2, nseg, sizes, segoff, symoff>>

EndPass2 ==
  /\ Block2({"OBOND"}) /\ xpc' = "done"
  /\ UNCHANGED <<asmvars, xpass2, objpt, nseg, sizes, offsets>>

Convert == \/ Begin \/ Ignored \/ EndPass1 \/ Interpass \/ EndPass2
           \/ Sections1 \/ Symbols1 \/ Text1 \/ Sections2 \/ Symbols2 \/ Text2
Stopped ==                      \* after an error asz8k does not call xcon
  xpc \in {"done", "ferr"} \/ apc = "exit" \/ (xpc = "asz8k" /\ apc = "ended" /\ errs /= {})
Next == (Assemble /\ UNCHANGED xvars) \/ Convert \/ (Stopped /\ UNCHANGED vars)
Spec == Init /\ [][Next]_vars
-----------------------------------------------------------------------------
(* What should hold of the file, seen by a reader that knows it by its     *)
(* header and its segment descriptors only (ld8k, xdump).                  *)
Broken == [text |-> -1, name |-> NoName, sgn |-> -1, flg |-> "none", loc |-> -1, bas |-> -1]
ReadAt(off, size) ==
  IF \E e \in {file[o].of : o \in {off} \cap DOMAIN file} : \A o \in off .. off + size - 1 :
        o \in DOMAIN file /\ file[o] = [of |-> e, byte |-> o - off]
  THEN file[off].of ELSE Broken
SegmentsAt == XHSIZ + (nseg - 1) * SGSIZ
SegmentAt(s) ==
  LET at[t \in 1 .. s] ==
        IF t = 1 THEN SegmentsAt ELSE at[t - 1] + (IF InFile(t - 1) THEN segtab[t - 1].len ELSE 0)
  IN  at[s]
RelocsAt == SegmentsAt + header.init
SymbolsAt == RelocsAt + header.reloc

(* Precondition: no text in the absolute section or in __bss, neither of   *)
(* which has a place in the file, nor in a section that is not listed.     *)
Placed == \A i \in DOMAIN want : want[i].sec \in 1 .. nseg - 1 /\ InFile(want[i].sec)

(* A segment is as long as pass 2 came in its section, room reserved by    *)
(* .block, .align and .org at its end included (for __bss that is all that *)
(* the file says of it), and every byte asz8k emitted, unless a later one  *)
(* took its address, is in its segment where a reader looks for it.        *)
TextInPlace ==
  xpc = "done" =>
    /\ \A s \in 1 .. nseg - 1 : segtab[s].len = high[s]
    /\ Placed => \A i \in DOMAIN want :
      \/ \E j \in DOMAIN want : j > i /\ want[j].sec = want[i].sec /\ want[j].loc = want[i].loc
      \/ ReadAt(SegmentAt(want[i].sec) + want[i].loc, 1) = [text |-> want[i].val]

(* The relocation entries are those asz8k asked for, each with its place   *)
(* and with the segment or the very symbol that the source named, which it *)
(* finds by number, through xcon's count of the symbols.                   *)
Wanted(w) ==
  [seg |-> w.sec - 1, loc |-> w.loc + (IF w.rel.act = "RAA32M" THEN 2 ELSE 0),
   of |-> IF w.rel.base >= RBEXT THEN <<"symbol", w.rel.of>> ELSE <<"segment", w.rel.base - 1>>]
Seen(e) ==
  [seg |-> e.sgn, loc |-> e.loc,
   of |-> IF e.flg \in {"XOF", "XSSG", "XLSG"}
          THEN <<"symbol", ReadAt(SymbolsAt + e.bas * SYSIZ, SYSIZ).name>> ELSE <<"segment", e.bas>>]
Relocatable == {i \in DOMAIN want : want[i].rel # NoRel}
RelocationsNamed ==
  xpc = "done" /\ Placed =>
    /\ header.reloc = RLSIZ * Cardinality(Relocatable)
    /\ {Seen(ReadAt(RelocsAt + RLSIZ * (k - 1), RLSIZ)) : k \in 1 .. Cardinality(Relocatable)}
         = {Wanted(want[i]) : i \in Relocatable}

(* The same where no local symbol was still undefined after pass 1 (asz8k  *)
(* writes such a symbol without giving it an external's number) and no     *)
(* .equ or .set names an external (what it defines has the external's      *)
(* number, and its references go to the external).                         *)
NoLocalUndefined == \A i \in DOMAIN Items("OBLOC") : Items("OBLOC")[i].sec # RBUND
NamedDirectly ==
  \A s \in Range(cmd.src) : s.op \in {"equ", "set"} =>
    \A i \in DOMAIN Items("OBGLO") :
      Undefined(Items("OBGLO")[i]) => Items("OBGLO")[i].name \notin Syms(s.args[1])
GlobalsNamed == NoLocalUndefined /\ NamedDirectly => RelocationsNamed
=============================================================================
