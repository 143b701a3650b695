----------------------------- MODULE Ld8kProofs -----------------------------
(***************************************************************************)
(* The proofs about ld8k.  Pass 1 keeps its types, its symbol table stays  *)
(* consistent, and it resolves as the abstract linker does, for every set  *)
(* of files, every command line and every table size.  Pass 2 loads what   *)
(* pass 1 loaded: the positions that pass 1 leaves in filtab and postab    *)
(* lead p2read() to the same modules in the same order, for every link     *)
(* whose archives are all left at their end.                               *)
(***************************************************************************)
EXTENDS Ld8k, FiniteSetTheorems, SequenceTheorems, TLAPS

-----------------------------------------------------------------------------
(* Pass 1.                                                                 *)
(* The inductive invariant: the types alone are not inductive, because the *)
(* decrement of udefcnt is safe only when an undefined entry exists.       *)
IInv == TypeOK1 /\ HashExact /\ UdefcntExact

(* Mixing two segment types gives a segment type.                          *)
LEMMA NewTypType ==
  ASSUME NEW a \in Types, NEW b \in Types
  PROVE  NewTyp(a, b) \in Types
<1>1. a \in {0, 1, 2, 3, 4, 5, 6, 7} /\ b \in {0, 1, 2, 3, 4, 5, 6, 7}
  BY DEF Types, UND, MXP
<1>2. \A i \in 1 .. 8 : MixTyp[i] \in [1 .. 8 -> 0 .. 7]
  BY DEF MixTyp, UND, BSS, STK, COD, CON, DAT, MXU, MXP
<1> QED
  BY <1>1, <1>2 DEF NewTyp, Types, UND, MXP

(* Assigning an element of its set to a place of a sequence, or to none,    *)
(* keeps the type of the sequence.                                         *)
LEMMA SeqExcept ==
  ASSUME NEW S, NEW s \in Seq(S), NEW e \in S, NEW i
  PROVE  [s EXCEPT ![i] = e] \in Seq(S)
<1>1. CASE i \in 1 .. Len(s)
  BY <1>1, ExceptSeq
<1>2. CASE i \notin 1 .. Len(s)
  <2>1. s \in [1 .. Len(s) -> S]
    BY LenProperties
  <2>2. [s EXCEPT ![i] = e] = s
    BY <1>2, <2>1
  <2> QED
    BY <2>2
<1> QED
  BY <1>1, <1>2

(* Rounding up keeps a number natural.                                     *)
LEMMA RoundType ==
  ASSUME NEW x \in Nat
  PROVE  Round(x) \in Nat /\ Round(x) >= x
BY DEF Round

(* What is stored in a uint16_t fits it.                                   *)
LEMMA WrapType ==
  ASSUME NEW x \in Nat
  PROVE  x % W \in 0 .. W - 1 /\ 0 \in 0 .. W - 1
<1>1. W \in Nat \ {0}
  BY DEF W
<1>2. \A n \in Nat, w \in Nat \ {0} : n % w \in 0 .. w - 1
  OBVIOUS
<1> QED
  BY <1>1, <1>2

-----------------------------------------------------------------------------
(* The undefined entries of a symbol table, and how a step changes them.   *)
Undef(tab) == {i \in 1 .. Len(tab) : tab[i].fl = UNX}

(* They are finitely many.                                                 *)
LEMMA UndefFinite ==
  ASSUME NEW tab \in Seq(SymRecord)
  PROVE  IsFiniteSet(Undef(tab)) /\ Cardinality(Undef(tab)) \in Nat
<1>1. Len(tab) \in Nat
  OBVIOUS
<1>2. IsFiniteSet(1 .. Len(tab))
  BY <1>1, FS_Interval
<1>3. Undef(tab) \subseteq 1 .. Len(tab)
  BY DEF Undef
<1>4. IsFiniteSet(Undef(tab))
  BY <1>2, <1>3, FS_Subset
<1> QED
  BY <1>4, FS_CardinalityType

(* A new entry counts if it is undefined.                                  *)
LEMMA UndefAppend ==
  ASSUME NEW tab \in Seq(SymRecord), NEW s \in SymRecord
  PROVE  Cardinality(Undef(Append(tab, s)))
           = IF s.fl = UNX THEN Cardinality(Undef(tab)) + 1 ELSE Cardinality(Undef(tab))
<1>1. Len(Append(tab, s)) = Len(tab) + 1 /\ Append(tab, s)[Len(tab) + 1] = s
  OBVIOUS
<1>2. \A i \in 1 .. Len(tab) : Append(tab, s)[i] = tab[i]
  OBVIOUS
<1>3. Len(tab) \in Nat /\ Len(tab) + 1 \notin 1 .. Len(tab)
      /\ 1 .. Len(tab) + 1 = 1 .. Len(tab) \cup {Len(tab) + 1}
  OBVIOUS
<1>4. CASE s.fl = UNX
  <2>1. Undef(Append(tab, s)) = Undef(tab) \cup {Len(tab) + 1}
    BY <1>1, <1>2, <1>3, <1>4, Zenon DEF Undef
  <2>2. Len(tab) + 1 \notin Undef(tab)
    BY <1>3 DEF Undef
  <2>3. IsFiniteSet(Undef(tab))
    BY UndefFinite
  <2>4. Cardinality(Undef(tab) \cup {Len(tab) + 1}) = Cardinality(Undef(tab)) + 1
    BY <2>2, <2>3, FS_AddElement
  <2> QED
    BY <2>1, <2>4, <1>4
<1>5. CASE s.fl # UNX
  <2>1. Undef(Append(tab, s)) = Undef(tab)
    BY <1>1, <1>2, <1>3, <1>5, Zenon DEF Undef
  <2> QED
    BY <2>1, <1>5
<1> QED
  BY <1>4, <1>5

(* An entry that is replaced by a definition stops counting if it did.     *)
LEMMA UndefDefine ==
  ASSUME NEW tab \in Seq(SymRecord), NEW i \in 1 .. Len(tab), NEW s \in SymRecord,
         tab[i].fl = UNX, s.fl # UNX
  PROVE  /\ Cardinality(Undef([tab EXCEPT ![i] = s])) = Cardinality(Undef(tab)) - 1
         /\ Cardinality(Undef(tab)) \in Nat \ {0}
<1>1. /\ Len([tab EXCEPT ![i] = s]) = Len(tab) /\ [tab EXCEPT ![i] = s][i] = s
      /\ \A j \in 1 .. Len(tab) : j # i => [tab EXCEPT ![i] = s][j] = tab[j]
  OBVIOUS
<1>2. Undef([tab EXCEPT ![i] = s]) = Undef(tab) \ {i}
  BY <1>1 DEF Undef
<1>3. i \in Undef(tab)
  BY DEF Undef
<1>4. IsFiniteSet(Undef(tab)) /\ Cardinality(Undef(tab)) \in Nat
  BY UndefFinite
<1>5. Cardinality(Undef(tab) \ {i}) = Cardinality(Undef(tab)) - 1
  BY <1>3, <1>4, FS_RemoveElement
<1>6. Cardinality(Undef(tab)) # 0
  BY <1>3, <1>4, FS_EmptySet
<1> QED
  BY <1>2, <1>4, <1>5, <1>6

(* An entry that keeps its kind does not change the count.                 *)
LEMMA UndefSame ==
  ASSUME NEW tab \in Seq(SymRecord), NEW i \in 1 .. Len(tab), NEW s \in SymRecord,
         s.fl = tab[i].fl
  PROVE  Cardinality(Undef([tab EXCEPT ![i] = s])) = Cardinality(Undef(tab))
<1>1. /\ Len([tab EXCEPT ![i] = s]) = Len(tab) /\ [tab EXCEPT ![i] = s][i] = s
      /\ \A j \in 1 .. Len(tab) : j # i => [tab EXCEPT ![i] = s][j] = tab[j]
  OBVIOUS
<1>2. Undef([tab EXCEPT ![i] = s]) = Undef(tab)
  BY <1>1 DEF Undef
<1> QED
  BY <1>2
-----------------------------------------------------------------------------
(* The parts of the input.                                                 *)

(* The file a step of pass1() works on is one of Content.                  *)
LEMMA FileType ==
  ASSUME TypeOK1, fi <= Len(filtab)
  PROVE  /\ fi \in 1 .. Len(filtab) /\ filtab[fi].file \in DOMAIN Content
         /\ File.mods \in Seq(ModuleRecord) /\ File.at \in Seq(Nat)
         /\ Len(File.at) = Len(File.mods)
         /\ File.kind = "obj" => Len(File.mods) = 1
         /\ \A i \in 1 .. Len(File.mods) : LoadableOK(File.mods[i])
<1>1. filtab \in Seq([file : DOMAIN Content, posndx : Int]) /\ fi \in Nat \ {0}
  BY DEF TypeOK1, OptionType, ControlType
<1>2. fi \in 1 .. Len(filtab) /\ filtab[fi] \in [file : DOMAIN Content, posndx : Int]
  <2>1. fi \in 1 .. Len(filtab)
    BY <1>1, LenProperties
  <2> QED
    BY <1>1, <2>1, ElementOfSeq
<1>3. filtab[fi].file \in DOMAIN Content
  BY <1>2
<1> QED
  BY <1>2, <1>3, InputAssumption DEF File

(* An option of the command line has the operands of its kind.             *)
LEMMA CommandType ==
  ASSUME TypeOK1, pc = "pass0", k <= Len(cmd)
  PROVE  OptionOK(cmd[k])
<1>1. cmd \in Commands /\ k \in Nat /\ k >= 1
  BY DEF TypeOK1, ControlType, LoopType
<1>2. \A i \in 1 .. Len(cmd) : OptionOK(cmd[i])
  BY <1>1, InputAssumption
<1>3. k \in 1 .. Len(cmd)
  BY <1>1
<1> QED
  BY <1>2, <1>3

(* A step that leaves the symbol table and udefcnt alone keeps them        *)
(* consistent.                                                             *)
LEMMA SymUnchanged ==
  ASSUME HashExact, UdefcntExact, UNCHANGED symvars
  PROVE  HashExact' /\ UdefcntExact'
BY DEF HashExact, UdefcntExact, symvars, Found

(* A part of the state that a step leaves alone keeps its type.            *)
LEMMA TypeFrame ==
  ASSUME TypeOK1
  PROVE  /\ UNCHANGED optvars => OptionType'
         /\ UNCHANGED symvars => SymbolType'
         /\ UNCHANGED <<segtab, prelist>> => SegmentType'
         /\ UNCHANGED <<obj, segrel, map, symap, modmap, modsym>> => ModuleType'
<1>1. UNCHANGED optvars => OptionType'
  BY DEF TypeOK1, OptionType, optvars
<1>2. UNCHANGED symvars => SymbolType'
  BY DEF TypeOK1, SymbolType, symvars
<1>3. UNCHANGED <<segtab, prelist>> => SegmentType'
  BY DEF TypeOK1, SegmentType
<1>4. UNCHANGED <<obj, segrel, map, symap, modmap, modsym>> => ModuleType'
  BY DEF TypeOK1, ModuleType
<1> QED
  BY <1>1, <1>2, <1>3, <1>4
-----------------------------------------------------------------------------
(* The symbol table under the two ways it changes.                         *)

(* Installing a new entry: externals under symhash, segments under seghash *)
(* and locals under neither.                                               *)
Installs(s) ==
  /\ symtab' = Append(symtab, s)
  /\ symhash' = IF s.fl \in {UNX, GLB} THEN Extend(symhash, s.name, symlev) ELSE symhash
  /\ seghash' = IF s.fl = SEG THEN Extend(seghash, s.name, symlev) ELSE seghash
  /\ udefcnt' = CountNew(s)
LEMMA InstallExact ==
  ASSUME SymbolType, HashExact, UdefcntExact, NEW s \in SymRecord, Installs(s),
         s.fl \in {UNX, GLB} => ~Found(symhash, s.name),
         s.fl = SEG => ~Found(seghash, s.name)
  PROVE  SymbolType' /\ HashExact' /\ UdefcntExact'
<1>1. /\ symtab \in Seq(SymRecord) /\ Len(symtab) \in Nat /\ symlev = Len(symtab) + 1
      /\ udefcnt \in Nat /\ s.name \in Names /\ s.fl \in {LOC, UNX, GLB, SEG}
      /\ LOC = 1 /\ UNX = 2 /\ GLB = 3 /\ SEG = 4
  BY DEF SymbolType, symlev, SymRecord, LOC, UNX, GLB, SEG
<1>2. /\ symtab' = Append(symtab, s) /\ Len(symtab') = symlev /\ symtab'[symlev] = s
      /\ symtab' \in Seq(SymRecord)
      /\ \A i \in 1 .. Len(symtab) : symtab'[i] = symtab[i]
  BY <1>1 DEF Installs
<1>3. \A i \in 1 .. symlev : i \in 1 .. Len(symtab) \/ i = symlev
  BY <1>1
<1>4. SymbolType'
  <2>1. udefcnt' \in Nat
    BY <1>1 DEF Installs, CountNew
  <2>2. DOMAIN symhash' \subseteq Names /\ DOMAIN seghash' \subseteq Names
    BY <1>1 DEF Installs, Extend, SymbolType
  <2> QED
    BY <1>2, <2>1, <2>2 DEF SymbolType
<1>5. HashExact'
  <2>1. ASSUME NEW n \in DOMAIN symhash
        PROVE  /\ symhash'[n] = symhash[n] /\ n \in DOMAIN symhash'
               /\ symhash[n] \in 1 .. Len(symtab)
               /\ symtab[symhash[n]].fl \in {UNX, GLB} /\ symtab[symhash[n]].name = n
    BY <2>1 DEF Installs, Extend, HashExact, Found
  <2>2. ASSUME NEW n \in DOMAIN seghash
        PROVE  /\ seghash'[n] = seghash[n] /\ n \in DOMAIN seghash'
               /\ seghash[n] \in 1 .. Len(symtab)
               /\ symtab[seghash[n]].fl = SEG /\ symtab[seghash[n]].name = n
    BY <2>2 DEF Installs, Extend, HashExact, Found
  <2>3. s.fl \in {UNX, GLB} => s.name \in DOMAIN symhash' /\ symhash'[s.name] = symlev
    BY DEF Installs, Extend
  <2>4. s.fl = SEG => s.name \in DOMAIN seghash' /\ seghash'[s.name] = symlev
    BY DEF Installs, Extend
  <2>5. \A n \in DOMAIN symhash' : n \in DOMAIN symhash \/ (s.fl \in {UNX, GLB} /\ n = s.name)
    BY DEF Installs, Extend
  <2>6. \A n \in DOMAIN seghash' : n \in DOMAIN seghash \/ (s.fl = SEG /\ n = s.name)
    BY DEF Installs, Extend
  <2>7. ASSUME NEW i \in 1 .. Len(symtab')
        PROVE  /\ symtab'[i].fl \in {UNX, GLB} =>
                    symtab'[i].name \in DOMAIN symhash' /\ symhash'[symtab'[i].name] = i
               /\ symtab'[i].fl = SEG =>
                    symtab'[i].name \in DOMAIN seghash' /\ seghash'[symtab'[i].name] = i
    <3>1. CASE i = symlev
      BY <3>1, <1>2, <2>3, <2>4
    <3>2. CASE i \in 1 .. Len(symtab)
      BY <3>2, <1>2, <2>1, <2>2 DEF HashExact, Found
    <3> QED
      BY <1>2, <1>3, <3>1, <3>2
  <2>8. ASSUME NEW n \in DOMAIN symhash'
        PROVE  /\ symhash'[n] \in 1 .. Len(symtab')
               /\ symtab'[symhash'[n]].fl \in {UNX, GLB} /\ symtab'[symhash'[n]].name = n
    BY <1>1, <1>2, <2>1, <2>3, <2>5
  <2>9. ASSUME NEW n \in DOMAIN seghash'
        PROVE  /\ seghash'[n] \in 1 .. Len(symtab')
               /\ symtab'[seghash'[n]].fl = SEG /\ symtab'[seghash'[n]].name = n
    BY <1>1, <1>2, <2>2, <2>4, <2>6
  <2> QED
    BY <2>7, <2>8, <2>9 DEF HashExact, Found
<1>6. UdefcntExact'
  BY <1>1, <1>2, UndefAppend, UndefFinite DEF UdefcntExact, Undef, Installs, CountNew
<1> QED
  BY <1>4, <1>5, <1>6

(* Replacing entry i by an entry of the same name in the same table.       *)
LEMMA ReplaceExact ==
  ASSUME SymbolType, HashExact, UdefcntExact,
         NEW i \in 1 .. Len(symtab), NEW s \in SymRecord,
         symtab' = [symtab EXCEPT ![i] = s], UNCHANGED <<symhash, seghash>>,
         s.name = symtab[i].name,
         \/ s.fl = symtab[i].fl /\ udefcnt' = udefcnt
         \/ symtab[i].fl = UNX /\ s.fl = GLB /\ udefcnt' = udefcnt - 1
  PROVE  SymbolType' /\ HashExact' /\ UdefcntExact'
<1>1. symtab \in Seq(SymRecord) /\ udefcnt \in Nat
  BY DEF SymbolType
<1>2. /\ Len(symtab') = Len(symtab) /\ symtab' \in Seq(SymRecord) /\ symtab'[i] = s
      /\ \A j \in 1 .. Len(symtab) : j # i => symtab'[j] = symtab[j]
  BY <1>1, ExceptSeq
<1>3. \A j \in 1 .. Len(symtab) :
        /\ symtab'[j].name = symtab[j].name
        /\ symtab'[j].fl \in {UNX, GLB} <=> symtab[j].fl \in {UNX, GLB}
        /\ symtab'[j].fl = SEG <=> symtab[j].fl = SEG
  BY <1>2 DEF UNX, GLB, SEG
<1>4. HashExact'
  BY <1>2, <1>3 DEF HashExact, Found
<1>5. CASE s.fl = symtab[i].fl /\ udefcnt' = udefcnt
  BY <1>1, <1>2, <1>4, <1>5, UndefSame DEF SymbolType, UdefcntExact, Undef
<1>6. CASE symtab[i].fl = UNX /\ s.fl = GLB /\ udefcnt' = udefcnt - 1
  <2>1. s.fl # UNX
    BY <1>6 DEF UNX, GLB
  <2>2. /\ Cardinality(Undef(symtab')) = Cardinality(Undef(symtab)) - 1
        /\ Cardinality(Undef(symtab)) \in Nat \ {0}
    BY <1>1, <1>6, <2>1, UndefDefine
  <2>3. udefcnt = Cardinality(Undef(symtab))
    BY DEF UdefcntExact, Undef
  <2>4. udefcnt' \in Nat /\ udefcnt' = Cardinality(Undef(symtab'))
    BY <1>6, <2>2, <2>3
  <2> QED
    BY <1>2, <1>4, <2>4 DEF SymbolType, UdefcntExact, Undef
<1> QED
  BY <1>5, <1>6, <1>4
-----------------------------------------------------------------------------
(* Every initial state satisfies the invariant.                            *)
LEMMA InitIInv == Init1 => IInv
<1> SUFFICES ASSUME Init1 PROVE IInv
  OBVIOUS
<1>1. TypeOK1
  <2>1. ControlType
    <3>1. cmd \in Commands
      BY DEF Init1
    <3>2. segmode \in {"?", "seg", "nonseg"}
      BY DEF Init1
    <3>3. postab \in Seq(Nat)
      BY DEF Init1
    <3>4. changed \in BOOLEAN
      BY DEF Init1
    <3>5. pc = "pass0" /\ k = 1 /\ mi = 0 /\ fi = 1 /\ errcnt = 0
      BY DEF Init1
    <3> QED
      BY <3>1, <3>2, <3>3, <3>4, <3>5 DEF ControlType
  <2>6. LoopType
    BY DEF Init1, LoopType
  <2>5. OptionType
    BY DEF Init1, OptionType
  <2>4. SymbolType
    BY DEF Init1, SymbolType
  <2>2. SegmentType
    BY DEF Init1, SegmentType, SegRecord, Types, UND, MXP
  <2>3. ModuleType
    BY LimitsAssumption DEF Init1, ModuleType, LoadableOK, NoObj, ModuleRecord
  <2> QED
    BY <2>1, <2>2, <2>3, <2>4, <2>5, <2>6 DEF TypeOK1
<1>2. HashExact
  BY DEF Init1, HashExact, Found
<1>3. UdefcntExact
  <2>1. {i \in 1 .. Len(symtab) : symtab[i].fl = UNX} = {}
    BY DEF Init1
  <2> QED
    BY <2>1, FS_EmptySet DEF UdefcntExact, Init1
<1> QED
  BY <1>1, <1>2, <1>3 DEF IInv

(* dodset() keeps the types of the segment table.                          *)
LEMMA DodsetType ==
  ASSUME SegmentType, NEW i \in SegNos, NEW t \in Types, NEW u \in Types, Dodset(i, t, u)
  PROVE  SegmentType'
<1>1. segtab[i].typ \in Types
  BY DEF SegmentType, SegRecord
<1>2. \A x, y \in Types : NewTyp(x, y) \in Types
  BY NewTypType
<1>3. segtab' \in [SegNos -> SegRecord]
  <2>1. PICK x \in Types : segtab' = [segtab EXCEPT ![i].alloc = TRUE, ![i].typ = x]
    BY <1>1, <1>2 DEF Dodset
  <2> QED
    BY <2>1 DEF SegmentType, SegRecord
<1>4. prelist' \in Seq(SegNos)
  BY DEF Dodset, SegmentType
<1> QED
  BY <1>3, <1>4 DEF SegmentType

(* The options of the command line keep the invariant.                     *)
LEMMA Pass0Step == IInv /\ Pass0 => IInv'
<1> SUFFICES ASSUME IInv, Pass0 PROVE IInv'
  OBVIOUS
<1>0. TypeOK1 /\ SymbolType /\ HashExact /\ UdefcntExact
  BY DEF IInv, TypeOK1
<1>1. CASE OptFlag
  <2>1. ControlType' /\ LoopType' /\ OptionType'
    BY <1>0, <1>1 DEF OptFlag, Option, TypeOK1, ControlType, LoopType, OptionType, modno, modvars
  <2> QED
    BY <1>0, <1>1, <2>1, TypeFrame, SymUnchanged DEF IInv, OptFlag, TypeOK1, segvars, modvars
<1>2. CASE OptStack
  <2>1. ControlType' /\ LoopType' /\ OptionType'
    BY <1>0, <1>2, CommandType DEF OptStack, Option, OptionOK, Err, Round, TypeOK1, ControlType, LoopType, OptionType, modno, modvars
  <2> QED
    BY <1>0, <1>2, <2>1, TypeFrame, SymUnchanged DEF IInv, OptStack, TypeOK1, segvars, modvars
<1>3. CASE OptTypes
  <2>1. ControlType' /\ LoopType'
    BY <1>0, <1>3 DEF OptTypes, Option, TypeOK1, ControlType, LoopType, modno, optvars, modvars
  <2>2. SegmentType'
    <3> DEFINE t(j) == IF j < 4
                         THEN [segtab[j] EXCEPT !.typ = <<COD, CON, DAT, BSS>>[j + 1]]
                         ELSE segtab[j]
    <3>1. segtab' = [j \in SegNos |-> t(j)] /\ prelist' = prelist
      BY <1>3 DEF OptTypes
    <3>2. segtab \in [SegNos -> SegRecord] /\ prelist \in Seq(SegNos)
      BY <1>0 DEF TypeOK1, SegmentType
    <3>3. \A j \in SegNos : t(j) \in SegRecord
      <4>1. TAKE j \in SegNos
      <4>2. segtab[j] \in SegRecord
        BY <3>2
      <4>3. CASE j < 4
        <5>1. j \in {0, 1, 2, 3}
          BY <4>3, LimitsAssumption DEF SegNos
        <5>2. <<COD, CON, DAT, BSS>>[j + 1] \in Types
          BY <5>1 DEF Types, COD, CON, DAT, BSS, UND, MXP
        <5> QED
          BY <4>2, <4>3, <5>2 DEF SegRecord
      <4>4. CASE ~(j < 4)
        BY <4>2, <4>4
      <4> QED
        BY <4>3, <4>4
    <3> HIDE DEF t
    <3>4. segtab' \in [SegNos -> SegRecord]
      BY <3>1, <3>3
    <3> QED
      BY <3>1, <3>2, <3>4 DEF SegmentType
  <2>3. UNCHANGED optvars /\ UNCHANGED symvars
    BY <1>3 DEF OptTypes
  <2>4. UNCHANGED <<obj, segrel, map, symap, modmap, modsym>>
    BY <1>3 DEF OptTypes, modvars
  <2>5. OptionType' /\ SymbolType' /\ ModuleType'
    BY <1>0, <2>3, <2>4, TypeFrame
  <2>6. HashExact' /\ UdefcntExact'
    BY <1>0, <2>3, SymUnchanged
  <2> QED
    BY <2>1, <2>2, <2>5, <2>6 DEF IInv, TypeOK1
<1>4. CASE OptFile
  <2>1. cmd[k].file \in DOMAIN Content
    BY <1>0, <1>4, CommandType DEF OptFile, Option, OptionOK
  <2>2. OptionType'
    <3>1. CASE filtab' = Append(filtab, [file |-> cmd[k].file, posndx |-> 0])
      BY <1>0, <1>4, <2>1, <3>1 DEF OptFile, TypeOK1, OptionType
    <3>2. CASE UNCHANGED filtab
      BY <1>0, <1>4, <3>2 DEF OptFile, TypeOK1, OptionType
    <3> QED
      BY <1>4, <3>1, <3>2 DEF OptFile
  <2>3. ControlType' /\ LoopType'
    BY <1>0, <1>4 DEF OptFile, Option, Fatal, TypeOK1, ControlType, LoopType, modno, modvars
  <2> QED
    BY <1>0, <1>4, <2>2, <2>3, TypeFrame, SymUnchanged DEF IInv, OptFile, TypeOK1, segvars, modvars
<1>5. CASE OptUndef
  <2>0. cmd[k].name \in Names
    BY <1>0, <1>5, CommandType DEF OptUndef, Option, OptionOK
  <2>1. SymbolType' /\ HashExact' /\ UdefcntExact'
    <3>1. CASE UNCHANGED symvars
      BY <1>0, <3>1, TypeFrame, SymUnchanged
    <3>2. CASE ~UNCHANGED symvars
      <4> DEFINE s == Symbol(UNX, cmd[k].name, UNSET, 0)
      <4>1. /\ s \in SymRecord /\ s.fl = UNX /\ s.name = cmd[k].name
            /\ UNX \notin {LOC, GLB, SEG}
        BY <2>0, WrapType DEF Symbol, SymRecord, UNX, UNSET, LOC, GLB, SEG
      <4>2. /\ symtab' = Append(symtab, s) /\ symhash' = Extend(symhash, cmd[k].name, symlev)
            /\ udefcnt' = udefcnt + 1 /\ UNCHANGED seghash
            /\ ~Found(symhash, cmd[k].name)
        BY <1>5, <3>2 DEF OptUndef
      <4> HIDE DEF s
      <4>3. Installs(s)
        BY <4>1, <4>2 DEF Installs, CountNew
      <4> QED
        BY <1>0, <4>1, <4>2, <4>3, InstallExact
    <3> QED
      BY <3>1, <3>2
  <2>2. ControlType' /\ LoopType'
    BY <1>0, <1>5 DEF OptUndef, Option, Fatal, TypeOK1, ControlType, LoopType, modno, modvars, optvars
  <2> QED
    BY <1>0, <1>5, <2>1, <2>2, TypeFrame, SymUnchanged DEF IInv, OptUndef, TypeOK1, segvars, modvars
<1>6. CASE OptDescr
  <2>1. cmd[k].seg \in SegNos /\ cmd[k].typ \in Types
    BY <1>0, <1>6, CommandType DEF OptDescr, Option, OptionOK
  <2>2. SegmentType'
    BY <1>0, <1>6, <2>1, DodsetType DEF OptDescr, TypeOK1, Types, UND, MXP
  <2>3. ControlType' /\ LoopType'
    BY <1>0, <1>6 DEF OptDescr, Option, TypeOK1, ControlType, LoopType, modno, modvars, optvars
  <2> QED
    BY <1>0, <1>6, <2>2, <2>3, TypeFrame, SymUnchanged DEF IInv, OptDescr, TypeOK1, segvars, modvars
<1>7. CASE OptNamed
  <2>1. cmd[k].seg \in SegNos /\ cmd[k].typ \in Types /\ cmd[k].name \in Names
    BY <1>0, <1>7, CommandType DEF OptNamed, Option, OptionOK
  <2>2. SegmentType'
    <3>1. SegNameTyp[cmd[k].name] \in Types
      BY <2>1, InputAssumption
    <3> QED
      BY <1>0, <1>7, <2>1, <3>1, DodsetType DEF OptNamed, TypeOK1, Types, UND, MXP
  <2>3. ControlType' /\ LoopType'
    BY <1>0, <1>7 DEF OptNamed, Option, Fatal, Err, TypeOK1, ControlType, LoopType, modno, modvars, optvars
  <2>4. SymbolType' /\ HashExact' /\ UdefcntExact'
    <3>1. CASE UNCHANGED symvars
      BY <1>0, <3>1, TypeFrame, SymUnchanged
    <3>2. CASE /\ Found(seghash, cmd[k].name) /\ UNCHANGED <<symhash, seghash, udefcnt>>
               /\ symtab' = [symtab EXCEPT ![seghash[cmd[k].name]].sg = cmd[k].seg]
      <4>1. seghash[cmd[k].name] \in 1 .. Len(symtab)
        BY <1>0, <3>2 DEF HashExact, Found
      <4>2. symtab \in Seq(SymRecord) /\ cmd[k].seg \in Nat
        BY <1>0, <2>1, LimitsAssumption DEF SymbolType, SegNos
      <4>3. symtab[seghash[cmd[k].name]] \in SymRecord
        BY <4>1, <4>2, ElementOfSeq
      <4> DEFINE s == [symtab[seghash[cmd[k].name]] EXCEPT !.sg = cmd[k].seg]
      <4>4. /\ s \in SymRecord /\ s.name = symtab[seghash[cmd[k].name]].name
            /\ s.fl = symtab[seghash[cmd[k].name]].fl
        BY <4>2, <4>3 DEF SymRecord
      <4>5. symtab' = [symtab EXCEPT ![seghash[cmd[k].name]] = s]
        BY <3>2, <4>1, <4>2
      <4> HIDE DEF s
      <4> QED
        BY <1>0, <3>2, <4>1, <4>4, <4>5, ReplaceExact
    <3>3. CASE /\ symtab' = Append(symtab, Symbol(SEG, cmd[k].name, cmd[k].seg, 0))
               /\ seghash' = Extend(seghash, cmd[k].name, symlev)
               /\ ~Found(seghash, cmd[k].name)
               /\ UNCHANGED <<symhash, udefcnt>>
      <4> DEFINE s == Symbol(SEG, cmd[k].name, cmd[k].seg, 0)
      <4>1. /\ s \in SymRecord /\ s.fl = SEG /\ s.name = cmd[k].name
            /\ SEG \notin {LOC, GLB, UNX}
        BY <2>1, LimitsAssumption, WrapType DEF Symbol, SymRecord, UNX, LOC, GLB, SEG, SegNos
      <4>2. Installs(s)
        BY <3>3, <4>1 DEF Installs, CountNew
      <4> HIDE DEF s
      <4> QED
        BY <1>0, <3>3, <4>1, <4>2, InstallExact
    <3> QED
      BY <1>7, <3>1, <3>2, <3>3 DEF OptNamed, symvars
  <2> QED
    BY <1>0, <1>7, <2>2, <2>3, <2>4, TypeFrame, SymUnchanged DEF IInv, OptNamed, TypeOK1, segvars, modvars
<1>8. CASE EndPass0
  <2>1. ControlType' /\ LoopType'
    BY <1>0, <1>8 DEF EndPass0, TypeOK1, ControlType, LoopType, modno, optvars, modvars
  <2> QED
    BY <1>0, <1>8, <2>1, TypeFrame, SymUnchanged DEF IInv, EndPass0, TypeOK1, segvars, modvars
<1> QED
  BY <1>1, <1>2, <1>3, <1>4, <1>5, <1>6, <1>7, <1>8 DEF Pass0
-----------------------------------------------------------------------------
(* The loops over the files and over the members of an archive keep the    *)
(* types.                                                                  *)
ScanStep == \/ OpenFails \/ OpenObject \/ SkipArchive \/ OpenArchive \/ ScanMember
            \/ EndScan \/ Loaded \/ EndFiles

LEMMA ScanType == TypeOK1 /\ ScanStep => TypeOK1'
<1> SUFFICES ASSUME TypeOK1, ScanStep PROVE TypeOK1'
  OBVIOUS
<1>0. TypeOK1
  BY DEF IInv
<1>1. CASE OpenFails
  <2>1. ControlType' /\ LoopType'
    BY <1>0, <1>1 DEF OpenFails, NextFile, Err, TypeOK1, ControlType, LoopType
  <2> QED
    BY <1>0, <1>1, <2>1, TypeFrame DEF OpenFails, TypeOK1, segvars, modvars
<1>2. CASE OpenObject
  <2>1. fi \in 1 .. Len(filtab) /\ LoadableOK(File.mods[1])
    BY <1>0, <1>2, FileType DEF OpenObject
  <2>2. OptionType' /\ Len(filtab') = Len(filtab)
    <3>1. filtab \in Seq([file : DOMAIN Content, posndx : Int])
      BY <1>0 DEF TypeOK1, OptionType
    <3>2. [filtab[fi] EXCEPT !.posndx = -1] \in [file : DOMAIN Content, posndx : Int]
      <4>1. filtab[fi] \in [file : DOMAIN Content, posndx : Int]
        BY <2>1, <3>1, ElementOfSeq
      <4> QED
        BY <4>1
    <3>3. /\ [filtab EXCEPT ![fi].posndx = -1] \in Seq([file : DOMAIN Content, posndx : Int])
          /\ Len([filtab EXCEPT ![fi].posndx = -1]) = Len(filtab)
      BY <2>1, <3>1, <3>2
    <3> QED
      BY <1>0, <1>2, <3>1, <3>3 DEF OpenObject, TypeOK1, OptionType
  <2>3. ModuleType'
    BY <1>0, <1>2, <2>1 DEF OpenObject, TypeOK1, ModuleType
  <2>4. ControlType' /\ LoopType'
    BY <1>0, <1>2, <2>1, <2>2 DEF OpenObject, Fatal, TypeOK1, ControlType, LoopType
  <2> QED
    BY <1>0, <1>2, <2>2, <2>3, <2>4, TypeFrame DEF OpenObject, TypeOK1, segvars
<1>3. CASE SkipArchive
  <2>1. ControlType' /\ LoopType'
    BY <1>0, <1>3 DEF SkipArchive, NextFile, TypeOK1, ControlType, LoopType
  <2> QED
    BY <1>0, <1>3, <2>1, TypeFrame DEF SkipArchive, TypeOK1, segvars, modvars
<1>4. CASE OpenArchive
  <2>1. changed' \in BOOLEAN
    BY <1>4 DEF OpenArchive
  <2>2. ControlType' /\ LoopType'
    BY <1>0, <1>4, <2>1 DEF OpenArchive, TypeOK1, ControlType, LoopType, optvars
  <2> QED
    BY <1>0, <1>4, <2>2, TypeFrame DEF OpenArchive, TypeOK1, segvars, modvars
<1>6. CASE EndScan
  <2>1. changed' \in BOOLEAN
    BY <1>0, <1>6 DEF EndScan, TypeOK1, ControlType
  <2>2. postab' \in Seq(Nat)
    <3>1. postab \in Seq(Nat)
      BY <1>0 DEF TypeOK1, ControlType
    <3>2. postab' = postab \/ postab' = Append(postab, 0)
      BY <1>6 DEF EndScan, Closed
    <3> QED
      BY <3>1, <3>2
  <2>3. ControlType' /\ LoopType'
    BY <1>0, <1>6, <2>1, <2>2 DEF EndScan, NextFile, TypeOK1, ControlType, LoopType, optvars
  <2> QED
    BY <1>0, <1>6, <2>3, TypeFrame DEF EndScan, TypeOK1, segvars, modvars
<1>7. CASE Loaded
  <2>1. changed' \in BOOLEAN
    BY <1>7 DEF Loaded
  <2>2. ControlType' /\ LoopType'
    BY <1>0, <1>7, <2>1 DEF Loaded, NextFile, TypeOK1, ControlType, LoopType, optvars
  <2> QED
    BY <1>0, <1>7, <2>2, TypeFrame DEF Loaded, TypeOK1, segvars, modvars
<1>8. CASE EndFiles
  <2>1. ControlType' /\ LoopType'
    BY <1>0, <1>8 DEF EndFiles, TypeOK1, ControlType, LoopType
  <2> QED
    BY <1>0, <1>8, <2>1, TypeFrame DEF EndFiles, TypeOK1, segvars, modvars
<1>5. CASE ScanMember
  <2>1. mi \in 1 .. Len(File.mods) /\ fi <= Len(filtab)
    BY <1>0, <1>5 DEF ScanMember, TypeOK1, ControlType, LoopType
  <2>2. fi \in 1 .. Len(filtab) /\ LoadableOK(File.mods[mi]) /\ File.at[mi] \in Nat
    BY <1>0, <2>1, FileType
  <2>3. OptionType' /\ Len(filtab') = Len(filtab)
    <3>1. filtab \in Seq([file : DOMAIN Content, posndx : Int])
      BY <1>0 DEF TypeOK1, OptionType
    <3>2. Len(postab) \in Nat
      BY <1>0 DEF TypeOK1, ControlType
    <3>3. [filtab[fi] EXCEPT !.posndx = Len(postab) + 1] \in [file : DOMAIN Content, posndx : Int]
      <4>1. filtab[fi] \in [file : DOMAIN Content, posndx : Int]
        BY <2>2, <3>1, ElementOfSeq
      <4> QED
        BY <3>2, <4>1
    <3>4. LET new == [filtab EXCEPT ![fi].posndx = Len(postab) + 1] IN
          new \in Seq([file : DOMAIN Content, posndx : Int]) /\ Len(new) = Len(filtab)
      BY <2>2, <3>1, <3>3
    <3> QED
      BY <1>0, <1>5, <3>1, <3>4 DEF ScanMember, TypeOK1, OptionType
  <2>4. ModuleType'
    BY <1>0, <1>5, <2>2 DEF ScanMember, TypeOK1, ModuleType
  <2>5. postab' \in Seq(Nat)
    <3>1. postab \in Seq(Nat)
      BY <1>0 DEF TypeOK1, ControlType
    <3>2. postab' = postab \/ postab' = Append(postab, File.at[mi])
      BY <1>5 DEF ScanMember
    <3> QED
      BY <2>2, <3>1, <3>2
  <2>6. ControlType' /\ LoopType'
    BY <1>0, <1>5, <2>1, <2>3, <2>5 DEF ScanMember, Fatal, Err, TypeOK1, ControlType, LoopType
  <2> QED
    BY <1>0, <1>5, <2>3, <2>4, <2>6, TypeFrame DEF ScanMember, TypeOK1, segvars
<1> QED
  BY <1>1, <1>2, <1>3, <1>4, <1>5, <1>6, <1>7, <1>8 DEF ScanStep
-----------------------------------------------------------------------------
(* The segments of a module keep the types.                                *)
SegmentStep == Reject \/ StartModule \/ DoSegment \/ EndSegments

LEMMA SegmentStepType == IInv /\ SegmentStep => TypeOK1'
<1> SUFFICES ASSUME IInv, SegmentStep PROVE TypeOK1'
  OBVIOUS
<1>0. TypeOK1
  BY DEF IInv
<1>1. CASE Reject
  <2>1. segmode' \in {"?", "seg", "nonseg"}
    <3>1. obj.magic \in {"seg", "nonseg", "bad"}
      BY <1>0 DEF TypeOK1, ModuleType, LoadableOK, ModuleRecord
    <3> QED
      BY <1>0, <1>1, <3>1 DEF Reject, TypeOK1, ControlType
  <2>2. ControlType' /\ LoopType'
    BY <1>0, <1>1, <2>1 DEF Reject, Err, TypeOK1, ControlType, LoopType, optvars
  <2> QED
    BY <1>0, <1>1, <2>2, TypeFrame DEF Reject, TypeOK1, segvars, modvars
<1>2. CASE StartModule
  <2>0. obj \in ModuleRecord
    BY <1>0 DEF TypeOK1, ModuleType, LoadableOK
  <2>1. segmode' \in {"?", "seg", "nonseg"}
    BY <1>2, <2>0 DEF StartModule, ModuleRecord
  <2>2. ModuleType'
    <3>1. mapx \in Nat /\ Len(symap) \in Nat /\ map \in Seq(Nat)
          /\ modmap \in Seq(Nat) /\ modsym \in Seq(Nat)
      BY <1>0 DEF TypeOK1, ModuleType, mapx
    <3>2. modmap' \in Seq(Nat) /\ modsym' \in Seq(Nat)
      <4>1. /\ modmap' = modmap \/ modmap' = Append(modmap, mapx)
            /\ modsym' = modsym \/ modsym' = Append(modsym, Len(symap))
        BY <1>2 DEF StartModule
      <4>2. Append(modmap, mapx) \in Seq(Nat) /\ Append(modsym, Len(symap)) \in Seq(Nat)
        BY <3>1, AppendProperties
      <4> QED
        BY <3>1, <4>1, <4>2
    <3>3. map' \in Seq(Nat)
      <4> DEFINE e(i) == IF NamedSeg(obj, i - 1) = {} THEN UNSET
                         ELSE symtab[seghash[CHOOSE n \in NamedSeg(obj, i - 1) : TRUE]].sg
      <4>1. \A i \in 1 .. Len(obj.segs) : e(i) \in Nat
        <5>1. TAKE i \in 1 .. Len(obj.segs)
        <5>2. CASE NamedSeg(obj, i - 1) # {}
          <6>1. PICK n \in NamedSeg(obj, i - 1) :
                  n = CHOOSE x \in NamedSeg(obj, i - 1) : TRUE
            BY <5>2
          <6>2. seghash[n] \in 1 .. Len(symtab)
            BY <6>1, Zenon DEF NamedSeg, Found, IInv, HashExact
          <6>3. symtab[seghash[n]] \in SymRecord
            BY <1>0, <6>2, ElementOfSeq DEF TypeOK1, SymbolType
          <6>4. e(i) = symtab[seghash[n]].sg
            BY <5>2, <6>1
          <6> QED
            BY <6>3, <6>4 DEF SymRecord
        <5>3. CASE NamedSeg(obj, i - 1) = {}
          BY <5>3 DEF UNSET
        <5> QED
          BY <5>2, <5>3
      <4>2. Len(obj.segs) \in Nat
        BY <2>0 DEF ModuleRecord
      <4> HIDE DEF e
      <4>3. [i \in 1 .. Len(obj.segs) |-> e(i)] \in Seq(Nat)
        BY <4>1, <4>2
      <4>4. map' = map \/ map' = map \o [i \in 1 .. Len(obj.segs) |-> e(i)]
        BY <1>2 DEF StartModule, e
      <4> QED
        BY <3>1, <4>3, <4>4, ConcatProperties
    <3> QED
      BY <1>0, <1>2, <3>2, <3>3 DEF StartModule, TypeOK1, ModuleType
  <2>3. k' \in Nat /\ pc' \in {"seg", "fatal"} /\ (pc' = "seg" => modno' >= 1)
    <3>1. k \in Nat /\ modmap \in Seq(Nat) /\ mapx \in Nat
      BY <1>0 DEF TypeOK1, ControlType, ModuleType, mapx
    <3>2. \/ pc' = "fatal" /\ k' = k
          \/ pc' = "seg" /\ k' = 0 /\ modmap' = Append(modmap, mapx)
      BY <1>2 DEF StartModule, Fatal
    <3>3. CASE pc' = "fatal" /\ k' = k
      BY <3>1, <3>3
    <3>4. CASE pc' = "seg" /\ k' = 0 /\ modmap' = Append(modmap, mapx)
      <4>1. Len(modmap') >= 1
        BY <3>1, <3>4, AppendProperties
      <4> QED
        BY <3>4, <4>1 DEF modno
    <3> QED
      BY <3>2, <3>3, <3>4
  <2>4. ControlType' /\ LoopType'
    BY <1>0, <1>2, <2>1, <2>3 DEF StartModule, TypeOK1, ControlType, LoopType, optvars
  <2>5. UNCHANGED optvars /\ UNCHANGED symvars /\ UNCHANGED <<segtab, prelist>>
    BY <1>2 DEF StartModule, segvars
  <2>6. OptionType' /\ SymbolType' /\ SegmentType'
    BY <1>0, <2>5, TypeFrame
  <2> QED
    BY <2>2, <2>4, <2>6 DEF TypeOK1
<1>3. CASE DoSegment
  <2>0. k \in Nat /\ k + 1 \in 1 .. Len(obj.segs) /\ obj.segs[k + 1] \in SgRecord
    <3>1. k \in Nat /\ k < Len(obj.segs) /\ obj.segs \in Seq(SgRecord)
      BY <1>0, <1>3 DEF DoSegment, TypeOK1, ControlType, ModuleType, LoadableOK, ModuleRecord
    <3>2. k + 1 \in 1 .. Len(obj.segs)
      BY <3>1
    <3> QED
      BY <3>1, <3>2, ElementOfSeq
  <2>1. CASE Fatal /\ UNCHANGED <<segtab, map, segrel, placed, errcnt, k>>
    <3>1. ControlType' /\ LoopType'
      BY <1>0, <1>3, <2>1 DEF DoSegment, Fatal, TypeOK1, ControlType, LoopType
    <3> QED
      BY <1>0, <1>3, <2>1, <3>1, TypeFrame DEF DoSegment, TypeOK1
  <2>2. CASE UNCHANGED pc /\ \E j \in SegNos : PlaceSegment(j)
    <3>1. PICK j \in SegNos : PlaceSegment(j)
      BY <2>2
    <3>2. segtab[j] \in SegRecord /\ segtab[j].typ \in Types /\ segtab[j].siz \in Nat
          /\ obj.segs[k + 1].typ \in Types /\ obj.segs[k + 1].len \in Nat
      <4>1. segtab[j] \in SegRecord
        BY <1>0 DEF TypeOK1, SegmentType
      <4>2. segtab[j].typ \in Types /\ segtab[j].siz \in Nat
        BY <4>1 DEF SegRecord
      <4>3. obj.segs[k + 1].typ \in Types /\ obj.segs[k + 1].len \in Nat
        BY <2>0 DEF SgRecord
      <4> QED
        BY <4>1, <4>2, <4>3
    <3>3. SegmentType'
      <4>1. /\ NewTyp(segtab[j].typ, obj.segs[k + 1].typ) \in Types
            /\ Round(segtab[j].siz + obj.segs[k + 1].len) \in Nat
        BY <3>2, NewTypType, RoundType
      <4>2. PICK t \in Types, z \in Nat : segtab' = [segtab EXCEPT ![j].typ = t, ![j].siz = z]
        BY <3>1, <4>1 DEF PlaceSegment
      <4>3. segtab' \in [SegNos -> SegRecord]
        BY <1>0, <4>2 DEF TypeOK1, SegmentType, SegRecord
      <4> QED
        BY <1>0, <1>3, <4>3 DEF DoSegment, TypeOK1, SegmentType
    <3>4. ModuleType'
      <4>1. map' \in Seq(Nat)
        <5>1. j \in Nat /\ map \in Seq(Nat)
          BY <1>0, LimitsAssumption DEF TypeOK1, ModuleType, SegNos
        <5>2. map' = [map EXCEPT ![maps + k + 1] = j]
          BY <3>1 DEF PlaceSegment
        <5> QED
          BY <5>1, <5>2, SeqExcept
      <4>2. segrel' \in [SegNos -> Nat]
        BY <1>0, <3>1, <3>2 DEF PlaceSegment, TypeOK1, ModuleType
      <4> QED
        BY <1>0, <1>3, <4>1, <4>2 DEF DoSegment, TypeOK1, ModuleType
    <3>5. errcnt' \in Nat /\ k' \in Nat
      BY <1>0, <3>1, <3>2, <2>0 DEF PlaceSegment, Err, TypeOK1, ControlType
    <3>6. ControlType' /\ LoopType'
      BY <1>0, <1>3, <2>2, <3>5 DEF DoSegment, TypeOK1, ControlType, LoopType, optvars, modno
    <3> QED
      BY <1>0, <1>3, <3>3, <3>4, <3>6, TypeFrame DEF DoSegment, TypeOK1
  <2> QED
    BY <1>3, <2>1, <2>2 DEF DoSegment
<1>4. CASE EndSegments
  <2>1. ControlType' /\ LoopType'
    BY <1>0, <1>4 DEF EndSegments, TypeOK1, ControlType, LoopType, optvars, modno, modvars
  <2> QED
    BY <1>0, <1>4, <2>1, TypeFrame DEF EndSegments, TypeOK1, segvars, modvars
<1> QED
  BY <1>1, <1>2, <1>3, <1>4 DEF SegmentStep
-----------------------------------------------------------------------------
(* A moved definition is a symbol of the same kind and name.               *)
LEMMA MovedType ==
  ASSUME ModuleType, modno >= 1, NEW s \in SymRecord, NEW start \in Starts(s.sg)
  PROVE  /\ Moved(s, start) \in SymRecord
         /\ Moved(s, start).fl = s.fl /\ Moved(s, start).name = s.name
<1>1. start \in Nat
  <2>1. s.sg \in Nat
    BY DEF SymRecord
  <2>2. CASE s.sg < SEGNO
    <3>1. s.sg \in SegNos
      BY <2>1, <2>2, LimitsAssumption DEF SegNos
    <3> QED
      BY <2>2, <3>1 DEF Starts, ModuleType
  <2>3. CASE ~(s.sg < SEGNO)
    BY <2>3, LimitsAssumption DEF Starts
  <2> QED
    BY <2>2, <2>3
<1>2. MapAt(maps + s.sg) \in Nat
  <2>1. map \in Seq(Nat) /\ modmap \in Seq(Nat) /\ s.sg \in Nat
    BY DEF ModuleType, SymRecord
  <2>2. modno \in 1 .. Len(modmap)
    BY <2>1 DEF modno
  <2>3. maps \in Nat
    BY <2>1, <2>2, ElementOfSeq DEF maps
  <2>4. CASE maps + s.sg < mapx
    <3>1. maps + s.sg + 1 \in 1 .. Len(map)
      BY <2>1, <2>3, <2>4 DEF mapx
    <3> QED
      BY <2>1, <2>4, <3>1, ElementOfSeq DEF MapAt
  <2>5. CASE ~(maps + s.sg < mapx)
    BY <2>5 DEF MapAt, UNSET
  <2> QED
    BY <2>4, <2>5
<1>3. (s.val + start) % W \in 0 .. W - 1
  <2>1. s.val \in Nat
    BY DEF SymRecord
  <2>2. s.val + start \in Nat
    BY <1>1, <2>1
  <2> QED
    BY <2>2, WrapType
<1> QED
  BY <1>2, <1>3 DEF Moved, SymRecord

(* The symbols of a module keep the invariant.                             *)
SymbolStep == SymSegment \/ SymDropped \/ SymReference \/ SymDefinition \/ SymNew

LEMMA SymbolStepInv == IInv /\ SymbolStep => IInv'
<1> SUFFICES ASSUME IInv, SymbolStep PROVE IInv'
  OBVIOUS
<1>0. TypeOK1 /\ SymbolType /\ ModuleType /\ HashExact /\ UdefcntExact
  BY DEF IInv, TypeOK1
<1>1. pc = "sym" /\ k >= 1 /\ k <= Len(obj.syms) /\ k' = k + 1 /\ SymFrame /\ modno >= 1
  BY <1>0 DEF SymbolStep, SymSegment, SymDropped, SymReference, SymDefinition, SymNew,
              SymStep, TypeOK1, LoopType
<1>2. Cur \in SymRecord
  <2>1. k \in Nat /\ obj.syms \in Seq(SymRecord)
    BY <1>0 DEF TypeOK1, ControlType, ModuleType, LoadableOK, ModuleRecord
  <2>2. k \in 1 .. Len(obj.syms)
    BY <1>1, <2>1
  <2> QED
    BY <2>1, <2>2, ElementOfSeq DEF Cur
<1>3. (\E i \in Nat : Mapped(i)) \/ UNCHANGED symap
  <2>1. /\ symlev \in Nat
        /\ \A n \in DOMAIN symhash : symhash[n] \in Nat
        /\ \A n \in DOMAIN seghash : seghash[n] \in Nat
    BY <1>0 DEF SymbolType, HashExact, symlev
  <2>2. CASE SymDropped
    BY <2>1, <2>2 DEF SymDropped
  <2>6. CASE SymSegment
    BY <2>1, <2>6 DEF SymSegment, Found
  <2>3. CASE SymReference
    BY <2>1, <2>3 DEF SymReference, Found
  <2>4. CASE SymDefinition
    BY <2>1, <2>4 DEF SymDefinition, Found
  <2>5. CASE SymNew
    <3>1. Mapped(symlev) \/ UNCHANGED symap
      BY <2>5 DEF SymNew
    <3> QED
      BY <2>1, <3>1
  <2> QED
    BY <2>2, <2>3, <2>4, <2>5, <2>6 DEF SymbolStep
<1>4. ModuleType'
  <2>1. symap' \in Seq(Nat)
    <3>1. symap \in Seq(Nat)
      BY <1>0 DEF ModuleType
    <3>2. CASE UNCHANGED symap
      BY <3>1, <3>2
    <3>3. CASE \E i \in Nat : Mapped(i)
      <4>1. PICK i \in Nat : symap' = Append(symap, i)
        BY <3>3 DEF Mapped
      <4> QED
        BY <3>1, <4>1, AppendProperties
    <3> QED
      BY <1>3, <3>2, <3>3
  <2> QED
    BY <1>0, <1>1, <2>1 DEF SymFrame, ModuleType
<1>5. ControlType' /\ LoopType'
  <2>1. pc' \in {"sym", "fatal"} /\ errcnt' \in Nat
    BY <1>0, <1>1 DEF SymbolStep, SymSegment, SymDropped, SymReference, SymDefinition, SymNew,
                Fatal, Err, TypeOK1, ControlType
  <2> QED
    BY <1>0, <1>1, <2>1 DEF SymFrame, optvars, modno, TypeOK1, ControlType, LoopType
<1>6. SymbolType' /\ HashExact' /\ UdefcntExact'
  <2>1. CASE UNCHANGED symvars
    BY <1>0, <2>1, TypeFrame, SymUnchanged
  <2>2. CASE SymReference
    <3> DEFINE i == symhash[Cur.name]
    <3>1. i \in 1 .. Len(symtab)
      BY <1>0, <2>2 DEF SymReference, HashExact, Found
    <3>2. symtab[i] \in SymRecord /\ symtab \in Seq(SymRecord)
      BY <1>0, <3>1, ElementOfSeq DEF SymbolType
    <3>3. CASE symtab' = symtab
      BY <1>0, <2>1, <2>2, <3>3 DEF SymReference, symvars
    <3>4. CASE symtab' = [symtab EXCEPT ![i].val = Cur.val]
      <4> DEFINE s == [symtab[i] EXCEPT !.val = Cur.val]
      <4>1. s \in SymRecord /\ s.name = symtab[i].name /\ s.fl = symtab[i].fl
        BY <1>2, <3>2 DEF SymRecord
      <4>2. symtab' = [symtab EXCEPT ![i] = s]
        BY <3>1, <3>2, <3>4
      <4>3. UNCHANGED <<symhash, seghash, udefcnt>>
        BY <2>2 DEF SymReference
      <4> HIDE DEF s, i
      <4> QED
        BY <1>0, <3>1, <4>1, <4>2, <4>3, ReplaceExact
    <3> QED
      BY <2>2, <3>3, <3>4 DEF SymReference
  <2>3. CASE SymDefinition /\ ~UNCHANGED symvars
    <3> DEFINE i == symhash[Cur.name]
    <3>1. i \in 1 .. Len(symtab) /\ symtab[i].name = Cur.name
      BY <1>0, <2>3 DEF SymDefinition, HashExact, Found
    <3>2. MayDefine(i) /\ udefcnt' = udefcnt - 1 /\ UNCHANGED <<symhash, seghash>>
      BY <2>3 DEF SymDefinition, symvars
    <3>3. PICK start \in Starts(Cur.sg) : symtab' = [symtab EXCEPT ![i] = Moved(Cur, start)]
      BY <2>3, <3>2 DEF SymDefinition
    <3>4. /\ Moved(Cur, start) \in SymRecord /\ Moved(Cur, start).fl = GLB
          /\ Moved(Cur, start).name = Cur.name
      BY <1>0, <1>1, <1>2, <2>3, MovedType DEF SymDefinition
    <3>5. symtab[i].fl = UNX
      BY <3>2 DEF MayDefine
    <3> HIDE DEF i
    <3> QED
      BY <1>0, <3>1, <3>2, <3>3, <3>4, <3>5, ReplaceExact
  <2>4. CASE SymNew /\ ~UNCHANGED symvars
    <3>1. \E s \in SymRecord : s.fl = Cur.fl /\ s.name = Cur.name /\ symtab' = Append(symtab, s)
      BY <1>0, <1>1, <1>2, <2>4, MovedType DEF SymNew, symvars
    <3>2. PICK s \in SymRecord : s.fl = Cur.fl /\ s.name = Cur.name /\ symtab' = Append(symtab, s)
      BY <3>1
    <3>3. Installs(s)
      BY <2>4, <3>2 DEF SymNew, symvars, Installs, CountNew
    <3>4. /\ s.fl \in {UNX, GLB} => ~Found(symhash, s.name)
          /\ s.fl = SEG => ~Found(seghash, s.name)
      BY <2>4, <3>2 DEF SymNew, LOC, UNX, GLB, SEG
    <3> QED
      BY <1>0, <3>3, <3>4, InstallExact
  <2> QED
    BY <2>1, <2>2, <2>3, <2>4 DEF SymbolStep, SymSegment, SymDropped
<1> QED
  BY <1>0, <1>1, <1>4, <1>5, <1>6, TypeFrame DEF IInv, TypeOK1, SymFrame, segvars
-----------------------------------------------------------------------------
(* What is left of pass 1: commons and the stack segment.                  *)
FinishStep == \/ EndSymbols \/ SkipSymbol \/ EndCommons \/ AllocCommon \/ EndPass1

LEMMA FinishStepInv == IInv /\ FinishStep => IInv'
<1> SUFFICES ASSUME IInv, FinishStep PROVE IInv'
  OBVIOUS
<1>0. TypeOK1 /\ SymbolType /\ SegmentType /\ HashExact /\ UdefcntExact
  BY DEF IInv, TypeOK1
<1>1. CASE EndSymbols
  <2>1. ControlType' /\ LoopType'
    BY <1>0, <1>1 DEF EndSymbols, TypeOK1, ControlType, LoopType, optvars
  <2> QED
    BY <1>0, <1>1, <2>1, TypeFrame, SymUnchanged DEF IInv, EndSymbols, TypeOK1, segvars, modvars
<1>2. CASE SkipSymbol
  <2>1. ControlType' /\ LoopType'
    BY <1>0, <1>2 DEF SkipSymbol, TypeOK1, ControlType, LoopType, optvars
  <2> QED
    BY <1>0, <1>2, <2>1, TypeFrame, SymUnchanged DEF IInv, SkipSymbol, TypeOK1, segvars, modvars
<1>3. CASE EndCommons
  <2>1. ControlType' /\ LoopType'
    BY <1>0, <1>3 DEF EndCommons, TypeOK1, ControlType, LoopType, optvars
  <2> QED
    BY <1>0, <1>3, <2>1, TypeFrame, SymUnchanged DEF IInv, EndCommons, TypeOK1, segvars, modvars
<1>4. CASE AllocCommon /\ pc' = "fatal"
  <2>1. UNCHANGED <<segtab, symtab, udefcnt, k, symhash, seghash>>
    BY <1>4 DEF AllocCommon
  <2>2. ControlType' /\ LoopType'
    <3>1. UNCHANGED <<cmd, fi, mi, changed, segmode, errcnt, postab>>
      BY <1>4 DEF AllocCommon
    <3> QED
      BY <1>0, <1>4, <2>1, <3>1 DEF TypeOK1, ControlType, LoopType
  <2> QED
    BY <1>0, <1>4, <2>1, <2>2, TypeFrame, SymUnchanged
       DEF IInv, AllocCommon, TypeOK1, symvars, modvars
<1>5. CASE AllocCommon /\ pc' # "fatal"
  <2> DEFINE siz == symtab[k].val
  <2>1. PICK j \in SegNos :
          LET at == CommonAt(j, siz) IN
          /\ segtab' = [segtab EXCEPT ![j].typ = NewTyp(@, BSS), ![j].siz = at + siz]
          /\ symtab' = [symtab EXCEPT ![k] = [@ EXCEPT !.fl = GLB, !.sg = j, !.val = at % W]]
          /\ udefcnt' = udefcnt - 1 /\ k' = k + 1 /\ UNCHANGED pc
    BY <1>5, Zenon DEF AllocCommon, Fatal
  <2>2. /\ k \in 1 .. Len(symtab) /\ symtab \in Seq(SymRecord) /\ symtab[k].fl = UNX
        /\ UNCHANGED <<symhash, seghash>>
    <3>1. pc = "commons" /\ k < Len(symtab) + 1 /\ symtab[k].fl = UNX
          /\ UNCHANGED <<symhash, seghash>>
      BY <1>5, Zenon DEF AllocCommon, IsCommon, symlev
    <3>2. k \in Nat /\ k >= 1 /\ symtab \in Seq(SymRecord)
      BY <1>0, <3>1 DEF SymbolType, TypeOK1, ControlType, LoopType
    <3> QED
      BY <3>1, <3>2
  <2>3. symtab[k] \in SymRecord
    BY <2>2, ElementOfSeq
  <2>4. siz \in Nat /\ segtab[j] \in SegRecord
    <3>1. segtab[j] \in SegRecord
      BY <1>0 DEF SegmentType
    <3> QED
      BY <2>3, <3>1 DEF SymRecord
  <2>5. segtab[j].typ \in Types /\ segtab[j].siz \in Nat
    BY <2>4 DEF SegRecord
  <2> HIDE DEF siz
  <2>6. CommonAt(j, siz) \in Nat /\ CommonAt(j, siz) % W \in 0 .. W - 1
    <3>1. Round(segtab[j].siz) \in Nat
      BY <2>5, RoundType
    <3>2. CommonAt(j, siz) \in Nat
      BY <2>5, <3>1 DEF CommonAt
    <3> QED
      BY <3>2, WrapType
  <2>7. SegmentType'
    <3>1. NewTyp(segtab[j].typ, BSS) \in Types /\ CommonAt(j, siz) + siz \in Nat
      <4>1. BSS \in Types
        BY DEF Types, BSS, UND, MXP
      <4> QED
        BY <2>4, <2>5, <2>6, <4>1, NewTypType
    <3>2. PICK t \in Types, z \in Nat : segtab' = [segtab EXCEPT ![j].typ = t, ![j].siz = z]
      BY <2>1, <3>1
    <3>3. segtab' \in [SegNos -> SegRecord]
      BY <1>0, <3>2 DEF SegmentType, SegRecord
    <3> QED
      BY <1>0, <1>5, <3>3, Zenon DEF AllocCommon, SegmentType
  <2>8. SymbolType' /\ HashExact' /\ UdefcntExact'
    <3> DEFINE s == [symtab[k] EXCEPT !.fl = GLB, !.sg = j, !.val = CommonAt(j, siz) % W]
    <3>1. s \in SymRecord /\ s.name = symtab[k].name /\ s.fl = GLB
      <4>1. j \in Nat /\ GLB \in {LOC, UNX, GLB, SEG}
        BY LimitsAssumption DEF SegNos
      <4> QED
        BY <2>3, <2>6, <4>1 DEF SymRecord
    <3>2. symtab' = [symtab EXCEPT ![k] = s]
      BY <2>1, <2>2
    <3> HIDE DEF s
    <3> QED
      BY <1>0, <2>1, <2>2, <3>1, <3>2, ReplaceExact
  <2>9. ControlType' /\ LoopType'
    <3>1. k' = k + 1 /\ pc' = pc
      BY <2>1
    <3>2. pc = "commons" /\ UNCHANGED <<cmd, fi, mi, changed, segmode, errcnt, postab>>
      BY <1>5, Zenon DEF AllocCommon
    <3> QED
      BY <1>0, <3>1, <3>2 DEF TypeOK1, ControlType, LoopType
  <2> QED
    BY <1>0, <1>5, <2>7, <2>8, <2>9, TypeFrame, Zenon DEF IInv, AllocCommon, TypeOK1, modvars
<1>6. CASE EndPass1
  <2> DEFINE st == [j \in SegNos |-> [segtab[j] EXCEPT !.siz = Round(@)]]
  <2>1. st \in [SegNos -> SegRecord]
    <3>1. ASSUME NEW j \in SegNos PROVE [segtab[j] EXCEPT !.siz = Round(@)] \in SegRecord
      <4>1. segtab[j] \in SegRecord
        BY <1>0 DEF SegmentType
      <4>2. Round(segtab[j].siz) \in Nat
        BY <4>1, RoundType DEF SegRecord
      <4> QED
        BY <4>1, <4>2 DEF SegRecord
    <3> QED
      BY <3>1
  <2>2. SegmentType'
    <3>1. CASE segtab' = segtab
      BY <1>0, <1>6, <3>1, Zenon DEF EndPass1, SegmentType
    <3>2. CASE segtab' = st
      BY <1>0, <1>6, <2>1, <3>2, Zenon DEF EndPass1, SegmentType
    <3>3. CASE \E j \in SegNos :
                 segtab' = [st EXCEPT ![j].typ = NewTyp(@, STK), ![j].siz = @ + stacksiz]
      <4>1. PICK j \in SegNos :
              segtab' = [st EXCEPT ![j].typ = NewTyp(@, STK), ![j].siz = @ + stacksiz]
        BY <3>3, Zenon
      <4>2. st[j] \in SegRecord
        BY <2>1
      <4>3. NewTyp(st[j].typ, STK) \in Types /\ st[j].siz + stacksiz \in Nat
        <5>1. STK \in Types /\ stacksiz \in Nat
          BY <1>0 DEF Types, STK, UND, MXP, TypeOK1, OptionType
        <5>2. st[j].typ \in Types /\ st[j].siz \in Nat
          BY <4>2 DEF SegRecord
        <5> HIDE DEF st
        <5> QED
          BY <5>1, <5>2, NewTypType
      <4> HIDE DEF st
      <4>4. PICK t \in Types, z \in Nat : segtab' = [st EXCEPT ![j].typ = t, ![j].siz = z]
        BY <4>1, <4>3
      <4>5. segtab' \in [SegNos -> SegRecord]
        BY <2>1, <4>4, Zenon DEF SegRecord
      <4> QED
        BY <1>0, <1>6, <4>5, Zenon DEF EndPass1, SegmentType
    <3> QED
      BY <1>6, <3>1, <3>2, <3>3, Zenon DEF EndPass1
  <2> HIDE DEF st
  <2>3. pc' \in {"interlude", "fatal"}
    BY <1>6, Zenon DEF EndPass1, Fatal
  <2>4. ControlType' /\ LoopType'
    BY <1>0, <1>6, <2>3, Zenon DEF EndPass1, TypeOK1, ControlType, LoopType
  <2> QED
    BY <1>0, <1>6, <2>2, <2>4, TypeFrame, SymUnchanged, Zenon DEF IInv, EndPass1, TypeOK1, modvars
<1> QED
  BY <1>1, <1>2, <1>3, <1>4, <1>5, <1>6 DEF FinishStep
-----------------------------------------------------------------------------
(* Every step of pass 1 keeps the invariant.                               *)
LEMMA NextIInv == IInv /\ [Next1]_vars1 => IInv'
<1> SUFFICES ASSUME IInv, [Next1]_vars1 PROVE IInv'
  OBVIOUS
<1>1. TypeOK1 /\ HashExact /\ UdefcntExact
  BY DEF IInv
<1>2. CASE Pass0
  BY <1>2, Pass0Step
<1>3. CASE ScanStep
  <2>1. UNCHANGED symvars
    BY <1>3 DEF ScanStep, OpenFails, OpenObject, SkipArchive, OpenArchive, ScanMember, EndScan,
                Loaded, EndFiles
  <2> QED
    BY <1>1, <1>3, <2>1, ScanType, SymUnchanged DEF IInv
<1>4. CASE SegmentStep
  <2>1. UNCHANGED symvars
    BY <1>4 DEF SegmentStep, Reject, StartModule, DoSegment, EndSegments
  <2> QED
    BY <1>1, <1>4, <2>1, SegmentStepType, SymUnchanged DEF IInv
<1>5. CASE SymbolStep
  BY <1>5, SymbolStepInv
<1>6. CASE FinishStep
  BY <1>6, FinishStepInv
<1>7. CASE UNCHANGED vars1
  <2>1. ControlType' /\ LoopType'
    BY <1>1, <1>7 DEF vars1, optvars, modvars, modno, TypeOK1, ControlType, LoopType
  <2> QED
    BY <1>1, <1>7, <2>1, TypeFrame, SymUnchanged DEF IInv, TypeOK1, vars1, segvars, modvars
<1> QED
  BY <1>2, <1>3, <1>4, <1>5, <1>6, <1>7
     DEF Next1, Step1, Pass1, Ended1, ScanStep, SegmentStep, SymbolStep, FinishStep

(* Pass 1 always satisfies the inductive invariant.                        *)
THEOREM Invariance == Spec1 => []IInv
<1>1. Init1 => IInv
  BY InitIInv
<1>2. IInv /\ [Next1]_vars1 => IInv'
  BY NextIInv
<1> QED
  BY <1>1, <1>2, PTL DEF Spec1

(* Every variable of pass 1 keeps its type, whatever the input: udefcnt    *)
(* never falls below 0, values fit their uint16_t, no loop leaves its      *)
(* tables.                                                                 *)
THEOREM TypeCorrect == Spec1 => []TypeOK1
<1>1. IInv => TypeOK1
  BY DEF IInv
<1> QED
  BY <1>1, Invariance, PTL

(* udefcnt, which p1entry() trusts to skip archives and interlude() to fail *)
(* the link, is the number of undefined entries of symtab.                 *)
THEOREM CountCorrect == Spec1 => []UdefcntExact
<1>1. IInv => UdefcntExact
  BY DEF IInv
<1> QED
  BY <1>1, Invariance, PTL

(* lookup() finds, for every external and every segment name, the one      *)
(* entry of symtab that has this name.                                     *)
THEOREM LookupCorrect == Spec1 => []HashExact
<1>1. IInv => HashExact
  BY DEF IInv
<1> QED
  BY <1>1, Invariance, PTL

-----------------------------------------------------------------------------
(* What ld8k loads: the pieces of the output segments that modules,        *)
(* commons and the stack are given do not overlap; the map from a module's *)
(* symbols to the symbol table, which pass 2 follows, is right; no member  *)
(* of an archive is loaded twice; symbols are resolved as SymbolResolution *)
(* says, but for one case; and an archive is left when it has nothing more *)
(* to give.                                                                *)

(* Segments only grow, and each piece lies where its segment ended when it *)
(* was given out.                                                          *)
PieceRecord == [mod : Nat, ord : Nat, seg : SegNos, off : Nat, len : Nat]
PieceInv == placed \in Seq(PieceRecord) /\ PiecesDisjoint
Grown == \A i \in SegNos : segtab'[i].siz >= segtab[i].siz

(* Pieces stay where they are while their segments grow.                   *)
LEMMA GrowKeeps ==
  ASSUME SegmentType, SegmentType', PieceInv, Grown, UNCHANGED placed
  PROVE  PieceInv'
<1>1. /\ placed' = placed /\ placed \in Seq(PieceRecord)
      /\ \A a \in 1 .. Len(placed) : placed[a] \in PieceRecord
  BY ElementOfSeq DEF PieceInv
<1>2. ASSUME NEW a \in 1 .. Len(placed)
      PROVE  placed[a].off + placed[a].len <= segtab'[placed[a].seg].siz
  <2>1. /\ placed[a].seg \in SegNos /\ placed[a].off \in Nat /\ placed[a].len \in Nat
    BY <1>1 DEF PieceRecord
  <2>2. segtab[placed[a].seg].siz \in Nat /\ segtab'[placed[a].seg].siz \in Nat
    BY <2>1 DEF SegmentType, SegRecord
  <2>3. placed[a].off + placed[a].len <= segtab[placed[a].seg].siz
    BY DEF PieceInv, PiecesDisjoint
  <2> QED
    BY <2>1, <2>2, <2>3 DEF Grown
<1> QED
  BY <1>1, <1>2 DEF PieceInv, PiecesDisjoint

(* A piece added behind the end of its segment overlaps none before it.    *)
LEMMA AddKeeps ==
  ASSUME SegmentType, SegmentType', PieceInv, Grown, NEW p \in PieceRecord,
         placed' = Append(placed, p),
         p.off >= segtab[p.seg].siz, p.off + p.len <= segtab'[p.seg].siz
  PROVE  PieceInv'
<1>1. /\ placed \in Seq(PieceRecord) /\ Len(placed) \in Nat
      /\ \A a \in 1 .. Len(placed) : placed[a] \in PieceRecord
  BY ElementOfSeq DEF PieceInv
<1>2. /\ placed' \in Seq(PieceRecord) /\ Len(placed') = Len(placed) + 1
      /\ placed'[Len(placed) + 1] = p
      /\ \A a \in 1 .. Len(placed) : placed'[a] = placed[a]
  BY <1>1, AppendProperties
<1>3. p.seg \in SegNos /\ p.off \in Nat /\ p.len \in Nat
  BY DEF PieceRecord
<1>4. ASSUME NEW a \in 1 .. Len(placed)
      PROVE  /\ placed[a].off + placed[a].len <= segtab[placed[a].seg].siz
             /\ placed[a].off + placed[a].len <= segtab'[placed[a].seg].siz
             /\ placed[a].off + placed[a].len \in Nat
             /\ \A b \in 1 .. a - 1 : placed[b].seg = placed[a].seg =>
                  \/ placed[b].off + placed[b].len <= placed[a].off
                  \/ placed[a].off + placed[a].len <= placed[b].off
  <2>1. /\ placed[a].seg \in SegNos /\ placed[a].off \in Nat /\ placed[a].len \in Nat
    BY <1>1 DEF PieceRecord
  <2>2. segtab[placed[a].seg].siz \in Nat /\ segtab'[placed[a].seg].siz \in Nat
    BY <2>1 DEF SegmentType, SegRecord
  <2>3. placed[a].off + placed[a].len <= segtab[placed[a].seg].siz
    BY DEF PieceInv, PiecesDisjoint
  <2>4. segtab'[placed[a].seg].siz >= segtab[placed[a].seg].siz
    BY <2>1 DEF Grown
  <2>5. \A b \in 1 .. a - 1 : placed[b].seg = placed[a].seg =>
          \/ placed[b].off + placed[b].len <= placed[a].off
          \/ placed[a].off + placed[a].len <= placed[b].off
    BY DEF PieceInv, PiecesDisjoint
  <2>6. /\ placed[a].off + placed[a].len <= segtab'[placed[a].seg].siz
        /\ placed[a].off + placed[a].len \in Nat
    BY <2>1, <2>2, <2>3, <2>4
  <2> QED
    BY <2>3, <2>5, <2>6
<1>5. ASSUME NEW a \in 1 .. Len(placed')
      PROVE  /\ placed'[a].off + placed'[a].len <= segtab'[placed'[a].seg].siz
             /\ \A b \in 1 .. a - 1 : placed'[b].seg = placed'[a].seg =>
                  \/ placed'[b].off + placed'[b].len <= placed'[a].off
                  \/ placed'[a].off + placed'[a].len <= placed'[b].off
  <2>1. CASE a = Len(placed) + 1
    <3>1. ASSUME NEW b \in 1 .. a - 1, placed'[b].seg = p.seg
          PROVE  placed'[b].off + placed'[b].len <= p.off
      <4>1. b \in 1 .. Len(placed) /\ placed'[b] = placed[b]
        BY <1>1, <1>2, <2>1
      <4>2. placed[b].off + placed[b].len <= segtab[p.seg].siz
            /\ placed[b].off + placed[b].len \in Nat
        BY <1>4, <3>1, <4>1
      <4>3. segtab[p.seg].siz \in Nat
        BY <1>3 DEF SegmentType, SegRecord
      <4> QED
        BY <1>3, <4>1, <4>2, <4>3
    <3> QED
      BY <1>2, <2>1, <3>1
  <2>2. CASE a \in 1 .. Len(placed)
    <3>1. placed'[a] = placed[a] /\ \A b \in 1 .. a - 1 : placed'[b] = placed[b]
      BY <1>1, <1>2, <2>2
    <3> QED
      BY <1>4, <2>2, <3>1
  <2>3. a = Len(placed) + 1 \/ a \in 1 .. Len(placed)
    BY <1>1, <1>2
  <2> QED
    BY <2>1, <2>2, <2>3
<1> QED
  BY <1>2, <1>5 DEF PieceInv, PiecesDisjoint

(* p1doseg(), the commons and the stack take their pieces at the end of a  *)
(* segment; nothing else changes a size.                                   *)
LEMMA PieceStep == IInv /\ IInv' /\ PieceInv /\ [Next1]_vars1 => PieceInv'
<1> SUFFICES ASSUME IInv, IInv', PieceInv, [Next1]_vars1 PROVE PieceInv'
  OBVIOUS
<1>0. SegmentType /\ SegmentType' /\ TypeOK1
  BY DEF IInv, TypeOK1
<1>1. \A i \in SegNos : segtab[i] \in SegRecord /\ segtab[i].siz \in Nat
  BY <1>0 DEF SegmentType, SegRecord
<1>2. CASE UNCHANGED <<segtab, placed>>
  <2>1. Grown
    BY <1>1, <1>2 DEF Grown
  <2> QED
    BY <1>0, <1>2, <2>1, GrowKeeps
<1>3. CASE UNCHANGED placed /\ \A i \in SegNos : segtab'[i].siz = segtab[i].siz
  <2>1. Grown
    BY <1>1, <1>3 DEF Grown
  <2> QED
    BY <1>0, <1>3, <2>1, GrowKeeps
<1>4. CASE OptTypes
  <2>1. \A i \in SegNos : segtab'[i].siz = segtab[i].siz
    BY <1>1, <1>4 DEF OptTypes, SegRecord
  <2> QED
    BY <1>3, <1>4, <2>1 DEF OptTypes
<1>5. CASE OptDescr \/ OptNamed
  <2>1. UNCHANGED placed
    BY <1>5 DEF OptDescr, OptNamed
  <2>2. PICK i \in Int, t \in Types, u \in Types : Dodset(i, t, u)
    <3>1. /\ pc = "pass0" /\ k <= Len(cmd) /\ cmd[k].op \in {"d", "dn"}
      BY <1>5 DEF OptDescr, OptNamed, Option
    <3>2. OptionOK(cmd[k])
      BY <1>0, <3>1, CommandType
    <3>3. /\ cmd[k].seg \in SegNos /\ cmd[k].typ \in Types
          /\ cmd[k].op = "dn" => SegNameTyp[cmd[k].name] \in Types
      BY <3>1, <3>2, InputAssumption DEF OptionOK
    <3>4. UND \in Types /\ cmd[k].seg \in Int
      BY <3>3, LimitsAssumption DEF Types, UND, MXP, SegNos
    <3>5. CASE OptDescr
      BY <3>3, <3>4, <3>5 DEF OptDescr
    <3>6. CASE OptNamed
      <4>1. SegNameTyp[cmd[k].name] \in Types
        BY <3>3, <3>6 DEF OptNamed, Option
      <4> QED
        BY <3>3, <3>4, <3>6, <4>1 DEF OptNamed
    <3> QED
      BY <1>5, <3>5, <3>6
  <2>3. \E x : segtab' = [segtab EXCEPT ![i].alloc = TRUE, ![i].typ = x]
    BY <2>2 DEF Dodset
  <2>4. \A q \in SegNos : segtab'[q].siz = segtab[q].siz
    BY <1>0, <2>3 DEF SegmentType, SegRecord
  <2> QED
    BY <1>3, <2>1, <2>4
<1>6. CASE DoSegment
  <2>1. CASE UNCHANGED <<segtab, placed>>
    BY <1>2, <2>1
  <2>2. CASE \E j \in SegNos : PlaceSegment(j)
    <3>1. PICK j \in SegNos : PlaceSegment(j)
      BY <2>2
    <3>2. /\ k \in Nat /\ modno \in Nat /\ obj.segs[k + 1].len \in Nat
      <4>1. /\ k \in Nat /\ k < Len(obj.segs) /\ obj.segs \in Seq(SgRecord)
            /\ modmap \in Seq(Nat)
        BY <1>0, <1>6 DEF DoSegment, TypeOK1, ControlType, ModuleType, LoadableOK, ModuleRecord
      <4>2. k + 1 \in 1 .. Len(obj.segs)
        BY <4>1
      <4>3. obj.segs[k + 1] \in SgRecord
        BY <4>1, <4>2, ElementOfSeq
      <4> QED
        BY <4>1, <4>3 DEF SgRecord, modno
    <3> DEFINE len == obj.segs[k + 1].len
               p   == Piece(modno, k, j, segtab[j].siz, len)
    <3>3. /\ p \in PieceRecord /\ p.seg = j /\ p.off = segtab[j].siz /\ p.len = len
      BY <1>1, <3>2 DEF Piece, PieceRecord
    <3>4. placed' = Append(placed, p)
      BY <3>1 DEF PlaceSegment
    <3>5. \E x : segtab' = [segtab EXCEPT ![j].typ = x, ![j].siz = Round(segtab[j].siz + len)]
      BY <3>1 DEF PlaceSegment
    <3>6. /\ segtab'[j].siz = Round(segtab[j].siz + len)
          /\ \A i \in SegNos \ {j} : segtab'[i] = segtab[i]
      BY <1>0, <3>5 DEF SegmentType, SegRecord
    <3> HIDE DEF p, len
    <3>7. segtab[j].siz + len \in Nat /\ Round(segtab[j].siz + len) \in Nat
          /\ Round(segtab[j].siz + len) >= segtab[j].siz + len
      BY <1>1, <3>2, RoundType DEF len
    <3>8. len \in Nat
      BY <3>2 DEF len
    <3>9. Grown
      BY <1>1, <3>6, <3>7, <3>8 DEF Grown
    <3>10. p.off >= segtab[p.seg].siz /\ p.off + p.len <= segtab'[p.seg].siz
      BY <1>1, <3>3, <3>6, <3>7
    <3> QED
      BY <1>0, <3>3, <3>4, <3>9, <3>10, AddKeeps
  <2> QED
    BY <1>6, <2>1, <2>2 DEF DoSegment
<1>7. CASE AllocCommon
  <2>1. CASE UNCHANGED <<segtab, placed>>
    BY <1>2, <2>1
  <2>2. CASE ~UNCHANGED <<segtab, placed>>
    <3> DEFINE siz == symtab[k].val
    <3>1. PICK j \in SegNos :
            LET at == CommonAt(j, siz) IN
            /\ segtab' = [segtab EXCEPT ![j].typ = NewTyp(@, BSS), ![j].siz = at + siz]
            /\ placed' = Append(placed, Piece(0, k, j, at, siz))
      BY <1>7, <2>2, Zenon DEF AllocCommon
    <3>2. k \in Nat /\ siz \in Nat
      <4>1. pc = "commons" /\ k < Len(symtab) + 1
        BY <1>7, Zenon DEF AllocCommon, symlev
      <4>2. k \in Nat /\ k >= 1 /\ symtab \in Seq(SymRecord)
        BY <1>0, <4>1 DEF TypeOK1, ControlType, LoopType, SymbolType
      <4>3. k \in 1 .. Len(symtab)
        BY <4>1, <4>2
      <4>4. symtab[k] \in SymRecord
        BY <4>2, <4>3, ElementOfSeq
      <4> QED
        BY <4>2, <4>4 DEF SymRecord
    <3> DEFINE at == CommonAt(j, siz)
               p  == Piece(0, k, j, at, siz)
    <3>3. at \in Nat /\ at >= segtab[j].siz
      BY <1>1, RoundType DEF CommonAt
    <3>4. p \in PieceRecord /\ p.seg = j /\ p.off = at /\ p.len = siz
      BY <3>2, <3>3 DEF Piece, PieceRecord
    <3>5. placed' = Append(placed, p)
      BY <3>1
    <3>6. \E x : segtab' = [segtab EXCEPT ![j].typ = x, ![j].siz = at + siz]
      BY <3>1
    <3> HIDE DEF p, at, siz
    <3>7. segtab'[j].siz = at + siz /\ \A i \in SegNos \ {j} : segtab'[i] = segtab[i]
      BY <1>0, <3>6 DEF SegmentType, SegRecord
    <3>8. Grown
      BY <1>1, <3>2, <3>3, <3>7 DEF Grown
    <3>9. p.off >= segtab[p.seg].siz /\ p.off + p.len <= segtab'[p.seg].siz
      BY <3>2, <3>3, <3>4, <3>7
    <3> QED
      BY <1>0, <3>4, <3>5, <3>8, <3>9, AddKeeps
  <2> QED
    BY <2>1, <2>2
<1>8. CASE EndPass1
  <2> DEFINE st == [j \in SegNos |-> [segtab[j] EXCEPT !.siz = Round(@)]]
  <2>1. \A i \in SegNos : /\ st[i].siz = Round(segtab[i].siz)
                          /\ st[i].siz \in Nat /\ st[i].siz >= segtab[i].siz
                          /\ DOMAIN st[i] = DOMAIN segtab[i]
    <3>1. \A i \in SegNos : st[i].siz = Round(segtab[i].siz)
                            /\ DOMAIN st[i] = DOMAIN segtab[i]
      BY <1>1 DEF SegRecord
    <3> HIDE DEF st
    <3> QED
      BY <1>1, <3>1, RoundType
  <2>2. stacksiz \in Nat
    BY <1>0 DEF TypeOK1, OptionType
  <2>3. CASE segtab' = segtab /\ UNCHANGED placed
    BY <1>2, <2>3
  <2>4. CASE segtab' = st /\ UNCHANGED placed
    <3>1. Grown
      BY <2>1, <2>4 DEF Grown
    <3> QED
      BY <1>0, <2>4, <3>1, GrowKeeps
  <2>5. CASE \E j \in SegNos :
               /\ segtab' = [st EXCEPT ![j].typ = NewTyp(@, STK), ![j].siz = @ + stacksiz]
               /\ placed' = Append(placed, Piece(0, 0, j, st[j].siz, stacksiz))
    <3>1. PICK j \in SegNos :
               /\ segtab' = [st EXCEPT ![j].typ = NewTyp(@, STK), ![j].siz = @ + stacksiz]
               /\ placed' = Append(placed, Piece(0, 0, j, st[j].siz, stacksiz))
      BY <2>5, Zenon
    <3>2. st \in [SegNos -> SegRecord]
      <4>1. \A i \in SegNos : [segtab[i] EXCEPT !.siz = Round(@)] \in SegRecord
        BY <1>1, RoundType DEF SegRecord
      <4> QED
        BY <4>1
    <3> DEFINE p == Piece(0, 0, j, st[j].siz, stacksiz)
    <3>3. p \in PieceRecord /\ p.seg = j /\ p.off = st[j].siz /\ p.len = stacksiz
      BY <2>1, <2>2 DEF Piece, PieceRecord
    <3>4. \E x : segtab' = [st EXCEPT ![j].typ = x, ![j].siz = st[j].siz + stacksiz]
      BY <3>1, Zenon
    <3>5. placed' = Append(placed, p)
      BY <3>1
    <3> HIDE DEF st, p
    <3>6. /\ segtab'[j].siz = st[j].siz + stacksiz
          /\ \A i \in SegNos \ {j} : segtab'[i] = st[i]
      BY <3>2, <3>4 DEF SegRecord
    <3>7. Grown
      BY <1>1, <2>1, <2>2, <3>6 DEF Grown
    <3>8. p.off >= segtab[p.seg].siz /\ p.off + p.len <= segtab'[p.seg].siz
      BY <1>1, <2>1, <2>2, <3>3, <3>6
    <3> QED
      BY <1>0, <3>3, <3>5, <3>7, <3>8, AddKeeps
  <2> QED
    BY <1>8, <2>3, <2>4, <2>5, Zenon DEF EndPass1
<1>9. CASE \/ OptFlag \/ OptStack \/ OptFile \/ OptUndef \/ EndPass0
           \/ ScanStep \/ Reject \/ StartModule \/ EndSegments \/ SymbolStep
           \/ EndSymbols \/ SkipSymbol \/ EndCommons
  <2>1. UNCHANGED segvars
    <3>1. CASE OptFlag \/ OptStack \/ OptFile \/ OptUndef \/ EndPass0
      BY <3>1 DEF OptFlag, OptStack, OptFile, OptUndef, EndPass0
    <3>2. CASE ScanStep
      BY <3>2 DEF ScanStep, OpenFails, OpenObject, SkipArchive, OpenArchive, ScanMember,
                  EndScan, Loaded, EndFiles
    <3>3. CASE Reject \/ StartModule \/ EndSegments
      BY <3>3 DEF Reject, StartModule, EndSegments
    <3>4. CASE SymbolStep
      BY <3>4 DEF SymbolStep, SymSegment, SymDropped, SymReference, SymDefinition, SymNew,
                  SymFrame
    <3>5. CASE EndSymbols \/ SkipSymbol \/ EndCommons
      BY <3>5 DEF EndSymbols, SkipSymbol, EndCommons
    <3> QED
      BY <1>9, <3>1, <3>2, <3>3, <3>4, <3>5
  <2> QED
    BY <1>2, <2>1 DEF segvars
<1>10. CASE UNCHANGED vars1
  BY <1>2, <1>10 DEF vars1, segvars
<1> QED
  BY <1>4, <1>5, <1>6, <1>7, <1>8, <1>9, <1>10
     DEF Next1, Step1, Pass0, Pass1, Ended1, ScanStep, SymbolStep

(* What modules, commons and the stack are given of an output segment does *)
(* not overlap and lies within its size, for every input.                  *)
THEOREM PiecesCorrect == Spec1 => []PiecesDisjoint
<1>1. Init1 => PieceInv
  BY DEF Init1, PieceInv, PiecesDisjoint
<1>2. IInv /\ IInv' /\ PieceInv /\ [Next1]_vars1 => PieceInv'
  BY PieceStep
<1>3. PieceInv => PiecesDisjoint
  BY DEF PieceInv
<1> QED
  BY <1>1, <1>2, <1>3, Invariance, PTL DEF Spec1
-----------------------------------------------------------------------------
(* Once the command line has been read, the files of the link stay the     *)
(* same: a module number stands for the same module until the end.         *)
SameFiles == /\ Len(filtab') = Len(filtab)
             /\ \A i \in 1 .. Len(filtab) : filtab'[i].file = filtab[i].file

LEMMA FilesKept ==
  ASSUME TypeOK1, [Next1]_vars1, pc # "pass0"
  PROVE  SameFiles
<1>1. CASE UNCHANGED filtab
  BY <1>1 DEF SameFiles
<1>2. CASE \E z : filtab' = [filtab EXCEPT ![fi].posndx = z]
  <2>1. filtab \in Seq([file : DOMAIN Content, posndx : Int])
    BY DEF TypeOK1, OptionType
  <2>2. PICK z : filtab' = [filtab EXCEPT ![fi].posndx = z]
    BY <1>2
  <2>3. \A i \in 1 .. Len(filtab) : filtab[i] \in [file : DOMAIN Content, posndx : Int]
    BY <2>1, ElementOfSeq
  <2>4. Len(filtab') = Len(filtab)
    BY <2>1, <2>2
  <2>5. \A i \in 1 .. Len(filtab) : filtab'[i].file = filtab[i].file
    BY <2>1, <2>2, <2>3
  <2> QED
    BY <2>4, <2>5 DEF SameFiles
<1>3. UNCHANGED filtab \/ \E z : filtab' = [filtab EXCEPT ![fi].posndx = z]
  <2>1. CASE Pass0
    BY <2>1 DEF Pass0, OptFlag, OptStack, OptTypes, OptFile, OptUndef, OptDescr, OptNamed,
                EndPass0, Option
  <2>2. CASE ScanStep
    BY <2>2 DEF ScanStep, OpenFails, OpenObject, SkipArchive, OpenArchive, ScanMember,
                EndScan, Loaded, EndFiles, optvars
  <2>3. CASE SegmentStep
    BY <2>3 DEF SegmentStep, Reject, StartModule, DoSegment, EndSegments, optvars
  <2>4. CASE SymbolStep
    BY <2>4 DEF SymbolStep, SymSegment, SymDropped, SymReference, SymDefinition, SymNew,
                SymFrame, optvars
  <2>5. CASE FinishStep
    BY <2>5, Zenon DEF FinishStep, EndSymbols, SkipSymbol, EndCommons, AllocCommon, EndPass1, optvars
  <2>6. CASE UNCHANGED vars1
    BY <2>6 DEF vars1, optvars
  <2> QED
    BY <2>1, <2>2, <2>3, <2>4, <2>5, <2>6
       DEF Next1, Step1, Pass1, Ended1, ScanStep, SegmentStep, SymbolStep, FinishStep
<1> QED
  BY <1>1, <1>2, <1>3

(* A name once in symhash keeps its entry, and a definition stays one.     *)
SymbolsKept ==
  \A n \in DOMAIN symhash :
    /\ n \in DOMAIN symhash' /\ symhash'[n] = symhash[n]
    /\ symtab[symhash[n]].fl = GLB => symtab'[symhash[n]].fl = GLB

LEMMA SymbolsStay ==
  ASSUME IInv, [Next1]_vars1, pc # "pass0"
  PROVE  SymbolsKept
<1>0. /\ symtab \in Seq(SymRecord) /\ HashExact /\ Len(symtab) \in Nat
      /\ \A n \in DOMAIN symhash : symhash[n] \in 1 .. Len(symtab)
  BY DEF IInv, TypeOK1, SymbolType, HashExact
<1>1. CASE UNCHANGED <<symtab, symhash>>
  BY <1>1 DEF SymbolsKept
<1>2. ASSUME NEW i \in 1 .. Len(symtab), NEW s, UNCHANGED symhash,
             symtab' = [symtab EXCEPT ![i] = s], symtab[i].fl = GLB => s.fl = GLB
      PROVE  SymbolsKept
  <2>1. \A q \in 1 .. Len(symtab) : symtab'[q] = IF q = i THEN s ELSE symtab[q]
    BY <1>0, <1>2
  <2> QED
    BY <1>0, <1>2, <2>1 DEF SymbolsKept
<1>3. CASE SymNew /\ ~UNCHANGED symvars
  <2>1. PICK s : symtab' = Append(symtab, s)
    BY <1>3 DEF SymNew
  <2>2. \A q \in 1 .. Len(symtab) : symtab'[q] = symtab[q]
    BY <1>0, <2>1
  <2>3. symhash' = symhash \/ ( /\ symhash' = Extend(symhash, Cur.name, symlev)
                                /\ ~Found(symhash, Cur.name))
    BY <1>3 DEF SymNew, UNX, GLB, SEG, LOC
  <2> QED
    BY <1>0, <2>2, <2>3 DEF SymbolsKept, Extend, Found
<1>4. CASE SymReference
  <2>1. symhash[Cur.name] \in 1 .. Len(symtab)
    BY <1>0, <1>4 DEF SymReference, Found
  <2>2. UNCHANGED symhash
    BY <1>4 DEF SymReference
  <2>3. CASE symtab' = [symtab EXCEPT ![symhash[Cur.name]].val = Cur.val]
    <3> DEFINE e == [symtab[symhash[Cur.name]] EXCEPT !.val = Cur.val]
    <3>1. symtab[symhash[Cur.name]] \in SymRecord
      BY <1>0, <2>1, ElementOfSeq
    <3>2. e.fl = symtab[symhash[Cur.name]].fl
      BY <3>1 DEF SymRecord
    <3>3. symtab' = [symtab EXCEPT ![symhash[Cur.name]] = e]
      BY <2>3
    <3> HIDE DEF e
    <3> QED
      BY <1>2, <2>1, <2>2, <3>2, <3>3
  <2>4. CASE UNCHANGED symtab
    BY <1>1, <2>2, <2>4
  <2> QED
    BY <1>4, <2>3, <2>4 DEF SymReference
<1>5. CASE SymDefinition
  <2>1. symhash[Cur.name] \in 1 .. Len(symtab) /\ UNCHANGED symhash /\ Cur.fl = GLB
    BY <1>0, <1>5 DEF SymDefinition, Found
  <2>2. CASE UNCHANGED symtab
    BY <1>1, <2>1, <2>2
  <2>3. CASE ~UNCHANGED symtab
    <3>1. symtab[symhash[Cur.name]].fl # GLB
      BY <1>5, <2>3 DEF SymDefinition, MayDefine, UNX, GLB
    <3>2. PICK s : symtab' = [symtab EXCEPT ![symhash[Cur.name]] = s]
      BY <1>5, <2>3 DEF SymDefinition
    <3> QED
      BY <1>2, <2>1, <3>1, <3>2
  <2> QED
    BY <2>2, <2>3
<1>6. CASE AllocCommon
  <2>1. UNCHANGED symhash
    BY <1>6, Zenon DEF AllocCommon
  <2>2. CASE UNCHANGED symtab
    BY <1>1, <2>1, <2>2
  <2>3. CASE ~UNCHANGED symtab
    <3>1. symtab[k].fl # GLB
      <4>1. IsCommon(symtab[k])
        BY <1>6, Zenon DEF AllocCommon
      <4> QED
        BY <4>1 DEF IsCommon, UNX, GLB
    <3>3. PICK s : symtab' = [symtab EXCEPT ![k] = s]
      <4>1. PICK j \in SegNos : LET at == CommonAt(j, symtab[k].val) IN
              symtab' = [symtab EXCEPT ![k] = [@ EXCEPT !.fl = GLB, !.sg = j, !.val = at % W]]
        BY <1>6, <2>3, Zenon DEF AllocCommon
      <4>2. symtab' = [symtab EXCEPT ![k] = [symtab[k] EXCEPT !.fl = GLB, !.sg = j,
                                     !.val = CommonAt(j, symtab[k].val) % W]]
        BY <4>1
      <4> QED
        BY <4>2
    <3>2. k \in 1 .. Len(symtab)
      <4>1. pc = "commons" /\ k < Len(symtab) + 1
        BY <1>6, Zenon DEF AllocCommon, symlev
      <4>2. k \in Nat /\ k >= 1
        BY <4>1 DEF IInv, TypeOK1, ControlType, LoopType
      <4> QED
        BY <1>0, <4>1, <4>2
    <3> QED
      BY <1>2, <2>1, <3>1, <3>2, <3>3
  <2> QED
    BY <2>2, <2>3
<1>7. CASE UNCHANGED symvars
  BY <1>1, <1>7 DEF symvars
<1>8. CASE Pass0
  BY <1>8 DEF Pass0, OptFlag, OptStack, OptTypes, OptFile, OptUndef, OptDescr, OptNamed,
              EndPass0, Option
<1>9. UNCHANGED symvars \/ Pass0 \/ SymReference \/ SymDefinition \/ SymNew \/ AllocCommon
  <2>1. CASE ScanStep
    BY <2>1 DEF ScanStep, OpenFails, OpenObject, SkipArchive, OpenArchive, ScanMember,
                EndScan, Loaded, EndFiles
  <2>2. CASE SegmentStep
    BY <2>2 DEF SegmentStep, Reject, StartModule, DoSegment, EndSegments
  <2>3. CASE SymSegment \/ SymDropped
    BY <2>3 DEF SymSegment, SymDropped
  <2>4. CASE EndSymbols \/ SkipSymbol \/ EndCommons \/ EndPass1
    BY <2>4, Zenon DEF EndSymbols, SkipSymbol, EndCommons, EndPass1
  <2>5. CASE UNCHANGED vars1
    BY <2>5 DEF vars1
  <2> QED
    BY <2>1, <2>2, <2>3, <2>4, <2>5 DEF Next1, Step1, Pass1, Ended1, ScanStep, SegmentStep
<1> QED
  BY <1>3, <1>4, <1>5, <1>6, <1>7, <1>8, <1>9
-----------------------------------------------------------------------------
(* Module m is the one <<file, member>> that mods names, and obj is the    *)
(* module being loaded.                                                    *)
LoadInv ==
  /\ mods \in Seq((1 .. Len(filtab)) \X Nat)
  /\ Len(mods) = modno /\ Len(modsym) = modno /\ (pc = "pass0" => mods = <<>>)
  /\ \A m \in 1 .. modno : Module(m) \in ModuleRecord
CurInv ==
  /\ pc \in {"load", "seg", "sym"} => obj = Member(<<fi, mi>>)
  /\ pc \in {"seg", "sym"} => mods[modno] = <<fi, mi>>

(* While no module is started the numbers of the modules keep their        *)
(* meaning.                                                                *)
LEMMA LoadSame ==
  ASSUME LoadInv, SameFiles, pc # "pass0", pc' # "pass0", UNCHANGED <<modmap, modsym, mods>>
  PROVE  /\ LoadInv'
         /\ \A m \in 1 .. modno : Module(m)' = Module(m)
<1>1. Len(filtab') = Len(filtab) /\ modno' = modno
  BY DEF SameFiles, modno
<1>2. ASSUME NEW m \in 1 .. modno PROVE Module(m)' = Module(m)
  <2>1. mods[m] \in (1 .. Len(filtab)) \X Nat /\ mods'[m] = mods[m]
    BY ElementOfSeq DEF LoadInv
  <2>2. Member(mods[m])' = Member(mods[m])
    BY <2>1 DEF Member, SameFiles
  <2> QED
    BY <2>1, <2>2 DEF Module
<1>3. \A m \in 1 .. modno' : Module(m)' \in ModuleRecord
  BY <1>1, <1>2 DEF LoadInv
<1> QED
  BY <1>1, <1>2, <1>3 DEF LoadInv

(* p1load() gives the module being loaded the next number.                 *)
LEMMA LoadStart ==
  ASSUME IInv, LoadInv, CurInv, SameFiles, StartModule, pc' = "seg"
  PROVE  /\ LoadInv' /\ CurInv'
         /\ \A m \in 1 .. modno : Module(m)' = Module(m) /\ modsym'[m] = modsym[m]
         /\ modno' = modno + 1 /\ modsym'[modno + 1] = Len(symap)
         /\ \A m \in Nat : m = modno + 1 => Module(m)' = obj
<1>0. TypeOK1
  BY DEF IInv
<1>1. /\ modmap \in Seq(Nat) /\ modsym \in Seq(Nat) /\ mapx \in Nat /\ Len(symap) \in Nat
      /\ obj \in ModuleRecord /\ modno \in Nat /\ mi \in Nat
  BY <1>0 DEF TypeOK1, ModuleType, LoadableOK, ControlType, mapx, modno
<1>2. fi \in 1 .. Len(filtab)
  BY <1>0, FileType DEF StartModule, TypeOK1, LoopType
<1>3. /\ modmap' = Append(modmap, mapx) /\ modsym' = Append(modsym, Len(symap))
      /\ mods' = Append(mods, <<fi, mi>>) /\ UNCHANGED <<fi, mi, obj, filtab>>
  BY DEF StartModule, Fatal, optvars
<1>4. /\ mods \in Seq((1 .. Len(filtab)) \X Nat) /\ Len(mods) = modno /\ Len(modsym) = modno
      /\ <<fi, mi>> \in (1 .. Len(filtab)) \X Nat
  BY <1>1, <1>2 DEF LoadInv
<1>5. /\ modno' = modno + 1 /\ Len(modsym') = modno + 1 /\ Len(mods') = modno + 1
      /\ modsym'[modno + 1] = Len(symap) /\ mods'[modno + 1] = <<fi, mi>>
      /\ mods' \in Seq((1 .. Len(filtab)) \X Nat)
      /\ \A m \in 1 .. modno : modsym'[m] = modsym[m] /\ mods'[m] = mods[m]
  <2>1. modno' = modno + 1
    BY <1>1, <1>3, AppendProperties DEF modno
  <2>2. /\ Len(modsym') = modno + 1 /\ modsym'[modno + 1] = Len(symap)
        /\ \A m \in 1 .. modno : modsym'[m] = modsym[m]
    <3>1. modsym \in Seq(Nat) /\ Len(symap) \in Nat /\ Len(modsym) = modno
          /\ modsym' = Append(modsym, Len(symap))
      BY <1>1, <1>3, <1>4
    <3> QED
      BY <3>1, AppendProperties
  <2>3. /\ Len(mods') = modno + 1 /\ mods'[modno + 1] = <<fi, mi>>
        /\ mods' \in Seq((1 .. Len(filtab)) \X Nat)
        /\ \A m \in 1 .. modno : mods'[m] = mods[m]
    <3> DEFINE S == (1 .. Len(filtab)) \X Nat
               e == <<fi, mi>>
    <3>1. mods \in Seq(S) /\ e \in S /\ mods' = Append(mods, e) /\ Len(mods) = modno
      BY <1>3, <1>4
    <3> HIDE DEF S, e
    <3>2. /\ Len(mods') = modno + 1 /\ mods'[modno + 1] = e /\ mods' \in Seq(S)
          /\ \A m \in 1 .. modno : mods'[m] = mods[m]
      BY <3>1, AppendProperties
    <3> QED
      BY <3>2 DEF S, e
  <2> QED
    BY <2>1, <2>2, <2>3
<1>6. obj = Member(<<fi, mi>>) /\ Member(<<fi, mi>>)' = Member(<<fi, mi>>)
  <2>1. obj = Member(<<fi, mi>>)
    BY DEF CurInv, StartModule
  <2>2. filtab' = filtab /\ fi' = fi /\ mi' = mi
    BY <1>3
  <2> QED
    BY <2>1, <2>2 DEF Member
<1>7. ASSUME NEW m \in Nat, m = modno + 1 PROVE Module(m)' = obj
  <2>1. mods'[m] = <<fi, mi>> /\ filtab' = filtab
    BY <1>3, <1>5, <1>7
  <2> QED
    BY <1>6, <2>1 DEF Module, Member
<1>8. \A m \in 1 .. modno : Module(m)' = Module(m)
  <2>1. TAKE m \in 1 .. modno
  <2>2. mods[m] \in (1 .. Len(filtab)) \X Nat /\ mods'[m] = mods[m]
    BY <1>4, <1>5, ElementOfSeq
  <2>3. Member(mods[m])' = Member(mods[m])
    BY <2>2 DEF Member, SameFiles
  <2> QED
    BY <2>2, <2>3 DEF Module
<1>9. LoadInv'
  <2>1. ASSUME NEW m \in 1 .. modno' PROVE Module(m)' \in ModuleRecord
    <3>1. CASE m = modno + 1
      BY <1>1, <1>7, <3>1
    <3>2. CASE m \in 1 .. modno
      BY <1>8, <3>2 DEF LoadInv
    <3> QED
      BY <1>1, <1>5, <3>1, <3>2
  <2>2. Len(filtab') = Len(filtab)
    BY DEF SameFiles
  <2> QED
    BY <1>5, <2>1, <2>2 DEF LoadInv
<1>10. CurInv'
  BY <1>3, <1>5, <1>6 DEF CurInv
<1> QED
  BY <1>5, <1>7, <1>8, <1>9, <1>10

(* symap holds an entry for each symbol of every finished module, and for  *)
(* the symbols of the current one that have been seen.                     *)
LengthInv ==
  /\ pc = "seg" => Len(symap) = modsym[modno]
  /\ pc = "sym" => Len(symap) = modsym[modno] + k - 1
  /\ \A m \in 1 .. modno : m < modno \/ pc \notin {"seg", "sym"} =>
       modsym[m] + Len(Module(m).syms) <= Len(symap)
Bound(m, i) ==
  LET s == Module(m).syms[i]  at == modsym[m] + i IN
  s.fl \in {UNX, GLB} /\ at <= Len(symap) =>
    Found(symhash, s.name) /\ symap[at] = symhash[s.name]
AllBound == \A m \in 1 .. modno : \A i \in 1 .. Len(Module(m).syms) : Bound(m, i)
SymapInv == LoadInv /\ CurInv /\ (pc # "fatal" => LengthInv /\ AllBound)

(* A module whose symbols were bound stays bound.                          *)
LEMMA BoundKept ==
  ASSUME IInv, SymbolsKept, NEW m \in Nat, NEW i \in Nat, Bound(m, i),
         Module(m)' = Module(m), modsym'[m] = modsym[m],
         modsym[m] + i \in 1 .. Len(symap), symap'[modsym[m] + i] = symap[modsym[m] + i]
  PROVE  Bound(m, i)'
<1>1. symap \in Seq(Nat)
  BY DEF IInv, TypeOK1, ModuleType
<1> SUFFICES ASSUME Module(m).syms[i].fl \in {UNX, GLB}
             PROVE  /\ Found(symhash', Module(m).syms[i].name)
                    /\ symap'[modsym[m] + i] = symhash'[Module(m).syms[i].name]
  BY DEF Bound
<1>2. modsym[m] + i <= Len(symap)
  BY <1>1
<1> QED
  BY <1>2 DEF Bound, SymbolsKept, Found

(* Steps that load nothing keep all modules bound.                         *)
LEMMA BoundSame ==
  ASSUME IInv, LoadInv, AllBound, SymbolsKept, SameFiles, pc # "pass0", pc' # "pass0",
         UNCHANGED <<modmap, modsym, mods, symap>>
  PROVE  AllBound'
<1>1. \A m \in 1 .. modno : Module(m)' = Module(m)
  BY LoadSame
<1>2. modno' = modno /\ modmap \in Seq(Nat) /\ modsym \in Seq(Nat) /\ modno \in Nat
      /\ Len(modsym) = modno
  BY DEF modno, IInv, TypeOK1, ModuleType, LoadInv
<1>3. ASSUME NEW m \in 1 .. modno, NEW i \in 1 .. Len(Module(m).syms) PROVE Bound(m, i)'
  <2>1. Module(m)' = Module(m) /\ Bound(m, i) /\ m \in Nat /\ i \in Nat
    BY <1>1 DEF AllBound
  <2>2. modsym[m] \in Nat
    BY <1>2, ElementOfSeq
  <2>3. CASE modsym[m] + i \in 1 .. Len(symap)
    BY <2>1, <2>3, BoundKept
  <2>4. CASE modsym[m] + i \notin 1 .. Len(symap)
    <3>1. symap \in Seq(Nat)
      BY DEF IInv, TypeOK1, ModuleType
    <3>2. ~(modsym[m] + i <= Len(symap))
      BY <2>1, <2>2, <2>4, <3>1
    <3> QED
      BY <3>2 DEF Bound
  <2> QED
    BY <2>3, <2>4
<1> QED
  BY <1>1, <1>2, <1>3 DEF AllBound

(* p1dosym() appends to symap the entry of the symbol it has just seen.    *)
LEMMA SymbolMapped ==
  ASSUME IInv, SymbolStep, pc' = "sym"
  PROVE  \E x \in Nat : /\ symap' = Append(symap, x)
                        /\ Cur.fl \in {UNX, GLB} =>
                             Found(symhash', Cur.name) /\ x = symhash'[Cur.name]
<1>1. /\ symtab \in Seq(SymRecord) /\ symlev \in Nat
      /\ \A n \in DOMAIN symhash : symhash[n] \in Nat
      /\ \A n \in DOMAIN seghash : seghash[n] \in Nat
  BY DEF IInv, TypeOK1, SymbolType, HashExact, symlev
<1>2. UNX = 2 /\ GLB = 3 /\ LOC = 1 /\ SEG = 4
  BY DEF UNX, GLB, LOC, SEG
<1>3. CASE SymSegment
  BY <1>1, <1>2, <1>3 DEF SymSegment, Mapped, Found
<1>4. CASE SymDropped
  BY <1>1, <1>2, <1>4 DEF SymDropped, Mapped
<1>5. CASE SymReference
  BY <1>1, <1>2, <1>5 DEF SymReference, Mapped, Found
<1>6. CASE SymDefinition
  BY <1>1, <1>2, <1>6 DEF SymDefinition, Mapped, Found
<1>7. CASE SymNew
  <2>1. /\ symap' = Append(symap, symlev)
        /\ symhash' = IF Cur.fl \in {UNX, GLB} THEN Extend(symhash, Cur.name, symlev)
                      ELSE symhash
    BY <1>7 DEF SymNew, Mapped, Fatal
  <2>2. Cur.fl \in {UNX, GLB} => Found(symhash', Cur.name) /\ symlev = symhash'[Cur.name]
    BY <2>1 DEF Extend, Found
  <2> QED
    BY <1>1, <2>1, <2>2
<1> QED
  BY <1>3, <1>4, <1>5, <1>6, <1>7 DEF SymbolStep

LEMMA SymbolBound ==
  ASSUME IInv, LoadInv, CurInv, LengthInv, AllBound, SymbolsKept, SameFiles,
         SymbolStep, pc' = "sym"
  PROVE  LoadInv' /\ CurInv' /\ LengthInv' /\ AllBound'
<1>1. /\ pc = "sym" /\ k' = k + 1 /\ k <= Len(obj.syms)
      /\ UNCHANGED <<fi, mi, obj, modmap, modsym, mods>>
  BY DEF SymbolStep, SymSegment, SymDropped, SymReference, SymDefinition, SymNew,
         SymStep, SymFrame
<1>2. /\ LoadInv' /\ \A m \in 1 .. modno : Module(m)' = Module(m)
  BY <1>1, LoadSame
<1>3. /\ k \in Nat /\ k >= 1 /\ symap \in Seq(Nat) /\ modsym \in Seq(Nat)
      /\ modno \in Nat /\ modno >= 1 /\ modno' = modno /\ Len(modsym) = modno
  BY <1>1 DEF IInv, TypeOK1, ControlType, LoopType, ModuleType, modno, LoadInv
<1>4. /\ Len(symap) \in Nat /\ modsym[modno] \in Nat
      /\ Len(symap) = modsym[modno] + k - 1
  BY <1>1, <1>3, ElementOfSeq DEF LengthInv
<1>5. PICK x \in Nat : /\ symap' = Append(symap, x)
                       /\ Cur.fl \in {UNX, GLB} =>
                            Found(symhash', Cur.name) /\ x = symhash'[Cur.name]
  BY SymbolMapped
<1>6. /\ Len(symap') = Len(symap) + 1 /\ symap'[Len(symap) + 1] = x
      /\ \A at \in 1 .. Len(symap) : symap'[at] = symap[at]
  BY <1>3, <1>5, AppendProperties
<1>7. Module(modno) = obj /\ obj = Member(<<fi, mi>>) /\ mods[modno] = <<fi, mi>>
  BY <1>1 DEF CurInv, Module
<1>8. CurInv'
  <2>1. filtab' = filtab
    BY DEF SymbolStep, SymSegment, SymDropped, SymReference, SymDefinition, SymNew,
           SymFrame, optvars
  <2> QED
    BY <1>1, <1>3, <1>7, <2>1 DEF CurInv, Member
<1>9. ASSUME NEW m \in 1 .. modno, m < modno
      PROVE  modsym[m] \in Nat /\ Len(Module(m).syms) \in Nat
             /\ modsym[m] + Len(Module(m).syms) <= Len(symap)
  <2>1. Module(m) \in ModuleRecord
    BY DEF LoadInv
  <2> QED
    BY <1>3, <1>9, <2>1, ElementOfSeq DEF LengthInv, ModuleRecord
<1>10. LengthInv'
  <2>1. Len(symap') = modsym'[modno'] + k' - 1
    BY <1>1, <1>3, <1>4, <1>6
  <2>2. ASSUME NEW m \in 1 .. modno', m < modno' \/ pc' \notin {"seg", "sym"}
        PROVE  modsym'[m] + Len(Module(m)'.syms) <= Len(symap')
    <3>1. m \in 1 .. modno /\ m < modno
      BY <1>3, <2>2
    <3>2. modsym'[m] = modsym[m] /\ Module(m)' = Module(m)
      BY <1>1, <1>2, <3>1
    <3> QED
      BY <1>4, <1>6, <1>9, <3>1, <3>2
  <2> QED
    BY <1>1, <2>1, <2>2 DEF LengthInv
<1>11. AllBound'
  <2>1. ASSUME NEW m \in 1 .. modno, NEW i \in 1 .. Len(Module(m).syms) PROVE Bound(m, i)'
    <3>1. /\ modsym[m] \in Nat /\ m \in Nat /\ i \in Nat /\ i >= 1
          /\ Module(m)' = Module(m) /\ modsym'[m] = modsym[m]
      BY <1>1, <1>2, <1>3, ElementOfSeq
    <3>2. CASE modsym[m] + i \in 1 .. Len(symap)
      BY <1>6, <2>1, <3>1, <3>2, BoundKept DEF AllBound
    <3>3. CASE modsym[m] + i = Len(symap) + 1
      <4>1. m = modno
        <5>1. CASE m < modno
          BY <1>4, <1>9, <2>1, <3>1, <3>3, <5>1
        <5> QED
          BY <1>3, <5>1
      <4>2. i = k
        BY <1>3, <1>4, <3>1, <3>3, <4>1
      <4>3. Module(m).syms[i] = Cur
        BY <1>7, <4>1, <4>2 DEF Cur
      <4> QED
        BY <1>5, <1>6, <3>1, <3>3, <4>3 DEF Bound
    <3>4. CASE modsym[m] + i > Len(symap) + 1
      BY <1>4, <1>6, <3>1, <3>4 DEF Bound
    <3> QED
      BY <1>4, <3>1, <3>2, <3>3, <3>4
  <2> QED
    BY <1>2, <1>3, <2>1 DEF AllBound
<1> QED
  BY <1>2, <1>8, <1>10, <1>11

(* Every step of pass 1 keeps the modules' symbols bound.                  *)
Idle == /\ UNCHANGED <<modmap, modsym, mods, symap>>
        /\ pc \notin {"pass0", "seg", "sym"} /\ pc' \notin {"pass0", "seg", "sym"}
LEMMA IdleKeeps ==
  ASSUME IInv, SymapInv, pc # "fatal", SymbolsKept, SameFiles, Idle, CurInv'
  PROVE  SymapInv'
<1>1. LoadInv' /\ (\A m \in 1 .. modno : Module(m)' = Module(m)) /\ modno' = modno
  BY LoadSame DEF Idle, SymapInv, modno
<1>2. AllBound'
  BY BoundSame DEF Idle, SymapInv
<1>3. LengthInv'
  BY <1>1 DEF Idle, SymapInv, LengthInv
<1> QED
  BY <1>1, <1>2, <1>3 DEF SymapInv

LEMMA SymapStep == IInv /\ SymapInv /\ [Next1]_vars1 => SymapInv'
<1> SUFFICES ASSUME IInv, SymapInv, [Next1]_vars1 PROVE SymapInv'
  OBVIOUS
<1>0. TypeOK1 /\ LoadInv /\ CurInv /\ (pc # "fatal" => LengthInv /\ AllBound)
  BY DEF IInv, SymapInv
<1>1. CASE Pass0
  <2>1. mods' = <<>> /\ modno = 0 /\ modno' = 0 /\ UNCHANGED modsym
        /\ pc' \in {"pass0", "open", "fatal"} /\ pc = "pass0"
    <3>1. UNCHANGED <<modmap, modsym, mods>> /\ pc = "pass0"
      BY <1>1 DEF Pass0, OptFlag, OptStack, OptTypes, OptFile, OptUndef, OptDescr, OptNamed,
                  EndPass0, Option, modvars
    <3>2. pc' \in {"pass0", "open", "fatal"}
      BY <1>1 DEF Pass0, OptFlag, OptStack, OptTypes, OptFile, OptUndef, OptDescr, OptNamed,
                  EndPass0, Option, Fatal
    <3> QED
      BY <1>0, <3>1, <3>2 DEF LoadInv, modno
  <2>2. Len(modsym') = 0 /\ Len(mods') = 0
    BY <1>0, <2>1 DEF LoadInv
  <2> QED
    BY <2>1, <2>2 DEF SymapInv, LoadInv, CurInv, LengthInv, AllBound
<1>2. CASE ~Pass0 /\ pc # "pass0"
  <2>1. SameFiles /\ SymbolsKept
    BY <1>0, <1>2, FilesKept, SymbolsStay
  <2>2. CASE pc' = "fatal" /\ pc # "fatal"
    <3>1. UNCHANGED <<modmap, modsym, mods>>
      <4>1. CASE ScanStep \/ FinishStep
        BY <4>1, Zenon DEF ScanStep, OpenFails, OpenObject, SkipArchive, OpenArchive, ScanMember,
               EndScan, Loaded, EndFiles, FinishStep, EndSymbols, SkipSymbol, EndCommons,
               AllocCommon, EndPass1, modvars
      <4>2. CASE SegmentStep
        BY <2>2, <4>2 DEF SegmentStep, Reject, StartModule, DoSegment, EndSegments, modvars
      <4>3. CASE SymbolStep
        BY <4>3 DEF SymbolStep, SymSegment, SymDropped, SymReference, SymDefinition, SymNew,
                    SymFrame
      <4>4. CASE UNCHANGED vars1
        BY <4>4 DEF vars1, modvars
      <4> QED
        BY <1>2, <4>1, <4>2, <4>3, <4>4
           DEF Next1, Step1, Pass1, Ended1, ScanStep, SegmentStep, SymbolStep, FinishStep
    <3>2. LoadInv'
      BY <1>0, <1>2, <2>1, <2>2, <3>1, LoadSame
    <3> QED
      BY <2>2, <3>2 DEF SymapInv, CurInv
  <2>3. CASE ScanStep /\ pc' # "fatal"
    <3>1. Idle /\ pc # "fatal" /\ UNCHANGED <<modmap, modsym, mods, symap>>
      BY <1>2, <2>3 DEF Idle, ScanStep, OpenFails, OpenObject, SkipArchive, OpenArchive,
             ScanMember, EndScan, Loaded, EndFiles, NextFile, Fatal, modvars
    <3>2. CurInv'
      <4>1. CASE OpenObject
        <5>1. /\ obj' = File.mods[1] /\ mi' = 0 /\ fi' = fi /\ pc' = "load"
              /\ fi <= Len(filtab)
          BY <2>3, <4>1 DEF OpenObject, Fatal
        <5>2. fi \in 1 .. Len(filtab)
          BY <1>0, <5>1, FileType
        <5>3. filtab'[fi].file = filtab[fi].file
          BY <2>1, <5>2 DEF SameFiles
        <5> QED
          BY <5>1, <5>3 DEF CurInv, Member, File
      <4>2. CASE ScanMember
        <5>1. pc = "scan" /\ fi' = fi /\ fi <= Len(filtab) /\ mi \in Nat /\ mi >= 1
          BY <1>0, <4>2 DEF ScanMember, TypeOK1, LoopType, ControlType
        <5>2. CASE pc' = "load"
          <6>1. obj' = File.mods[mi] /\ mi' = mi
            BY <4>2, <5>1, <5>2 DEF ScanMember, Fatal
          <6>2. fi \in 1 .. Len(filtab)
            BY <1>0, <5>1, FileType
          <6>3. filtab'[fi].file = filtab[fi].file
            BY <2>1, <6>2 DEF SameFiles
          <6> QED
            BY <5>1, <5>2, <6>1, <6>3 DEF CurInv, Member, File
        <5> QED
          BY <3>1, <5>2 DEF CurInv, Idle
      <4>3. CASE pc' # "load"
        BY <3>1, <4>3 DEF CurInv, Idle
      <4>4. pc' # "load" \/ OpenObject \/ ScanMember
        BY <2>3 DEF ScanStep, OpenFails, SkipArchive, OpenArchive, EndScan, Loaded, EndFiles,
               NextFile
      <4> QED
        BY <4>1, <4>2, <4>3, <4>4
    <3> QED
      BY <2>1, <3>1, <3>2, IdleKeeps
  <2>4. CASE Reject \/ SkipSymbol \/ EndCommons \/ ((AllocCommon \/ EndPass1) /\ pc' # "fatal")
    <3>1. /\ Idle /\ pc # "fatal" /\ pc' # "load"
          /\ UNCHANGED <<modmap, modsym, mods, symap>>
      BY <1>2, <2>4, Zenon DEF Idle, Reject, SkipSymbol, EndCommons, AllocCommon, EndPass1, Fatal,
             modvars
    <3>2. CurInv'
      BY <3>1 DEF CurInv, Idle
    <3> QED
      BY <2>1, <3>1, <3>2, IdleKeeps
  <2>5. CASE StartModule /\ pc' # "fatal"
    <3>1. pc = "load" /\ pc' = "seg" /\ k' = 0 /\ UNCHANGED symap
      BY <2>5 DEF StartModule, Fatal
    <3>2. /\ LoadInv' /\ CurInv'
          /\ \A m \in 1 .. modno : Module(m)' = Module(m) /\ modsym'[m] = modsym[m]
          /\ modno' = modno + 1 /\ modsym'[modno + 1] = Len(symap)
          /\ \A m \in Nat : m = modno + 1 => Module(m)' = obj
      BY <1>0, <2>1, <2>5, <3>1, LoadStart
    <3>3. /\ modno \in Nat /\ symap \in Seq(Nat) /\ Len(symap) \in Nat
          /\ modsym \in Seq(Nat) /\ Len(modsym) = modno
      BY <1>0 DEF TypeOK1, ModuleType, modno, LoadInv
    <3>4. LengthInv'
      <4>1. ASSUME NEW m \in 1 .. modno', m < modno'
            PROVE  modsym'[m] + Len(Module(m)'.syms) <= Len(symap')
        <5>1. m \in 1 .. modno
          BY <3>2, <3>3, <4>1
        <5>2. modsym[m] + Len(Module(m).syms) <= Len(symap)
          BY <1>0, <3>1, <5>1 DEF LengthInv
        <5> QED
          BY <3>1, <3>2, <5>1, <5>2
      <4> QED
        BY <3>1, <3>2, <4>1 DEF LengthInv
    <3>5. AllBound'
      <4>1. ASSUME NEW m \in 1 .. modno, NEW i \in 1 .. Len(Module(m).syms)
            PROVE  Bound(m, i)'
        <5>1. /\ Bound(m, i) /\ m \in Nat /\ i \in Nat /\ i >= 1 /\ modsym[m] \in Nat
              /\ Len(Module(m).syms) \in Nat
          <6>1. Module(m) \in ModuleRecord
            BY <1>0 DEF LoadInv
          <6> QED
            BY <1>0, <3>1, <3>3, <6>1, ElementOfSeq DEF AllBound, ModuleRecord
        <5>2. modsym[m] + Len(Module(m).syms) <= Len(symap)
          BY <1>0, <3>1 DEF LengthInv
        <5>3. modsym[m] + i \in 1 .. Len(symap)
          BY <3>3, <5>1, <5>2
        <5> QED
          BY <2>1, <3>1, <3>2, <5>1, <5>3, BoundKept
      <4>2. ASSUME NEW m \in Nat, m = modno + 1, NEW i \in Nat, i >= 1 PROVE Bound(m, i)'
        <5>1. modsym'[m] = Len(symap) /\ symap' = symap
          BY <3>1, <3>2, <4>2
        <5>2. ~(modsym'[m] + i <= Len(symap'))
          BY <3>3, <4>2, <5>1
        <5> QED
          BY <5>2 DEF Bound
      <4>3. ASSUME NEW m \in 1 .. modno', NEW i \in 1 .. Len(Module(m)'.syms)
            PROVE  Bound(m, i)'
        <5>1. m \in 1 .. modno \/ m = modno + 1
          BY <3>2, <3>3
        <5> QED
          BY <3>2, <3>3, <4>1, <4>2, <5>1
      <4> QED
        BY <4>3 DEF AllBound
    <3> QED
      BY <3>2, <3>4, <3>5 DEF SymapInv
  <2>6. CASE DoSegment /\ pc' # "fatal"
    <3>1. pc = "seg" /\ pc' = "seg" /\ UNCHANGED <<fi, mi, obj, filtab, modmap, modsym, mods, symap>>
      BY <2>6 DEF DoSegment, Fatal, optvars
    <3>2. LoadInv' /\ (\A m \in 1 .. modno : Module(m)' = Module(m)) /\ modno' = modno
      BY <1>0, <2>1, <3>1, LoadSame DEF modno
    <3>3. AllBound'
      BY <1>0, <2>1, <3>1, BoundSame
    <3>4. CurInv'
      BY <1>0, <3>1, <3>2 DEF CurInv, Member
    <3>5. LengthInv'
      BY <1>0, <3>1, <3>2 DEF LengthInv
    <3> QED
      BY <3>2, <3>3, <3>4, <3>5 DEF SymapInv
  <2>7. CASE EndSegments
    <3>1. pc = "seg" /\ pc' = "sym" /\ k' = 1
          /\ UNCHANGED <<fi, mi, obj, filtab, modmap, modsym, mods, symap>>
      BY <2>7 DEF EndSegments, optvars, modvars
    <3>2. LoadInv' /\ (\A m \in 1 .. modno : Module(m)' = Module(m)) /\ modno' = modno
      BY <1>0, <2>1, <3>1, LoadSame DEF modno
    <3>3. AllBound'
      BY <1>0, <2>1, <3>1, BoundSame
    <3>4. CurInv'
      BY <1>0, <3>1, <3>2 DEF CurInv, Member
    <3>5. LengthInv'
      <4>1. Len(symap) \in Nat /\ Len(symap) = modsym[modno]
        BY <1>0, <3>1 DEF TypeOK1, ModuleType, LengthInv
      <4>2. Len(symap') = modsym'[modno'] + k' - 1
        BY <3>1, <3>2, <4>1
      <4>3. \A m \in 1 .. modno : m < modno => modsym[m] + Len(Module(m).syms) <= Len(symap)
        BY <1>0, <3>1 DEF LengthInv
      <4> QED
        BY <3>1, <3>2, <4>2, <4>3 DEF LengthInv
    <3> QED
      BY <3>2, <3>3, <3>4, <3>5 DEF SymapInv
  <2>8. CASE SymbolStep /\ pc' # "fatal"
    <3>1. pc = "sym" /\ pc' = "sym"
      BY <2>8 DEF SymbolStep, SymSegment, SymDropped, SymReference, SymDefinition, SymNew,
             SymStep, Fatal
    <3> QED
      BY <1>0, <2>1, <2>8, <3>1, SymbolBound DEF SymapInv
  <2>9. CASE EndSymbols
    <3>1. pc = "sym" /\ k > Len(obj.syms) /\ pc' = "loaded"
          /\ UNCHANGED <<fi, mi, obj, filtab, modmap, modsym, mods, symap>>
      BY <2>9 DEF EndSymbols, optvars, modvars
    <3>2. LoadInv' /\ (\A m \in 1 .. modno : Module(m)' = Module(m)) /\ modno' = modno
      BY <1>0, <2>1, <3>1, LoadSame DEF modno
    <3>3. AllBound'
      BY <1>0, <2>1, <3>1, BoundSame
    <3>4. CurInv'
      BY <3>1 DEF CurInv
    <3>5. LengthInv'
      <4>1. /\ k \in Nat /\ modno \in Nat /\ modno >= 1 /\ modsym \in Seq(Nat)
            /\ Len(modsym) = modno /\ Len(obj.syms) \in Nat
        BY <1>0, <3>1 DEF TypeOK1, ControlType, LoopType, ModuleType, LoadableOK,
               ModuleRecord, modno, LoadInv
      <4>2. Module(modno) = obj
        BY <1>0, <3>1 DEF CurInv, Module
      <4>3. modsym[modno] \in Nat /\ Len(symap) = modsym[modno] + k - 1
        BY <1>0, <3>1, <4>1, ElementOfSeq DEF LengthInv
      <4>4. modsym[modno] + Len(Module(modno).syms) <= Len(symap)
        BY <3>1, <4>1, <4>2, <4>3
      <4>5. \A m \in 1 .. modno : modsym[m] + Len(Module(m).syms) <= Len(symap)
        <5>1. \A m \in 1 .. modno : m < modno \/ m = modno
          BY <4>1
        <5>2. \A m \in 1 .. modno : m < modno => modsym[m] + Len(Module(m).syms) <= Len(symap)
          BY <1>0, <3>1 DEF LengthInv
        <5> QED
          BY <4>4, <5>1, <5>2
      <4> QED
        BY <3>1, <3>2, <4>5 DEF LengthInv
    <3> QED
      BY <3>2, <3>3, <3>4, <3>5 DEF SymapInv
  <2>10. CASE UNCHANGED vars1
    <3>1. /\ UNCHANGED <<pc, k, fi, mi, obj, filtab, modmap, modsym, mods, symap, symhash>>
      BY <2>10 DEF vars1, optvars, modvars, symvars
    <3>2. LoadInv' /\ (\A m \in 1 .. modno : Module(m)' = Module(m)) /\ modno' = modno
      BY <1>0, <1>2, <2>1, <3>1, LoadSame DEF modno
    <3>3. CurInv'
      BY <1>0, <3>1, <3>2 DEF CurInv, Member
    <3>4. ASSUME pc # "fatal" PROVE LengthInv' /\ AllBound'
      BY <1>0, <1>2, <2>1, <3>1, <3>2, <3>4, BoundSame DEF LengthInv
    <3> QED
      BY <3>1, <3>2, <3>3, <3>4 DEF SymapInv
  <2>11. CASE pc = "fatal"
    <3>1. UNCHANGED vars1
      BY <1>2, <2>11 DEF Next1, Step1, Pass1, Ended1, OpenFails, OpenObject, SkipArchive,
             OpenArchive, ScanMember, EndScan, Reject, StartModule, DoSegment, EndSegments,
             SymSegment, SymDropped, SymReference, SymDefinition, SymNew, SymStep,
             EndSymbols, Loaded, EndFiles, SkipSymbol, AllocCommon, EndCommons, EndPass1
    <3> QED
      BY <2>10, <3>1
  <2> QED
    BY <1>2, <2>2, <2>3, <2>4, <2>5, <2>6, <2>7, <2>8, <2>9, <2>10, <2>11
       DEF Next1, Step1, Pass1, Ended1, ScanStep, SegmentStep, SymbolStep, FinishStep
<1>3. CASE ~Pass0 /\ pc = "pass0"
  <2>1. UNCHANGED vars1
    BY <1>3 DEF Next1, Step1, Pass1, Ended1, OpenFails, OpenObject, SkipArchive,
           OpenArchive, ScanMember, EndScan, Reject, StartModule, DoSegment, EndSegments,
           SymSegment, SymDropped, SymReference, SymDefinition, SymNew, SymStep,
           EndSymbols, Loaded, EndFiles, SkipSymbol, AllocCommon, EndCommons, EndPass1
  <2>2. mods' = <<>> /\ pc' = "pass0" /\ UNCHANGED <<modmap, modsym>>
    BY <1>0, <1>3, <2>1 DEF LoadInv, vars1, modvars
  <2>3. Len(mods) = 0 /\ Len(modsym') = 0 /\ modno = 0 /\ modno' = 0
    BY <1>0, <1>3, <2>2 DEF LoadInv, modno
  <2> QED
    BY <2>2, <2>3 DEF SymapInv, LoadInv, CurInv, LengthInv, AllBound
<1> QED
  BY <1>1, <1>2, <1>3

LEMMA SymapInit == Init1 => SymapInv
<1> SUFFICES ASSUME Init1 PROVE SymapInv
  OBVIOUS
<1>1. modno = 0 /\ mods = <<>> /\ modsym = <<>> /\ pc = "pass0"
  BY DEF Init1, modno
<1> QED
  BY <1>1 DEF SymapInv, LoadInv, CurInv, LengthInv, AllBound

(* symap sends each external of each loaded module to the one entry of its *)
(* name, for every input: what pass 2 relies on to bind relocations.       *)
THEOREM SymapCorrect == Spec1 => []SymapSound
<1>1. SymapInv => SymapSound
  BY DEF SymapInv, AllBound, Bound, SymapSound
<1>2. Init1 => SymapInv
  BY SymapInit
<1>3. IInv /\ SymapInv /\ [Next1]_vars1 => SymapInv'
  BY SymapStep
<1> QED
  BY <1>1, <1>2, <1>3, Invariance, PTL DEF Spec1
-----------------------------------------------------------------------------
(* Why no member is loaded twice: the names that a loaded module defines   *)
(* are no longer wanted, and a file that is one object is opened once.     *)
Settled(m, i) ==
  LET s == Module(m).syms[i] IN
  s.fl = GLB /\ modsym[m] + i <= Len(symap) =>
    Found(symhash, s.name) /\ symtab[symhash[s.name]].fl = GLB
AllSettled == \A m \in 1 .. modno : \A i \in 1 .. Len(Module(m).syms) : Settled(m, i)
OrderInv ==
  /\ pc = "open" => \A m \in 1 .. modno : mods[m][1] < fi
  /\ pc \in {"scan", "load", "seg", "sym", "loaded"} =>
       \A m \in 1 .. modno : mods[m][1] <= fi
  /\ pc = "scan" => File.kind # "obj"
  /\ pc = "load" => IF File.kind = "obj" THEN \A m \in 1 .. modno : mods[m][1] < fi
                    ELSE \E n \in Names : Defines(obj, n) /\ Wanted(n)
OnceInv == MembersLoadedOnce /\ (pc # "fatal" => AllSettled /\ OrderInv)

(* Modules keep their numbers; only p1load() adds one.                     *)
LEMMA ModulesStay ==
  ASSUME IInv, SymapInv, [Next1]_vars1, pc # "pass0"
  PROVE  /\ \A m \in 1 .. modno : /\ Module(m)' = Module(m) /\ modsym'[m] = modsym[m]
                                  /\ mods'[m] = mods[m]
         /\ \/ StartModule /\ pc' = "seg"
            \/ UNCHANGED <<modmap, modsym, mods>>
<1>0. TypeOK1 /\ LoadInv /\ CurInv /\ SameFiles
  BY FilesKept DEF IInv, SymapInv
<1>1. pc' # "pass0"
  <2>1. CASE Pass0
    BY <2>1 DEF Pass0, OptFlag, OptStack, OptTypes, OptFile, OptUndef, OptDescr, OptNamed,
                EndPass0, Option
  <2>2. CASE ScanStep \/ FinishStep
    BY <2>2, Zenon DEF ScanStep, OpenFails, OpenObject, SkipArchive, OpenArchive, ScanMember,
           EndScan, Loaded, EndFiles, FinishStep, EndSymbols, SkipSymbol, EndCommons,
           AllocCommon, EndPass1, NextFile, Fatal
  <2>3. CASE SegmentStep
    BY <2>3 DEF SegmentStep, Reject, StartModule, DoSegment, EndSegments, Fatal
  <2>4. CASE SymbolStep
    BY <2>4 DEF SymbolStep, SymSegment, SymDropped, SymReference, SymDefinition, SymNew,
                SymStep, Fatal
  <2>5. CASE UNCHANGED vars1
    BY <2>5 DEF vars1
  <2> QED
    BY <2>1, <2>2, <2>3, <2>4, <2>5
       DEF Next1, Step1, Pass1, Ended1, ScanStep, SegmentStep, SymbolStep, FinishStep
<1>2. (StartModule /\ pc' = "seg") \/ UNCHANGED <<modmap, modsym, mods>>
  <2>1. CASE Pass0
    BY <2>1 DEF Pass0, OptFlag, OptStack, OptTypes, OptFile, OptUndef, OptDescr, OptNamed,
                EndPass0, Option
  <2>2. CASE ScanStep \/ FinishStep
    BY <2>2, Zenon DEF ScanStep, OpenFails, OpenObject, SkipArchive, OpenArchive, ScanMember,
           EndScan, Loaded, EndFiles, FinishStep, EndSymbols, SkipSymbol, EndCommons,
           AllocCommon, EndPass1, modvars
  <2>3. CASE StartModule
    BY <2>3 DEF StartModule, Fatal
  <2>4. CASE SegmentStep /\ ~StartModule
    BY <2>4 DEF SegmentStep, Reject, DoSegment, EndSegments, modvars
  <2>5. CASE SymbolStep
    BY <2>5 DEF SymbolStep, SymSegment, SymDropped, SymReference, SymDefinition, SymNew,
                SymFrame
  <2>6. CASE UNCHANGED vars1
    BY <2>6 DEF vars1, modvars
  <2> QED
    BY <2>1, <2>2, <2>3, <2>4, <2>5, <2>6
       DEF Next1, Step1, Pass1, Ended1, ScanStep, SegmentStep, SymbolStep, FinishStep
<1>3. CASE UNCHANGED <<modmap, modsym, mods>>
  <2>1. \A m \in 1 .. modno : Module(m)' = Module(m)
    BY <1>0, <1>1, <1>3, LoadSame
  <2> QED
    BY <1>2, <1>3, <2>1
<1>4. CASE StartModule /\ pc' = "seg"
  <2>1. \A m \in 1 .. modno : Module(m)' = Module(m) /\ modsym'[m] = modsym[m]
    BY <1>0, <1>4, LoadStart
  <2>2. mods' = Append(mods, <<fi, mi>>) /\ Len(mods) = modno
    BY <1>0, <1>4 DEF StartModule, Fatal, LoadInv
  <2>3. \A m \in 1 .. modno : mods'[m] = mods[m]
    <3> DEFINE S == (1 .. Len(filtab)) \X Nat
    <3>1. mods \in Seq(S)
      BY <1>0 DEF LoadInv
    <3> HIDE DEF S
    <3>2. \A m \in 1 .. Len(mods) : Append(mods, <<fi, mi>>)[m] = mods[m]
      BY <3>1
    <3> QED
      BY <2>2, <3>2
  <2> QED
    BY <1>4, <2>1, <2>3
<1> QED
  BY <1>2, <1>3, <1>4

(* The symbol that p1dosym() has just seen is defined if the module        *)
(* defines it.                                                             *)
LEMMA DefinedNow ==
  ASSUME IInv, SymbolStep, pc' = "sym", Cur \in SymRecord, Cur.fl = GLB, IInv'
  PROVE  Found(symhash', Cur.name) /\ symtab'[symhash'[Cur.name]].fl = GLB
<1>0. /\ symtab \in Seq(SymRecord) /\ HashExact /\ UNX = 2 /\ GLB = 3 /\ LOC = 1 /\ SEG = 4
  BY DEF IInv, TypeOK1, SymbolType, UNX, GLB, LOC, SEG
<1>1. CASE SymDefinition
  <2>1. /\ Found(symhash, Cur.name) /\ symhash' = symhash
        /\ symhash[Cur.name] \in 1 .. Len(symtab)
        /\ symtab[symhash[Cur.name]].fl \in {UNX, GLB}
    BY <1>0, <1>1 DEF SymDefinition, HashExact, Found
  <2>2. CASE MayDefine(symhash[Cur.name])
    <3>1. PICK start \in Starts(Cur.sg) :
            symtab' = [symtab EXCEPT ![symhash[Cur.name]] = Moved(Cur, start)]
      BY <1>1, <2>2 DEF SymDefinition
    <3>2. Moved(Cur, start).fl = GLB
      <4>1. ModuleType /\ modno >= 1
        BY <1>1 DEF IInv, TypeOK1, LoopType, SymDefinition, SymStep
      <4> QED
        BY <4>1, MovedType
    <3>3. symtab'[symhash[Cur.name]] = Moved(Cur, start)
      BY <1>0, <2>1, <3>1
    <3> QED
      BY <2>1, <3>2, <3>3
  <2>3. CASE ~MayDefine(symhash[Cur.name])
    <3>1. symtab' = symtab /\ symtab[symhash[Cur.name]].fl # UNX
      BY <1>1, <2>3 DEF SymDefinition, MayDefine
    <3> QED
      BY <2>1, <3>1
  <2> QED
    BY <2>2, <2>3
<1>2. CASE SymNew
  <2>1. /\ symhash' = Extend(symhash, Cur.name, symlev)
        /\ \E start \in Starts(Cur.sg) : symtab' = Append(symtab, Moved(Cur, start))
    BY <1>0, <1>2 DEF SymNew, Fatal
  <2>2. PICK start \in Starts(Cur.sg) : symtab' = Append(symtab, Moved(Cur, start))
    BY <2>1
  <2>3. Moved(Cur, start).fl = GLB
    <3>1. ModuleType /\ modno >= 1
      BY <1>2 DEF IInv, TypeOK1, LoopType, SymNew, SymStep
    <3> QED
      BY <3>1, MovedType
  <2>4. symtab'[symlev] = Moved(Cur, start)
    BY <1>0, <2>2 DEF symlev
  <2>5. Found(symhash', Cur.name) /\ symhash'[Cur.name] = symlev
    BY <2>1 DEF Extend, Found
  <2> QED
    BY <2>3, <2>4, <2>5
<1>3. CASE SymSegment \/ SymDropped \/ SymReference
  BY <1>0, <1>3 DEF SymSegment, SymDropped, SymReference
<1> QED
  BY <1>1, <1>2, <1>3 DEF SymbolStep

(* A definition that has been seen stays settled, and the one that is seen *)
(* now becomes it.                                                         *)
LEMMA SettledStep ==
  ASSUME IInv, IInv', SymapInv, SymapInv', AllSettled, [Next1]_vars1,
         pc \notin {"pass0", "fatal"}, pc' # "fatal"
  PROVE  AllSettled'
<1>0. /\ SymbolsKept /\ symap \in Seq(Nat) /\ Len(symap) \in Nat /\ modno \in Nat
      /\ LoadInv /\ LoadInv' /\ CurInv /\ LengthInv
  BY SymbolsStay DEF IInv, TypeOK1, ModuleType, modno, SymapInv
<1>1. \A m \in 1 .. modno : Module(m)' = Module(m) /\ modsym'[m] = modsym[m]
  BY ModulesStay
<1>2. ASSUME NEW m \in 1 .. modno, NEW i \in 1 .. Len(Module(m).syms),
             modsym[m] + i <= Len(symap)
      PROVE  Settled(m, i)'
  <2>1. Settled(m, i) /\ Module(m)' = Module(m)
    BY <1>1 DEF AllSettled
  <2> QED
    BY <1>2, <2>1, <1>0 DEF Settled, SymbolsKept, Found
<1>3. CASE UNCHANGED symap
  <2>1. CASE UNCHANGED <<modmap, modsym, mods>>
    <3>1. modno' = modno
      BY <2>1 DEF modno
    <3>2. ASSUME NEW m \in 1 .. modno, NEW i \in 1 .. Len(Module(m).syms)
          PROVE  Settled(m, i)'
      <4>1. CASE modsym[m] + i <= Len(symap)
        BY <1>2, <4>1
      <4>2. CASE ~(modsym[m] + i <= Len(symap))
        BY <1>1, <1>3, <4>2 DEF Settled
      <4> QED
        BY <4>1, <4>2
    <3> QED
      BY <1>1, <3>1, <3>2 DEF AllSettled
  <2>2. CASE StartModule /\ pc' = "seg"
    <3>1. /\ modno' = modno + 1 /\ modsym'[modno + 1] = Len(symap)
      BY <1>0, <2>2, LoadStart, FilesKept DEF IInv
    <3>2. ASSUME NEW m \in 1 .. modno', NEW i \in 1 .. Len(Module(m)'.syms)
          PROVE  Settled(m, i)'
      <4>1. CASE m \in 1 .. modno
        <5>1. i \in 1 .. Len(Module(m).syms)
          BY <1>1, <4>1
        <5>2. CASE modsym[m] + i <= Len(symap)
          BY <1>2, <4>1, <5>1, <5>2
        <5>3. CASE ~(modsym[m] + i <= Len(symap))
          BY <1>1, <1>3, <4>1, <5>3 DEF Settled
        <5> QED
          BY <5>2, <5>3
      <4>2. CASE m = modno + 1
        <5>1. modsym'[m] = Len(symap) /\ symap' = symap /\ i \in Nat /\ i >= 1
          BY <1>3, <3>1, <4>2
        <5>2. ~(modsym'[m] + i <= Len(symap'))
          BY <1>0, <5>1
        <5> QED
          BY <5>2 DEF Settled
      <4> QED
        BY <1>0, <3>1, <4>1, <4>2
    <3> QED
      BY <3>2 DEF AllSettled
  <2> QED
    BY <2>1, <2>2, ModulesStay
<1>4. CASE SymbolStep /\ pc' = "sym"
  <2>1. /\ pc = "sym" /\ k <= Len(obj.syms) /\ modno' = modno /\ k \in Nat /\ k >= 1
        /\ modno >= 1 /\ obj.syms \in Seq(SymRecord)
    <3>1. pc = "sym" /\ k <= Len(obj.syms) /\ UNCHANGED modmap
      BY <1>4 DEF SymbolStep, SymSegment, SymDropped, SymReference, SymDefinition, SymNew,
             SymStep, SymFrame
    <3> QED
      BY <3>1 DEF IInv, TypeOK1, ControlType, LoopType, ModuleType, LoadableOK, ModuleRecord,
             modno
  <2>2. Cur \in SymRecord
    <3>1. k \in 1 .. Len(obj.syms)
      BY <2>1
    <3> QED
      BY <2>1, <3>1, ElementOfSeq DEF Cur
  <2>3. Len(symap') = Len(symap) + 1
    BY <1>0, <1>4, SymbolMapped
  <2>4. Module(modno) = obj /\ modsym[modno] \in Nat /\ Len(symap) = modsym[modno] + k - 1
    <3>1. modsym \in Seq(Nat) /\ Len(modsym) = modno
      BY <1>0 DEF IInv, TypeOK1, ModuleType, LoadInv
    <3>2. modsym[modno] \in Nat
      BY <1>0, <2>1, <3>1, ElementOfSeq
    <3> QED
      BY <1>0, <2>1, <3>2 DEF CurInv, LengthInv, Module
  <2>5. ASSUME NEW m \in 1 .. modno, NEW i \in 1 .. Len(Module(m).syms)
        PROVE  Settled(m, i)'
    <3>1. modsym[m] \in Nat /\ Len(Module(m).syms) \in Nat
      <4>1. modsym \in Seq(Nat) /\ Len(modsym) = modno /\ Module(m) \in ModuleRecord
        BY <1>0 DEF IInv, TypeOK1, ModuleType, LoadInv
      <4> QED
        BY <4>1, ElementOfSeq DEF ModuleRecord
    <3>2. CASE modsym[m] + i <= Len(symap)
      BY <1>2, <3>2
    <3>3. CASE modsym[m] + i > Len(symap) + 1
      <4>1. ~(modsym'[m] + i <= Len(symap'))
        BY <1>0, <1>1, <2>3, <3>1, <3>3
      <4> QED
        BY <4>1 DEF Settled
    <3>4. CASE modsym[m] + i = Len(symap) + 1
      <4>1. m = modno
        <5>1. CASE m < modno
          <6>1. modsym[m] + Len(Module(m).syms) <= Len(symap)
            BY <1>0, <5>1 DEF LengthInv
          <6> QED
            BY <1>0, <3>1, <3>4, <6>1
        <5> QED
          BY <1>0, <5>1
      <4>2. i = k
        BY <1>0, <2>1, <2>4, <3>4, <4>1
      <4>3. Module(m).syms[i] = Cur /\ Module(m)' = Module(m)
        BY <1>1, <2>4, <4>1, <4>2 DEF Cur
      <4> QED
        BY <1>4, <2>2, <4>3, DefinedNow DEF Settled
    <3> QED
      BY <1>0, <3>1, <3>2, <3>3, <3>4
  <2> QED
    BY <1>1, <2>1, <2>5 DEF AllSettled
<1>5. UNCHANGED symap \/ (SymbolStep /\ pc' = "sym")
  <2>1. CASE Pass0
    BY <2>1 DEF Pass0, OptFlag, OptStack, OptTypes, OptFile, OptUndef, OptDescr, OptNamed,
                EndPass0, Option
  <2>2. CASE ScanStep \/ FinishStep \/ SegmentStep
    BY <2>2, Zenon DEF ScanStep, OpenFails, OpenObject, SkipArchive, OpenArchive, ScanMember,
           EndScan, Loaded, EndFiles, FinishStep, EndSymbols, SkipSymbol, EndCommons,
           AllocCommon, EndPass1, SegmentStep, Reject, StartModule, DoSegment, EndSegments,
           modvars
  <2>3. CASE SymbolStep
    BY <2>3 DEF SymbolStep, SymSegment, SymDropped, SymReference, SymDefinition, SymNew,
                SymStep, Fatal
  <2>4. CASE UNCHANGED vars1
    BY <2>4 DEF vars1, modvars
  <2> QED
    BY <2>1, <2>2, <2>3, <2>4
       DEF Next1, Step1, Pass1, Ended1, ScanStep, SegmentStep, SymbolStep, FinishStep
<1> QED
  BY <1>3, <1>4, <1>5

(* Files are taken in turn, and only a wanted member of an archive is      *)
(* loaded.                                                                 *)
LEMMA OrderStep ==
  ASSUME IInv, SymapInv, SymapInv', OrderInv, [Next1]_vars1,
         pc \notin {"pass0", "fatal"}, pc' # "fatal"
  PROVE  OrderInv'
<1>0. /\ TypeOK1 /\ LoadInv /\ SameFiles /\ modno \in Nat /\ fi \in Nat /\ Len(mods) = modno
      /\ \A m \in 1 .. modno : mods[m][1] \in Nat
  <2>1. TypeOK1 /\ LoadInv /\ SameFiles /\ modmap \in Seq(Nat) /\ fi \in Nat
    BY FilesKept DEF IInv, SymapInv, TypeOK1, ModuleType, ControlType
  <2>2. ASSUME NEW m \in 1 .. modno PROVE mods[m][1] \in Nat
    <3> DEFINE S == (1 .. Len(filtab)) \X Nat
    <3>1. mods \in Seq(S) /\ m \in 1 .. Len(mods)
      BY <2>1 DEF LoadInv
    <3> HIDE DEF S
    <3>2. mods[m] \in S
      BY <3>1, ElementOfSeq
    <3> QED
      BY <3>2 DEF S
  <2> QED
    BY <2>1, <2>2 DEF modno, LoadInv
<1>1. /\ \A m \in 1 .. modno : mods'[m] = mods[m]
      /\ (StartModule /\ pc' = "seg") \/ (UNCHANGED <<modmap, modsym, mods>> /\ modno' = modno)
  BY ModulesStay DEF modno
<1>2. pc \in {"scan", "load", "seg", "sym", "loaded", "open"} =>
        \A m \in 1 .. modno : mods[m][1] <= fi
  BY <1>0 DEF OrderInv
<1>3. ASSUME fi' = fi, fi <= Len(filtab) PROVE File'.kind = File.kind
  <2>1. fi \in 1 .. Len(filtab)
    BY <1>0, <1>3, FileType
  <2> QED
    BY <1>0, <1>3, <2>1 DEF File, SameFiles
<1>4. CASE OpenFails \/ SkipArchive \/ (EndScan /\ pc' = "open") \/ (Loaded /\ pc' = "open")
  <2>1. /\ pc \in {"open", "scan", "loaded"} /\ pc' = "open" /\ fi' = fi + 1
        /\ UNCHANGED <<modmap, modsym, mods>>
    BY <1>4 DEF OpenFails, SkipArchive, EndScan, Loaded, NextFile, modvars
  <2> QED
    BY <1>0, <1>2, <2>1 DEF OrderInv, modno
<1>5. CASE OpenObject
  <2>1. /\ pc = "open" /\ pc' = "load" /\ fi' = fi /\ fi <= Len(filtab) /\ File.kind = "obj"
        /\ UNCHANGED <<modmap, modsym, mods>>
    BY <1>5 DEF OpenObject, Fatal
  <2> QED
    BY <1>0, <1>2, <1>3, <2>1 DEF OrderInv, modno
<1>6. CASE OpenArchive \/ (EndScan /\ pc' = "scan") \/ (Loaded /\ pc' = "scan")
  <2>1. /\ pc \in {"open", "scan", "loaded"} /\ pc' = "scan" /\ fi' = fi
        /\ UNCHANGED <<modmap, modsym, mods>>
    BY <1>6 DEF OpenArchive, EndScan, Loaded, NextFile, modvars
  <2>2. File.kind # "obj"
    BY <1>6 DEF OpenArchive, EndScan, Loaded, NextFile, OrderInv
  <2>3. fi <= Len(filtab)
    BY <1>0, <1>6 DEF OpenArchive, EndScan, Loaded, TypeOK1, LoopType
  <2> QED
    BY <1>0, <1>2, <1>3, <2>1, <2>2, <2>3 DEF OrderInv, modno
<1>7. CASE ScanMember
  <2>1. /\ pc = "scan" /\ fi' = fi /\ fi <= Len(filtab) /\ File.kind # "obj"
        /\ UNCHANGED <<modmap, modsym, mods, symtab, symhash>>
    BY <1>0, <1>7 DEF ScanMember, OrderInv, TypeOK1, LoopType, symvars
  <2>2. CASE pc' = "load"
    <3>1. obj' = File.mods[mi] /\ Trysim(File.mods[mi])
      BY <1>7, <2>1, <2>2 DEF ScanMember, Fatal
    <3>2. PICK n \in Names : Defines(File.mods[mi], n) /\ Wanted(n)
      BY <3>1 DEF Trysim
    <3>3. Defines(obj, n)' /\ Wanted(n)'
      BY <2>1, <3>1, <3>2 DEF Defines, Wanted, Found
    <3> QED
      BY <1>0, <1>2, <1>3, <2>1, <2>2, <3>3 DEF OrderInv, modno
  <2>3. CASE pc' = "scan"
    BY <1>0, <1>2, <1>3, <2>1, <2>3 DEF OrderInv, modno
  <2> QED
    BY <1>7, <2>1, <2>2, <2>3 DEF ScanMember, Fatal
<1>8. CASE StartModule /\ pc' = "seg"
  <2>1. pc = "load" /\ fi' = fi /\ mods' = Append(mods, <<fi, mi>>)
    BY <1>8 DEF StartModule, Fatal
  <2>2. modno' = modno + 1
    BY <1>0, <1>8, LoadStart DEF SymapInv
  <2>3. Len(mods) = modno /\ mods'[modno + 1] = <<fi, mi>>
    <3> DEFINE S == (1 .. Len(filtab)) \X Nat
    <3>1. mods \in Seq(S)
      BY <1>0 DEF LoadInv
    <3> HIDE DEF S
    <3>2. Append(mods, <<fi, mi>>)[Len(mods) + 1] = <<fi, mi>>
      BY <3>1
    <3> QED
      BY <1>0, <2>1, <3>2
  <2>4. ASSUME NEW m \in 1 .. modno' PROVE mods'[m][1] <= fi'
    <3>1. CASE m = modno + 1
      BY <1>0, <2>1, <2>3, <3>1
    <3>2. CASE m \in 1 .. modno
      BY <1>1, <1>2, <2>1, <3>2
    <3> QED
      BY <1>0, <2>2, <3>1, <3>2
  <2> QED
    BY <1>8, <2>4 DEF OrderInv
<1>9. CASE Reject \/ DoSegment \/ EndSegments \/ SymbolStep \/ EndSymbols \/ UNCHANGED vars1
  <2>1. CASE UNCHANGED vars1
    <3>1. UNCHANGED <<pc, fi, filtab, obj, symtab, symhash, modmap, mods>>
      BY <2>1 DEF vars1, optvars, symvars, modvars
    <3> QED
      BY <3>1 DEF OrderInv, modno, File, Defines, Wanted, Found
  <2>2. CASE Reject \/ DoSegment \/ EndSegments \/ SymbolStep \/ EndSymbols
    <3>1. /\ pc \in {"load", "seg", "sym"} /\ pc' \in {"seg", "sym", "loaded"} /\ fi' = fi
          /\ UNCHANGED <<modmap, mods>>
      BY <2>2 DEF Reject, DoSegment, EndSegments, SymbolStep, EndSymbols, SymSegment,
             SymDropped, SymReference, SymDefinition, SymNew, SymStep, SymFrame, Fatal, modvars
    <3> QED
      BY <1>0, <1>2, <3>1 DEF OrderInv, modno
  <2> QED
    BY <1>9, <2>1, <2>2
<1>10. CASE EndFiles \/ SkipSymbol \/ AllocCommon \/ EndCommons \/ EndPass1
  <2>1. pc' \in {"commons", "stack", "interlude"}
    BY <1>10, Zenon DEF EndFiles, SkipSymbol, AllocCommon, EndCommons, EndPass1, Fatal
  <2> QED
    BY <2>1 DEF OrderInv
<1>11. CASE Pass0
  BY <1>11 DEF Pass0, OptFlag, OptStack, OptTypes, OptFile, OptUndef, OptDescr, OptNamed,
              EndPass0, Option
<1>12. CASE EndScan \/ Loaded
  <2>1. pc' \in {"open", "scan"}
    BY <1>12 DEF EndScan, Loaded, NextFile
  <2> QED
    BY <1>4, <1>6, <1>12, <2>1
<1>13. CASE StartModule
  BY <1>8, <1>13 DEF StartModule, Fatal
<1> QED
  BY <1>4, <1>5, <1>7, <1>9, <1>10, <1>11, <1>12, <1>13, <1>6
     DEF Next1, Step1, Pass1, Ended1, SymbolStep

(* Every step of pass 1 keeps the members distinct.                        *)
LEMMA OnceStep == IInv /\ IInv' /\ SymapInv /\ SymapInv' /\ OnceInv /\ [Next1]_vars1 => OnceInv'
<1> SUFFICES ASSUME IInv, IInv', SymapInv, SymapInv', OnceInv, [Next1]_vars1 PROVE OnceInv'
  OBVIOUS
<1>0. LoadInv /\ LoadInv' /\ TypeOK1 /\ modno \in Nat
  BY DEF SymapInv, IInv, TypeOK1, ModuleType, modno
<1>1. CASE modno' = 0 /\ pc' \in {"pass0", "open"}
  BY <1>1 DEF OnceInv, MembersLoadedOnce, AllSettled, OrderInv
<1>2. CASE pc = "pass0"
  <2>1. UNCHANGED <<modmap, mods>>
    <3>1. CASE Pass0
      BY <3>1 DEF Pass0, OptFlag, OptStack, OptTypes, OptFile, OptUndef, OptDescr, OptNamed,
                  EndPass0, modvars
    <3>2. CASE ~Pass0
      <4>1. UNCHANGED vars1
        BY <1>2, <3>2 DEF Next1, Step1, Pass1, Ended1, OpenFails, OpenObject, SkipArchive,
               OpenArchive, ScanMember, EndScan, Reject, StartModule, DoSegment, EndSegments,
               SymSegment, SymDropped, SymReference, SymDefinition, SymNew, SymStep,
               EndSymbols, Loaded, EndFiles, SkipSymbol, AllocCommon, EndCommons, EndPass1
      <4> QED
        BY <4>1 DEF vars1, modvars
    <3> QED
      BY <3>1, <3>2
  <2>2. modno' = 0
    BY <1>0, <1>2, <2>1 DEF LoadInv, modno
  <2>3. pc' \in {"pass0", "open", "fatal"}
    BY <1>2 DEF Next1, Step1, Pass0, Pass1, Ended1, OpenFails, OpenObject, SkipArchive,
           OpenArchive, ScanMember, EndScan, Reject, StartModule, DoSegment, EndSegments,
           SymSegment, SymDropped, SymReference, SymDefinition, SymNew, SymStep,
           EndSymbols, Loaded, EndFiles, SkipSymbol, AllocCommon, EndCommons, EndPass1,
           OptFlag, OptStack, OptTypes, OptFile, OptUndef, OptDescr, OptNamed,
           EndPass0, Option, Fatal, vars1
  <2> QED
    BY <1>1, <2>2, <2>3 DEF OnceInv, MembersLoadedOnce
<1>3. CASE pc # "pass0"
  <2>1. MembersLoadedOnce'
    <3>1. CASE UNCHANGED <<modmap, modsym, mods>>
      BY <3>1 DEF OnceInv, MembersLoadedOnce, modno
    <3>2. CASE StartModule /\ pc' = "seg"
      <4>1. /\ pc = "load" /\ mods' = Append(mods, <<fi, mi>>) /\ Len(mods) = modno
            /\ modno' = modno + 1
        BY <1>0, <1>3, <3>2, LoadStart, FilesKept DEF StartModule, Fatal, LoadInv, SymapInv, IInv
      <4>2. AllSettled /\ OrderInv /\ LengthInv /\ CurInv
        BY <4>1 DEF OnceInv, SymapInv
      <4> DEFINE S == (1 .. Len(filtab)) \X Nat
      <4>3. mods \in Seq(S)
        BY <1>0 DEF LoadInv
      <4>4. ASSUME NEW m \in 1 .. modno PROVE mods[m] # <<fi, mi>>
        <5>1. SUFFICES ASSUME mods[m] = <<fi, mi>> PROVE FALSE
          OBVIOUS
        <5>2. CASE File.kind = "obj"
          <6>1. mods[m][1] < fi /\ mods[m][1] = fi /\ fi \in Nat
            BY <1>0, <4>1, <4>2, <5>1, <5>2 DEF OrderInv, TypeOK1, ControlType
          <6> QED
            BY <6>1
        <5>3. CASE File.kind # "obj"
          <6>1. PICK n \in Names : Defines(obj, n) /\ Wanted(n)
            BY <4>1, <4>2, <5>3 DEF OrderInv
          <6>2. Module(m) = obj
            BY <4>1, <4>2, <5>1 DEF CurInv, Module
          <6>3. PICK i \in 1 .. Len(obj.syms) : obj.syms[i].fl = GLB /\ obj.syms[i].name = n
            BY <6>1 DEF Defines
          <6>4. /\ modsym[m] + Len(obj.syms) <= Len(symap) /\ Len(obj.syms) \in Nat
                /\ modsym[m] \in Nat /\ Len(symap) \in Nat
            <7>1. obj \in ModuleRecord /\ modsym \in Seq(Nat) /\ Len(modsym) = modno
                  /\ symap \in Seq(Nat)
              BY <1>0 DEF TypeOK1, ModuleType, LoadableOK, LoadInv
            <7>2. Len(obj.syms) \in Nat /\ Len(symap) \in Nat
              BY <7>1 DEF ModuleRecord
            <7>3. modsym[m] \in Nat
              BY <7>1, ElementOfSeq
            <7>4. modsym[m] + Len(Module(m).syms) <= Len(symap)
              BY <4>1, <4>2 DEF LengthInv
            <7> QED
              BY <6>2, <7>2, <7>3, <7>4
          <6>5. modsym[m] + i <= Len(symap)
            BY <6>3, <6>4
          <6>6. symtab[symhash[n]].fl = GLB
            BY <4>2, <6>2, <6>3, <6>5 DEF AllSettled, Settled
          <6> QED
            BY <6>1, <6>6 DEF Wanted, UNX, GLB
        <5> QED
          BY <5>2, <5>3
      <4> HIDE DEF S
      <4>5. /\ mods'[modno + 1] = <<fi, mi>>
            /\ \A m \in 1 .. modno : mods'[m] = mods[m]
        BY <4>1, <4>3
      <4>6. \A a, b \in 1 .. modno : mods[a] = mods[b] => a = b
        BY DEF OnceInv, MembersLoadedOnce
      <4>7. \A a \in 1 .. modno + 1 : a \in 1 .. modno \/ a = modno + 1
        BY <1>0
      <4>8. \A a, b \in 1 .. modno + 1 : mods'[a] = mods'[b] => a = b
        BY <4>4, <4>5, <4>6, <4>7
      <4> QED
        BY <4>1, <4>8 DEF MembersLoadedOnce
    <3> QED
      BY <1>3, <3>1, <3>2, ModulesStay
  <2>2. ASSUME pc' # "fatal" PROVE AllSettled' /\ OrderInv'
    <3>1. pc # "fatal"
      <4>1. ASSUME pc = "fatal" PROVE UNCHANGED vars1
        BY <1>3, <4>1 DEF Next1, Step1, Pass0, Pass1, Ended1, OpenFails, OpenObject,
               SkipArchive, OpenArchive, ScanMember, EndScan, Reject, StartModule, DoSegment,
               EndSegments, SymSegment, SymDropped, SymReference, SymDefinition, SymNew,
               SymStep, EndSymbols, Loaded, EndFiles, SkipSymbol, AllocCommon, EndCommons,
               EndPass1, OptFlag, OptStack, OptTypes, OptFile, OptUndef, OptDescr, OptNamed,
               EndPass0, Option
      <4> QED
        BY <2>2, <4>1 DEF vars1
    <3>2. AllSettled /\ OrderInv
      BY <3>1 DEF OnceInv
    <3> QED
      BY <1>3, <2>2, <3>1, <3>2, SettledStep, OrderStep
  <2> QED
    BY <2>1, <2>2 DEF OnceInv
<1> QED
  BY <1>2, <1>3

(* However often an archive is scanned, none of its members is loaded a    *)
(* second time, whatever the archive holds.                                *)
THEOREM OnceCorrect == Spec1 => []MembersLoadedOnce
<1>1. Init1 => SymapInv /\ OnceInv
  <2>1. Init1 => OnceInv
    <3> SUFFICES ASSUME Init1 PROVE OnceInv
      OBVIOUS
    <3>1. modno = 0 /\ pc = "pass0"
      BY DEF Init1, modno
    <3> QED
      BY <3>1 DEF OnceInv, MembersLoadedOnce, AllSettled, OrderInv
  <2> QED
    BY <2>1, SymapInit
<1>2. IInv /\ SymapInv /\ [Next1]_vars1 => SymapInv'
  BY SymapStep
<1>3. IInv /\ IInv' /\ SymapInv /\ SymapInv' /\ OnceInv /\ [Next1]_vars1 => OnceInv'
  BY OnceStep
<1>4. OnceInv => MembersLoadedOnce
  BY DEF OnceInv
<1> QED
  BY <1>1, <1>2, <1>3, <1>4, Invariance, PTL DEF Spec1

-----------------------------------------------------------------------------
(* Pass 1 implements SymbolResolution.  The code moves a definition in one *)
(* place: a common whose size is larger than the value of a symbol that is *)
(* defined already replaces it (ld8k.c:525).                               *)
EntryOf(n) == symtab[symhash[n]]
LateCommon ==
  /\ pc = "sym" /\ k <= Len(obj.syms) /\ Cur.fl = UNX /\ Found(symhash, Cur.name)
  /\ EntryOf(Cur.name).fl = GLB /\ EntryOf(Cur.name).val < Cur.val

WantedNow == {n \in DOMAIN symhash : symtab[symhash[n]].fl = UNX}
PlaceNow == [n \in {n \in DOMAIN symhash : symtab[symhash[n]].fl = GLB} |->
               <<symtab[symhash[n]].sg, symtab[symhash[n]].val>>]

(* A step leaves the name n as wanted as it was, or where it was.          *)
Stays(n) ==
  /\ n \in DOMAIN symhash' /\ symtab'[symhash'[n]].fl = symtab[symhash[n]].fl
  /\ symtab[symhash[n]].fl = GLB => /\ symtab'[symhash'[n]].sg = symtab[symhash[n]].sg
                                    /\ symtab'[symhash'[n]].val = symtab[symhash[n]].val

LEMMA AllStay ==
  ASSUME DOMAIN symhash' = DOMAIN symhash, \A n \in DOMAIN symhash : Stays(n)
  PROVE  UNCHANGED <<WantedNow, PlaceNow>>
<1>1. WantedNow' = WantedNow
  BY DEF WantedNow, Stays
<1>2. PlaceNow' = PlaceNow
  <2> DEFINE D == {n \in DOMAIN symhash : symtab[symhash[n]].fl = GLB}
             E == {n \in DOMAIN symhash' : symtab'[symhash'[n]].fl = GLB}
  <2>1. D = E
    BY DEF Stays
  <2>2. ASSUME NEW n \in D
        PROVE  <<symtab'[symhash'[n]].sg, symtab'[symhash'[n]].val>> =
               <<symtab[symhash[n]].sg, symtab[symhash[n]].val>>
    BY DEF Stays
  <2>3. PlaceNow' = [n \in E |-> <<symtab'[symhash'[n]].sg, symtab'[symhash'[n]].val>>]
    BY DEF PlaceNow
  <2>4. PlaceNow = [n \in D |-> <<symtab[symhash[n]].sg, symtab[symhash[n]].val>>]
    BY DEF PlaceNow
  <2> HIDE DEF D, E
  <2> QED
    BY <2>1, <2>2, <2>3, <2>4
<1> QED
  BY <1>1, <1>2

(* One name, new or wanted, is now wanted or defined.                      *)
LEMMA OneMoves ==
  ASSUME HashExact, HashExact', SymbolType', NEW n \in Names,
         DOMAIN symhash' = DOMAIN symhash \cup {n}, \A x \in DOMAIN symhash \ {n} : Stays(x)
  PROVE  /\ n \notin DOMAIN symhash /\ symtab'[symhash'[n]].fl = UNX => Resolution!Want(n)
         /\ /\ n \in DOMAIN symhash => symtab[symhash[n]].fl = UNX
            /\ symtab'[symhash'[n]].fl = GLB
            => Resolution!Define(n)
<1> DEFINE D == {x \in DOMAIN symhash : symtab[symhash[x]].fl = GLB}
           E == {x \in DOMAIN symhash' : symtab'[symhash'[x]].fl = GLB}
<1>1. symtab'[symhash'[n]] \in SymRecord /\ n \in DOMAIN symhash'
  <2>1. n \in DOMAIN symhash'
    OBVIOUS
  <2>2. symhash'[n] \in 1 .. Len(symtab') /\ symtab' \in Seq(SymRecord)
    BY <2>1 DEF HashExact, SymbolType
  <2> QED
    BY <2>1, <2>2, ElementOfSeq
<1>2. <<symtab'[symhash'[n]].sg, symtab'[symhash'[n]].val>> \in Nat \X Nat
  BY <1>1 DEF SymRecord
<1>3. /\ DOMAIN PlaceNow = D /\ DOMAIN PlaceNow' = E
      /\ \A x \in D : PlaceNow[x] = <<symtab[symhash[x]].sg, symtab[symhash[x]].val>>
      /\ \A x \in E : PlaceNow'[x] = <<symtab'[symhash'[x]].sg, symtab'[symhash'[x]].val>>
  BY DEF PlaceNow
<1>4. \A x \in D : x # n => x \in E /\ PlaceNow'[x] = PlaceNow[x]
  <2>1. ASSUME NEW x \in D, x # n PROVE x \in E /\ PlaceNow'[x] = PlaceNow[x]
    <3>1. Stays(x)
      BY <2>1
    <3>2. x \in E
      BY <3>1 DEF Stays
    <3> QED
      BY <1>3, <3>1, <3>2 DEF Stays
  <2> QED
    BY <2>1
<1>5. \A x \in E : x # n => x \in D
  BY DEF Stays
<1>6. \A x \in WantedNow \ {n} : x \in WantedNow'
  BY DEF WantedNow, Stays
<1>7. \A x \in WantedNow' \ {n} : x \in WantedNow
  BY DEF WantedNow, Stays
<1>8. ASSUME n \notin DOMAIN symhash, symtab'[symhash'[n]].fl = UNX PROVE Resolution!Want(n)
  <2>1. n \notin D /\ n \notin E /\ n \notin WantedNow /\ n \in WantedNow'
    BY <1>1, <1>8 DEF WantedNow, UNX, GLB
  <2>2. E = D /\ WantedNow' = WantedNow \cup {n}
    BY <1>4, <1>5, <1>6, <1>7, <2>1
  <2>3. PlaceNow' = PlaceNow
    <3>1. PlaceNow = [x \in D |-> PlaceNow[x]] /\ PlaceNow' = [x \in E |-> PlaceNow'[x]]
      BY DEF PlaceNow
    <3> HIDE DEF D, E
    <3> QED
      BY <1>4, <2>1, <2>2, <3>1
  <2> HIDE DEF D, E
  <2> QED
    BY <1>3, <2>1, <2>2, <2>3 DEF Resolution!Want, WantedNow, PlaceNow
<1>9. ASSUME n \in DOMAIN symhash => symtab[symhash[n]].fl = UNX, symtab'[symhash'[n]].fl = GLB
      PROVE  Resolution!Define(n)
  <2>1. n \notin D /\ n \in E /\ n \notin WantedNow'
    BY <1>1, <1>9 DEF WantedNow, UNX, GLB
  <2>2. E = D \cup {n} /\ WantedNow' = WantedNow \ {n}
    BY <1>4, <1>5, <1>6, <1>7, <2>1
  <2>3. PlaceNow'[n] \in Nat \X Nat
    BY <1>2, <1>3, <2>1
  <2>4. \A x \in D : PlaceNow'[x] = PlaceNow[x]
    BY <1>4, <2>1
  <2> HIDE DEF D, E
  <2> QED
    BY <1>3, <2>1, <2>2, <2>3, <2>4 DEF Resolution!Define, WantedNow, PlaceNow
<1> QED
  BY <1>8, <1>9

(* The entries of the other names when one is appended.                    *)
LEMMA AppendStays ==
  ASSUME HashExact, symtab \in Seq(SymRecord), NEW s, symtab' = Append(symtab, s), NEW n,
         \/ symhash' = symhash
         \/ symhash' = Extend(symhash, n, symlev)
  PROVE  \A x \in DOMAIN symhash \ {n} : Stays(x)
<1> SUFFICES ASSUME NEW x \in DOMAIN symhash \ {n} PROVE Stays(x)
  OBVIOUS
<1>1. symhash[x] \in 1 .. Len(symtab)
  BY DEF HashExact
<1>2. symtab'[symhash[x]] = symtab[symhash[x]]
  BY <1>1
<1>3. x \in DOMAIN symhash' /\ symhash'[x] = symhash[x]
  BY DEF Extend
<1> QED
  BY <1>2, <1>3 DEF Stays

(* The entries of the other names when one entry is replaced.              *)
LEMMA ReplaceStays ==
  ASSUME HashExact, symtab \in Seq(SymRecord), NEW i \in 1 .. Len(symtab), NEW s,
         symtab' = [symtab EXCEPT ![i] = s], symhash' = symhash
  PROVE  /\ \A x \in DOMAIN symhash : symhash[x] # i => Stays(x)
         /\ symtab'[i] = s
<1>1. \A q \in 1 .. Len(symtab) : symtab'[q] = IF q = i THEN s ELSE symtab[q]
  OBVIOUS
<1>2. \A x \in DOMAIN symhash : symhash[x] \in 1 .. Len(symtab)
  BY DEF HashExact
<1> QED
  BY <1>1, <1>2 DEF Stays

(* The steps that may change the symbol table.                             *)
LEMMA SymChanges ==
  ASSUME [Next1]_vars1
  PROVE  \/ UNCHANGED symvars
         \/ OptUndef \/ OptNamed \/ SymReference \/ SymDefinition \/ SymNew \/ AllocCommon
<1>1. CASE Pass0
  BY <1>1 DEF Pass0, OptFlag, OptStack, OptTypes, OptFile, OptDescr, EndPass0
<1>2. CASE ScanStep
  BY <1>2 DEF ScanStep, OpenFails, OpenObject, SkipArchive, OpenArchive, ScanMember,
              EndScan, Loaded, EndFiles
<1>3. CASE SegmentStep
  BY <1>3 DEF SegmentStep, Reject, StartModule, DoSegment, EndSegments
<1>4. CASE SymbolStep
  BY <1>4 DEF SymbolStep, SymSegment, SymDropped
<1>5. CASE FinishStep
  BY <1>5, Zenon DEF FinishStep, EndSymbols, SkipSymbol, EndCommons, EndPass1
<1>6. CASE UNCHANGED vars1
  BY <1>6 DEF vars1
<1> QED
  BY <1>1, <1>2, <1>3, <1>4, <1>5, <1>6
     DEF Next1, Step1, Pass1, Ended1, ScanStep, SegmentStep, SymbolStep, FinishStep

(* The symbol a step is about.                                             *)
LEMMA CurType == IInv /\ SymStep => Cur \in SymRecord
<1> SUFFICES ASSUME IInv, SymStep PROVE Cur \in SymRecord
  OBVIOUS
<1>1. k \in Nat /\ k >= 1 /\ k <= Len(obj.syms) /\ obj.syms \in Seq(SymRecord)
  BY DEF IInv, TypeOK1, ControlType, LoopType, ModuleType, LoadableOK, ModuleRecord, SymStep
<1>2. k \in 1 .. Len(obj.syms)
  BY <1>1
<1> QED
  BY <1>1, <1>2, ElementOfSeq DEF Cur

(* Every step is one of SymbolResolution, or changes nothing there, unless *)
(* a common meets a definition that is smaller.                            *)
LEMMA ResolutionStep ==
  ASSUME IInv, IInv', ~LateCommon, [Next1]_vars1
  PROVE  [Resolution!Next]_<<WantedNow, PlaceNow>>
<1>0. /\ symtab \in Seq(SymRecord) /\ HashExact /\ HashExact' /\ SymbolType' /\ Len(symtab) \in Nat
      /\ symlev = Len(symtab) + 1
      /\ \A n \in DOMAIN symhash : /\ n \in Names /\ symhash[n] \in 1 .. Len(symtab)
                                   /\ symtab[symhash[n]] \in SymRecord
                                   /\ symtab[symhash[n]].fl \in {UNX, GLB}
                                   /\ symtab[symhash[n]].name = n
      /\ \A n \in DOMAIN seghash : /\ seghash[n] \in 1 .. Len(symtab)
                                   /\ symtab[seghash[n]].fl = SEG
      /\ {UNX, GLB} \cap {SEG, LOC} = {}
  <2>1. symtab \in Seq(SymRecord) /\ HashExact /\ HashExact' /\ SymbolType' /\ DOMAIN symhash \subseteq Names
    BY DEF IInv, TypeOK1, SymbolType
  <2>2. \A i \in 1 .. Len(symtab) : symtab[i] \in SymRecord
    BY <2>1, ElementOfSeq
  <2> QED
    BY <2>1, <2>2 DEF HashExact, symlev, UNX, GLB, SEG, LOC
<1>1. CASE UNCHANGED symvars
  BY <1>1 DEF symvars, WantedNow, PlaceNow
<1>2. ASSUME NEW s, symtab' = Append(symtab, s), symhash' = symhash
      PROVE  UNCHANGED <<WantedNow, PlaceNow>>
  <2>1. \A x \in DOMAIN symhash \ {UNX} : Stays(x)
    BY <1>0, <1>2, AppendStays
  <2>2. \A x \in DOMAIN symhash \ {GLB} : Stays(x)
    BY <1>0, <1>2, AppendStays
  <2>3. \A x \in DOMAIN symhash : Stays(x)
    BY <2>1, <2>2 DEF UNX, GLB
  <2> QED
    BY <1>2, <2>3, AllStay
<1>3. ASSUME NEW n \in Names, NEW s, s.fl \in {UNX, GLB}, symtab' = Append(symtab, s), n \notin DOMAIN symhash,
             symhash' = Extend(symhash, n, symlev)
      PROVE  Resolution!Next
  <2>1. \A x \in DOMAIN symhash \ {n} : Stays(x)
    BY <1>0, <1>3, AppendStays
  <2>2. DOMAIN symhash' = DOMAIN symhash \cup {n} /\ symhash'[n] = symlev
    BY <1>3 DEF Extend
  <2>3. symtab'[symlev] = s
    BY <1>0, <1>3
  <2>4. \/ symtab'[symhash'[n]].fl = UNX
        \/ symtab'[symhash'[n]].fl = GLB
    BY <1>3, <2>2, <2>3
  <2>5. Resolution!Want(n) \/ Resolution!Define(n)
    BY <1>0, <1>3, <2>1, <2>2, <2>4, OneMoves
  <2> QED
    BY <2>5 DEF Resolution!Next
<1>4. ASSUME NEW n \in DOMAIN symhash, NEW s, symtab[symhash[n]].fl = UNX, s.fl = GLB,
             symtab' = [symtab EXCEPT ![symhash[n]] = s], symhash' = symhash
      PROVE  Resolution!Next
  <2>1. symhash[n] \in 1 .. Len(symtab)
    BY <1>0
  <2>2. /\ \A x \in DOMAIN symhash : symhash[x] # symhash[n] => Stays(x)
        /\ symtab'[symhash[n]] = s
    BY <1>0, <1>4, <2>1, ReplaceStays
  <2>3. \A x \in DOMAIN symhash \ {n} : symhash[x] # symhash[n]
    BY <1>0
  <2>4. \A x \in DOMAIN symhash \ {n} : Stays(x)
    BY <2>2, <2>3
  <2>5. DOMAIN symhash' = DOMAIN symhash \cup {n} /\ symtab'[symhash'[n]].fl = GLB /\ n \in Names
    <3>1. DOMAIN symhash' = DOMAIN symhash \cup {n}
      BY <1>4
    <3>2. symtab'[symhash'[n]] = s
      BY <1>4, <2>2
    <3> QED
      BY <1>0, <1>4, <3>1, <3>2
  <2>6. Resolution!Define(n)
    BY <1>0, <1>4, <2>4, <2>5, OneMoves
  <2> QED
    BY <2>5, <2>6 DEF Resolution!Next
<1>5. CASE OptUndef
  <2>1. CASE UNCHANGED <<symtab, symhash>>
    BY <2>1 DEF WantedNow, PlaceNow
  <2>2. CASE ~UNCHANGED <<symtab, symhash>>
    <3> DEFINE n == cmd[k].name
               s == Symbol(UNX, n, UNSET, 0)
    <3>1. /\ ~Found(symhash, n) /\ symtab' = Append(symtab, s)
          /\ symhash' = Extend(symhash, n, symlev)
      BY <1>5, <2>2 DEF OptUndef, symvars
    <3>2. s.fl = UNX
      BY DEF Symbol
    <3>3. n \in Names
      <4>1. n \in DOMAIN symhash'
        BY <3>1 DEF Extend
      <4> HIDE DEF n, s
      <4> QED
        BY <1>0, <4>1 DEF SymbolType
    <3> HIDE DEF n, s
    <3> QED
      BY <1>3, <3>1, <3>2, <3>3 DEF Found
  <2> QED
    BY <2>1, <2>2
<1>6. CASE OptNamed
  <2>1. symhash' = symhash
    BY <1>6 DEF OptNamed, symvars
  <2>2. CASE UNCHANGED symtab
    BY <2>1, <2>2 DEF WantedNow, PlaceNow
  <2>3. CASE \E s : symtab' = Append(symtab, s)
    BY <1>2, <2>1, <2>3
  <2>4. CASE Found(seghash, cmd[k].name) /\ symtab' = [symtab EXCEPT ![seghash[cmd[k].name]].sg = cmd[k].seg]
    <3> DEFINE i == seghash[cmd[k].name]
               s == [symtab[i] EXCEPT !.sg = cmd[k].seg]
    <3>1. i \in 1 .. Len(symtab) /\ symtab[i].fl = SEG
      BY <1>0, <2>4 DEF Found
    <3>2. symtab' = [symtab EXCEPT ![i] = s]
      BY <2>4
    <3>3. \A x \in DOMAIN symhash : symhash[x] # i
      BY <1>0, <3>1
    <3> HIDE DEF i, s
    <3>4. \A x \in DOMAIN symhash : Stays(x)
      BY <1>0, <2>1, <3>1, <3>2, <3>3, ReplaceStays
    <3> QED
      BY <2>1, <3>4, AllStay
  <2>5. \/ UNCHANGED symtab
        \/ \E s : symtab' = Append(symtab, s)
        \/ Found(seghash, cmd[k].name) /\ symtab' = [symtab EXCEPT ![seghash[cmd[k].name]].sg = cmd[k].seg]
    BY <1>6 DEF OptNamed, symvars
  <2> QED
    BY <2>2, <2>3, <2>4, <2>5
<1>7. CASE SymReference
  <2> DEFINE n == Cur.name
             i == symhash[n]
             s == [symtab[i] EXCEPT !.val = Cur.val]
  <2>1. n \in DOMAIN symhash /\ symhash' = symhash /\ i \in 1 .. Len(symtab)
    BY <1>0, <1>7 DEF SymReference, Found
  <2>2. CASE symtab' = symtab
    BY <2>1, <2>2 DEF WantedNow, PlaceNow
  <2>3. CASE symtab[i].val < Cur.val /\ symtab' = [symtab EXCEPT ![i].val = Cur.val]
    <3>1. symtab[i].fl = UNX
      BY <1>0, <1>7, <2>1, <2>3 DEF SymReference, SymStep, LateCommon, EntryOf
    <3>2. symtab[i] \in SymRecord
      BY <1>0, <2>1
    <3>3. s.fl = UNX /\ symtab' = [symtab EXCEPT ![i] = s]
      BY <2>3, <3>1, <3>2 DEF SymRecord
    <3> HIDE DEF s, i
    <3>4. symtab'[i] = s /\ \A x \in DOMAIN symhash : symhash[x] # i => Stays(x)
      BY <1>0, <2>1, <3>3, ReplaceStays
    <3>5. ASSUME NEW x \in DOMAIN symhash, symhash[x] = i PROVE Stays(x)
      BY <2>1, <3>1, <3>3, <3>4, <3>5 DEF Stays, UNX, GLB
    <3>6. \A x \in DOMAIN symhash : Stays(x)
      BY <3>4, <3>5
    <3> QED
      BY <2>1, <3>6, AllStay
  <2> QED
    BY <1>7, <2>2, <2>3 DEF SymReference
<1>8. CASE SymDefinition
  <2> DEFINE n == Cur.name
             i == symhash[n]
  <2>1. n \in DOMAIN symhash /\ symhash' = symhash /\ Cur.fl = GLB
    BY <1>8 DEF SymDefinition, Found
  <2>2. CASE symtab' = symtab
    BY <2>1, <2>2 DEF WantedNow, PlaceNow
  <2>3. CASE ~(symtab' = symtab)
    <3>1. symtab[i].fl = UNX
      BY <1>8, <2>3 DEF SymDefinition, MayDefine
    <3>2. \E start : symtab' = [symtab EXCEPT ![i] = Moved(Cur, start)]
      BY <1>8, <2>3 DEF SymDefinition
    <3>3. PICK start : symtab' = [symtab EXCEPT ![i] = Moved(Cur, start)]
      BY <3>2
    <3>4. Cur \in SymRecord
      BY <1>8, CurType DEF SymDefinition
    <3> DEFINE s == Moved(Cur, start)
    <3>5. s.fl = GLB
      BY <2>1, <3>4 DEF Moved, SymRecord
    <3> HIDE DEF s, n
    <3> QED
      BY <1>4, <2>1, <3>1, <3>3, <3>5 DEF s
  <2> QED
    BY <2>2, <2>3
<1>9. CASE SymNew
  <2>1. CASE UNCHANGED symvars
    BY <1>1, <2>1
  <2>2. CASE ~UNCHANGED symvars
    <3>1. Cur \in SymRecord
      BY <1>9, CurType DEF SymNew
    <3>2. \E s : s.fl = Cur.fl /\ symtab' = Append(symtab, s)
      <4>1. \E start \in IF Cur.fl = GLB THEN Starts(Cur.sg) ELSE {0} :
               symtab' = Append(symtab, IF Cur.fl = GLB THEN Moved(Cur, start) ELSE Cur)
        BY <1>9, <2>2 DEF SymNew
      <4>2. \A start : Moved(Cur, start).fl = Cur.fl
        BY <3>1 DEF Moved, SymRecord
      <4> QED
        BY <4>1, <4>2
    <3>3. PICK s : s.fl = Cur.fl /\ symtab' = Append(symtab, s)
      BY <3>2
    <3>4. CASE Cur.fl \in {UNX, GLB}
      <4> DEFINE n == Cur.name
      <4>1. n \notin DOMAIN symhash /\ symhash' = Extend(symhash, n, symlev)
        BY <1>0, <1>9, <2>2, <3>4 DEF SymNew, Found
      <4>2. n \in Names
        BY <3>1 DEF SymRecord
      <4> HIDE DEF n
      <4> QED
        BY <1>3, <3>3, <3>4, <4>1, <4>2
    <3>5. CASE Cur.fl \notin {UNX, GLB}
      <4>1. symhash' = symhash
        BY <1>9, <2>2, <3>5 DEF SymNew
      <4> QED
        BY <1>2, <3>3, <4>1
    <3> QED
      BY <3>4, <3>5
  <2> QED
    BY <2>1, <2>2
<1>10. CASE AllocCommon
  <2>1. symhash' = symhash
    BY <1>10, Zenon DEF AllocCommon
  <2>2. CASE symtab' = symtab
    BY <2>1, <2>2 DEF WantedNow, PlaceNow
  <2>3. CASE ~(symtab' = symtab)
    <3>1. symtab[k].fl = UNX /\ k \in 1 .. Len(symtab)
      <4>1. pc = "commons" /\ k < Len(symtab) + 1 /\ IsCommon(symtab[k])
        BY <1>10, Zenon DEF AllocCommon, symlev
      <4>2. k \in Nat /\ k >= 1
        BY <4>1 DEF IInv, TypeOK1, ControlType, LoopType
      <4> QED
        BY <1>0, <4>1, <4>2 DEF IsCommon
    <3>2. symtab[k] \in SymRecord
      BY <1>0, <3>1, ElementOfSeq
    <3>3. \E s : s.fl = GLB /\ symtab' = [symtab EXCEPT ![k] = s]
      <4>1. PICK j \in SegNos : LET at == CommonAt(j, symtab[k].val) IN
              symtab' = [symtab EXCEPT ![k] = [@ EXCEPT !.fl = GLB, !.sg = j, !.val = at % W]]
        BY <1>10, <2>3, Zenon DEF AllocCommon
      <4> DEFINE s == [symtab[k] EXCEPT !.fl = GLB, !.sg = j, !.val = CommonAt(j, symtab[k].val) % W]
      <4>2. symtab' = [symtab EXCEPT ![k] = s]
        BY <4>1
      <4>3. s.fl = GLB
        BY <3>2 DEF SymRecord
      <4> HIDE DEF s
      <4> QED
        BY <4>2, <4>3
    <3>4. PICK s : s.fl = GLB /\ symtab' = [symtab EXCEPT ![k] = s]
      BY <3>3
    <3> DEFINE n == symtab[k].name
    <3>5. n \in DOMAIN symhash /\ symhash[n] = k
      BY <1>0, <3>1 DEF HashExact, Found
    <3> HIDE DEF n
    <3> QED
      BY <1>4, <2>1, <3>1, <3>4, <3>5
  <2> QED
    BY <2>2, <2>3
<1> QED
  BY <1>1, <1>5, <1>6, <1>7, <1>8, <1>9, <1>10, SymChanges

(* Whatever the files, the command line and the sizes of the tables, pass  *)
(* 1 resolves symbols as SymbolResolution says, as long as no common meets *)
(* a definition of the same name whose value is smaller than its size.     *)
THEOREM ResolutionCorrect == Spec1 /\ []~LateCommon => ResolvesSymbols
<1>1. Init1 => Resolution!Init
  <2> SUFFICES ASSUME Init1 PROVE Resolution!Init
    OBVIOUS
  <2>1. DOMAIN symhash = {}
    BY DEF Init1
  <2>2. {n \in DOMAIN symhash : symtab[symhash[n]].fl = GLB} = {}
    BY <2>1
  <2>3. PlaceNow = <<>>
    BY <2>2 DEF PlaceNow
  <2> QED
    BY <2>1, <2>3 DEF Resolution!Init, PlaceNow
<1>2. IInv /\ IInv' /\ ~LateCommon /\ [Next1]_vars1 => [Resolution!Next]_<<WantedNow, PlaceNow>>
  BY ResolutionStep
<1> QED
  BY <1>1, <1>2, Invariance, PTL DEF Spec1, ResolvesSymbols, Resolution!Spec, Resolution!resvars, WantedNow, PlaceNow

(* In particular it does so in every link in which no name is a common in  *)
(* one module and defined by another: all definitions in the table come    *)
(* from modules until the commons are allocated.                           *)
Given(m) == \E f \in DOMAIN Content : \E i \in 1 .. Len(Content[f].mods) : m = Content[f].mods[i]
DefinedSomewhere(n) == \E m \in ModuleRecord : Given(m) /\ Defines(m, n)
CommonSomewhere(n) ==
  \E m \in ModuleRecord : Given(m) /\ \E j \in 1 .. Len(m.syms) :
    m.syms[j].fl = UNX /\ m.syms[j].name = n /\ m.syms[j].val > 0
CommonsApart == \A n \in Names : ~(DefinedSomewhere(n) /\ CommonSomewhere(n))

LoadsSymbols == pc \in {"pass0", "open", "scan", "load", "seg", "sym", "loaded"}
ApartInv ==
  /\ pc \in {"load", "seg", "sym"} => Given(obj)
  /\ LoadsSymbols => \A i \in 1 .. Len(symtab) : symtab[i].fl = GLB => DefinedSomewhere(symtab[i].name)

(* What is loaded is a module of some file.                                *)
LEMMA GivenStep == IInv /\ ApartInv /\ [Next1]_vars1 => (pc \in {"load", "seg", "sym"} => Given(obj))'
<1> SUFFICES ASSUME IInv, ApartInv, [Next1]_vars1, pc' \in {"load", "seg", "sym"}
             PROVE  Given(obj')
  BY DEF Given
<1>1. CASE OpenObject /\ pc' = "load"
  <2>1. File = Content[filtab[fi].file] /\ File.kind = "obj" /\ obj' = File.mods[1] /\ fi <= Len(filtab)
    BY <1>1 DEF OpenObject, Fatal, File
  <2>2. filtab[fi].file \in DOMAIN Content
    BY <2>1, FileType DEF IInv
  <2>3. 1 \in 1 .. Len(Content[filtab[fi].file].mods)
    BY <2>1, <2>2, InputAssumption
  <2> QED
    BY <2>1, <2>2, <2>3 DEF Given
<1>2. CASE ScanMember /\ pc' = "load"
  <2>1. /\ File = Content[filtab[fi].file] /\ obj' = File.mods[mi] /\ mi <= Len(File.mods)
        /\ fi <= Len(filtab) /\ mi \in Nat /\ mi >= 1
    BY <1>2 DEF ScanMember, Fatal, File, IInv, TypeOK1, LoopType, ControlType
  <2>2. filtab[fi].file \in DOMAIN Content
    BY <2>1, FileType DEF IInv
  <2>3. Len(Content[filtab[fi].file].mods) \in Nat
    BY <2>2, InputAssumption
  <2>4. mi \in 1 .. Len(Content[filtab[fi].file].mods)
    BY <2>1, <2>3
  <2> QED
    BY <2>1, <2>2, <2>4 DEF Given
<1>3. CASE obj' = obj /\ pc \in {"load", "seg", "sym"}
  BY <1>3 DEF ApartInv
<1>4. \/ OpenObject /\ pc' = "load"
      \/ ScanMember /\ pc' = "load"
      \/ obj' = obj /\ pc \in {"load", "seg", "sym"}
  <2>1. CASE Pass0
    BY <2>1, Zenon DEF Pass0, OptFlag, OptStack, OptTypes, OptFile, OptUndef, OptDescr, OptNamed,
                EndPass0, Option, Fatal, Dodset
  <2>2. CASE ScanStep
    BY <2>2 DEF ScanStep, OpenFails, OpenObject, SkipArchive, OpenArchive, ScanMember, EndScan,
                Loaded, EndFiles, NextFile, Fatal
  <2>3. CASE SegmentStep
    BY <2>3 DEF SegmentStep, Reject, StartModule, DoSegment, EndSegments, Fatal, modvars
  <2>4. CASE SymbolStep
    BY <2>4 DEF SymbolStep, SymSegment, SymDropped, SymReference, SymDefinition, SymNew, SymStep,
                SymFrame, Fatal
  <2>5. CASE FinishStep
    BY <2>5, Zenon DEF FinishStep, EndSymbols, SkipSymbol, EndCommons, AllocCommon, EndPass1, Fatal
  <2>6. CASE UNCHANGED vars1
    BY <2>6 DEF vars1, modvars
  <2> QED
    BY <2>1, <2>2, <2>3, <2>4, <2>5, <2>6
       DEF Next1, Step1, Pass1, Ended1, ScanStep, SegmentStep, SymbolStep, FinishStep
<1> QED
  BY <1>1, <1>2, <1>3, <1>4

(* Until the commons are allocated, a definition comes from a module.      *)
LEMMA DefinedStep ==
  IInv /\ ApartInv /\ [Next1]_vars1 =>
    (LoadsSymbols => \A i \in 1 .. Len(symtab) : symtab[i].fl = GLB => DefinedSomewhere(symtab[i].name))'
<1> SUFFICES ASSUME IInv, ApartInv, [Next1]_vars1, LoadsSymbols'
             PROVE  \A i \in 1 .. Len(symtab') : symtab'[i].fl = GLB => DefinedSomewhere(symtab'[i].name)
  BY DEF DefinedSomewhere, Given, Defines
<1>0. LoadsSymbols
  <2>1. CASE Pass0
    BY <2>1 DEF Pass0, OptFlag, OptStack, OptTypes, OptFile, OptUndef, OptDescr, OptNamed,
                EndPass0, Option, LoadsSymbols
  <2>2. CASE ScanStep
    BY <2>2 DEF ScanStep, OpenFails, OpenObject, SkipArchive, OpenArchive, ScanMember, EndScan,
                Loaded, EndFiles, LoadsSymbols
  <2>3. CASE SegmentStep
    BY <2>3 DEF SegmentStep, Reject, StartModule, DoSegment, EndSegments, LoadsSymbols
  <2>4. CASE SymbolStep
    BY <2>4 DEF SymbolStep, SymSegment, SymDropped, SymReference, SymDefinition, SymNew, SymStep,
                LoadsSymbols
  <2>5. CASE FinishStep
    BY <2>5, Zenon DEF FinishStep, EndSymbols, SkipSymbol, EndCommons, AllocCommon, EndPass1, Fatal, LoadsSymbols
  <2>6. CASE UNCHANGED pc
    BY <2>6 DEF LoadsSymbols
  <2> QED
    BY <2>1, <2>2, <2>3, <2>4, <2>5, <2>6
       DEF Next1, Step1, Pass1, Ended1, vars1, ScanStep, SegmentStep, SymbolStep, FinishStep
<1>1. /\ symtab \in Seq(SymRecord) /\ Len(symtab) \in Nat
      /\ \A i \in 1 .. Len(symtab) : symtab[i] \in SymRecord
      /\ \A i \in 1 .. Len(symtab) : symtab[i].fl = GLB => DefinedSomewhere(symtab[i].name)
      /\ {UNX, GLB} \cap {SEG, LOC} = {} /\ UNX # GLB
  <2>1. symtab \in Seq(SymRecord)
    BY DEF IInv, TypeOK1, SymbolType
  <2> QED
    BY <1>0, <2>1, ElementOfSeq DEF ApartInv, UNX, GLB, SEG, LOC
<1>2. ASSUME NEW s, symtab' = Append(symtab, s), s.fl = GLB => DefinedSomewhere(s.name)
      PROVE  \A i \in 1 .. Len(symtab') : symtab'[i].fl = GLB => DefinedSomewhere(symtab'[i].name)
  BY <1>1, <1>2
<1>3. ASSUME NEW i \in 1 .. Len(symtab), NEW s, symtab' = [symtab EXCEPT ![i] = s],
             s.fl = GLB => DefinedSomewhere(s.name)
      PROVE  \A q \in 1 .. Len(symtab') : symtab'[q].fl = GLB => DefinedSomewhere(symtab'[q].name)
  <2>1. Len(symtab') = Len(symtab) /\ \A q \in 1 .. Len(symtab) : symtab'[q] = IF q = i THEN s ELSE symtab[q]
    BY <1>1, <1>3
  <2> QED
    BY <1>1, <1>3, <2>1
<1>4. CASE symtab' = symtab
  BY <1>1, <1>4
<1>5. ASSUME SymStep, Cur.fl = GLB PROVE DefinedSomewhere(Cur.name)
  <2>1. Given(obj) /\ obj \in ModuleRecord
    BY <1>5 DEF SymStep, ApartInv, IInv, TypeOK1, ModuleType, LoadableOK
  <2>2. k \in 1 .. Len(obj.syms) /\ Cur = obj.syms[k]
    BY <1>5 DEF SymStep, Cur, IInv, TypeOK1, ControlType, LoopType, ModuleType, LoadableOK, ModuleRecord
  <2>3. Defines(obj, Cur.name)
    BY <1>5, <2>2 DEF Defines
  <2> QED
    BY <2>1, <2>3 DEF DefinedSomewhere
<1>6. CASE OptUndef
  BY <1>1, <1>2, <1>4, <1>6 DEF OptUndef, symvars, Symbol
<1>7. CASE OptNamed
  <2>1. CASE \E n, i : symtab' = Append(symtab, Symbol(SEG, n, i, 0))
    <3>1. PICK n, i : symtab' = Append(symtab, Symbol(SEG, n, i, 0))
      BY <2>1
    <3>2. Symbol(SEG, n, i, 0).fl # GLB
      BY <1>1 DEF Symbol
    <3> QED
      BY <1>2, <3>1, <3>2
  <2>2. CASE Found(seghash, cmd[k].name) /\ symtab' = [symtab EXCEPT ![seghash[cmd[k].name]].sg = cmd[k].seg]
    <3> DEFINE i == seghash[cmd[k].name]
               s == [symtab[i] EXCEPT !.sg = cmd[k].seg]
    <3>1. i \in 1 .. Len(symtab) /\ symtab[i].fl = SEG
      BY <2>2 DEF Found, IInv, HashExact
    <3>2. s.fl # GLB /\ symtab' = [symtab EXCEPT ![i] = s]
      BY <1>1, <2>2, <3>1 DEF SymRecord
    <3> HIDE DEF i, s
    <3> QED
      BY <1>3, <3>1, <3>2
  <2>3. \/ UNCHANGED symtab
        \/ \E n, i : symtab' = Append(symtab, Symbol(SEG, n, i, 0))
        \/ Found(seghash, cmd[k].name) /\ symtab' = [symtab EXCEPT ![seghash[cmd[k].name]].sg = cmd[k].seg]
    BY <1>7 DEF OptNamed, symvars
  <2> QED
    BY <1>4, <2>1, <2>2, <2>3
<1>8. CASE SymReference
  <2> DEFINE i == symhash[Cur.name]
             s == [symtab[i] EXCEPT !.val = Cur.val]
  <2>1. i \in 1 .. Len(symtab)
    BY <1>8 DEF SymReference, Found, IInv, HashExact
  <2>2. s.fl = symtab[i].fl /\ s.name = symtab[i].name
    BY <1>1, <2>1 DEF SymRecord
  <2>3. CASE symtab' = [symtab EXCEPT ![i] = s]
    <3> HIDE DEF i, s
    <3> QED
      BY <1>1, <1>3, <2>1, <2>2, <2>3
  <2>4. symtab' = symtab \/ symtab' = [symtab EXCEPT ![i] = s]
    BY <1>8 DEF SymReference
  <2> QED
    BY <1>4, <2>3, <2>4
<1>9. CASE SymDefinition
  <2>1. SymStep /\ Cur.fl = GLB /\ symhash[Cur.name] \in 1 .. Len(symtab) /\ Cur \in SymRecord
    BY <1>9, CurType DEF SymDefinition, Found, IInv, HashExact
  <2>2. CASE ~(symtab' = symtab)
    <3>1. \E start : symtab' = [symtab EXCEPT ![symhash[Cur.name]] = Moved(Cur, start)]
      BY <1>9, <2>2 DEF SymDefinition
    <3>2. PICK start : symtab' = [symtab EXCEPT ![symhash[Cur.name]] = Moved(Cur, start)]
      BY <3>1
    <3>3. Moved(Cur, start).name = Cur.name
      BY <2>1 DEF Moved, SymRecord
    <3>4. DefinedSomewhere(Moved(Cur, start).name)
      BY <1>5, <2>1, <3>3
    <3> QED
      BY <1>3, <2>1, <3>2, <3>4
  <2> QED
    BY <1>4, <2>2
<1>10. CASE SymNew
  <2>1. SymStep /\ Cur \in SymRecord
    BY <1>10, CurType DEF SymNew
  <2>2. CASE ~(symtab' = symtab)
    <3>1. \E start : symtab' = Append(symtab, IF Cur.fl = GLB THEN Moved(Cur, start) ELSE Cur)
      BY <1>10, <2>2 DEF SymNew, symvars
    <3>2. PICK start : symtab' = Append(symtab, IF Cur.fl = GLB THEN Moved(Cur, start) ELSE Cur)
      BY <3>1
    <3>3. CASE Cur.fl = GLB
      <4>1. Moved(Cur, start).name = Cur.name
        BY <2>1 DEF Moved, SymRecord
      <4>2. DefinedSomewhere(Moved(Cur, start).name)
        BY <1>5, <2>1, <3>3, <4>1
      <4> QED
        BY <1>2, <3>2, <3>3, <4>2
    <3>4. CASE Cur.fl # GLB
      BY <1>2, <3>2, <3>4
    <3> QED
      BY <3>3, <3>4
  <2> QED
    BY <1>4, <2>2
<1>11. ~AllocCommon
  BY <1>0, Zenon DEF LoadsSymbols, AllocCommon
<1>12. UNCHANGED symvars => symtab' = symtab
  BY DEF symvars
<1> QED
  BY <1>4, <1>6, <1>7, <1>8, <1>9, <1>10, <1>11, <1>12, SymChanges

(* When no name is a common in one module and defined by another, pass 1   *)
(* resolves symbols as SymbolResolution says, with no further condition.   *)
THEOREM ResolutionApart ==
  ASSUME CommonsApart
  PROVE  Spec1 => ResolvesSymbols
<1>1. Init1 => ApartInv
  <2> SUFFICES ASSUME Init1 PROVE ApartInv
    OBVIOUS
  <2>1. pc = "pass0" /\ symtab = <<>>
    BY DEF Init1
  <2>2. Len(symtab) = 0
    BY <2>1
  <2> QED
    BY <2>1, <2>2 DEF ApartInv
<1>2. IInv /\ ApartInv /\ [Next1]_vars1 => ApartInv'
  BY GivenStep, DefinedStep DEF ApartInv
<1>3. IInv /\ ApartInv => ~LateCommon
  <2> SUFFICES ASSUME IInv, ApartInv, LateCommon PROVE FALSE
    OBVIOUS
  <2>1. k \in 1 .. Len(obj.syms) /\ Cur = obj.syms[k] /\ Cur \in SymRecord /\ Given(obj) /\ obj \in ModuleRecord
    <3>1. k \in Nat /\ k >= 1 /\ k <= Len(obj.syms) /\ obj.syms \in Seq(SymRecord) /\ obj \in ModuleRecord
      BY DEF IInv, TypeOK1, ControlType, LoopType, ModuleType, LoadableOK, ModuleRecord, LateCommon
    <3>2. k \in 1 .. Len(obj.syms)
      BY <3>1
    <3> QED
      BY <3>1, <3>2, ElementOfSeq DEF Cur, LateCommon, ApartInv
  <2> DEFINE n == Cur.name
             i == symhash[n]
  <2>2. i \in 1 .. Len(symtab) /\ symtab[i].name = n /\ symtab[i].fl = GLB /\ symtab[i].val < Cur.val /\ Cur.fl = UNX
    BY DEF LateCommon, EntryOf, Found, IInv, HashExact
  <2>3. symtab[i].val \in Nat
    <3>1. symtab[i] \in SymRecord
      BY <2>2, ElementOfSeq DEF IInv, TypeOK1, SymbolType
    <3> QED
      BY <3>1 DEF SymRecord
  <2>4. Cur.val \in Nat /\ n \in Names
    BY <2>1 DEF SymRecord
  <2>5. DefinedSomewhere(n)
    BY <2>2 DEF ApartInv, LoadsSymbols, LateCommon
  <2>6. CommonSomewhere(n)
    BY <2>1, <2>2, <2>3, <2>4 DEF CommonSomewhere
  <2> QED
    BY <2>4, <2>5, <2>6 DEF CommonsApart
<1> QED
  BY <1>1, <1>2, <1>3, Invariance, ResolutionCorrect, PTL DEF Spec1

-----------------------------------------------------------------------------
(* An archive is left only when it holds nothing that is wanted. While a   *)
(* scan has not loaded anything, the members behind it are fruitless; and  *)
(* what is loaded comes from an object or an archive.                      *)
ScanInv ==
  /\ pc \in {"scan", "load", "seg", "sym", "loaded"} => File.kind # "none"
  /\ pc = "scan" /\ ~changed => \A i \in 1 .. Len(File.mods) : i < mi => ~Trysim(File.mods[i])

(* When the count of undefined symbols is zero, no name is wanted.         *)
LEMMA NothingWanted ==
  ASSUME IInv, udefcnt = 0
  PROVE  \A n \in Names : ~Wanted(n)
<1>1. symtab \in Seq(SymRecord)
  BY DEF IInv, TypeOK1, SymbolType
<1>2. IsFiniteSet(Undef(symtab)) /\ Cardinality(Undef(symtab)) = 0
  BY <1>1, UndefFinite DEF IInv, UdefcntExact, Undef
<1>3. Undef(symtab) = {}
  BY <1>2, FS_EmptySet
<1>4. ASSUME NEW n \in Names, Wanted(n) PROVE symhash[n] \in Undef(symtab)
  BY <1>4 DEF Wanted, Found, IInv, HashExact, Undef
<1> QED
  BY <1>3, <1>4

(* The kind of the file that is being loaded.                              *)
LEMMA KindStep ==
  ASSUME IInv, ScanInv, [Next1]_vars1
  PROVE  (pc \in {"scan", "load", "seg", "sym", "loaded"} => File.kind # "none")'
<1> SUFFICES ASSUME pc' \in {"scan", "load", "seg", "sym", "loaded"} PROVE File'.kind # "none"
  OBVIOUS
<1>1. CASE pc \in {"scan", "load", "seg", "sym", "loaded"} /\ fi' = fi
  <2>1. SameFiles /\ fi \in 1 .. Len(filtab)
    BY <1>1, FilesKept, FileType DEF IInv, TypeOK1, LoopType
  <2>2. File' = File
    BY <1>1, <2>1 DEF SameFiles, File
  <2> QED
    BY <1>1, <2>2 DEF ScanInv
<1>2. CASE OpenObject \/ OpenArchive
  <2>1. pc = "open" /\ fi <= Len(filtab) /\ fi' = fi /\ File.kind # "none"
    BY <1>2 DEF OpenObject, OpenArchive
  <2>2. SameFiles /\ fi \in 1 .. Len(filtab)
    BY <2>1, FilesKept, FileType DEF IInv, TypeOK1
  <2> QED
    BY <2>1, <2>2 DEF SameFiles, File
<1>3. \/ OpenObject \/ OpenArchive
      \/ /\ pc \in {"scan", "load", "seg", "sym", "loaded"}
         /\ fi' = fi
  <2>1. CASE Pass0
    BY <2>1 DEF Pass0, OptFlag, OptStack, OptTypes, OptFile, OptUndef, OptDescr, OptNamed,
                EndPass0, Option, Fatal
  <2>2. CASE ScanStep
    BY <2>2 DEF ScanStep, OpenFails, SkipArchive, ScanMember, EndScan, Loaded, EndFiles, NextFile, Fatal
  <2>3. CASE SegmentStep
    BY <2>3 DEF SegmentStep, Reject, StartModule, DoSegment, EndSegments, Fatal
  <2>4. CASE SymbolStep
    BY <2>4 DEF SymbolStep, SymSegment, SymDropped, SymReference, SymDefinition, SymNew, SymStep,
                SymFrame, Fatal
  <2>5. CASE FinishStep
    BY <2>5, Zenon DEF FinishStep, EndSymbols, SkipSymbol, EndCommons, AllocCommon, EndPass1, Fatal
  <2>6. CASE UNCHANGED vars1
    BY <2>6 DEF vars1
  <2> QED
    BY <2>1, <2>2, <2>3, <2>4, <2>5, <2>6
       DEF Next1, Step1, Pass1, Ended1, ScanStep, SegmentStep, SymbolStep, FinishStep
<1> QED
  BY <1>1, <1>2, <1>3

(* Which members are fruitless only depends on the symbol table and mode.  *)
LEMMA TrysimSame ==
  ASSUME UNCHANGED <<symvars, segmode>>, NEW CONSTANT m
  PROVE  Trysim(m)' <=> Trysim(m)
BY DEF Trysim, RightKind, Wanted, Found, symvars, Readable, Defines

(* Every step keeps the members behind a scan that loaded nothing          *)
(* fruitless.                                                              *)
LEMMA ScanInvStep ==
  ASSUME IInv, ScanInv, [Next1]_vars1
  PROVE  ScanInv'
<1>1. (pc \in {"scan", "load", "seg", "sym", "loaded"} => File.kind # "none")'
  BY KindStep
<1> SUFFICES ASSUME pc' = "scan", ~changed', NEW CONSTANT i \in 1 .. Len(File'.mods), i < mi',
                    NEW CONSTANT m, m = File'.mods[i]
             PROVE  ~Trysim(m)'
  <2>1. ASSUME pc' = "scan", ~changed', NEW CONSTANT i \in 1 .. Len(File'.mods), i < mi'
        PROVE  ~Trysim(File.mods[i])'
    <3>1. PICK m : m = File'.mods[i]
      OBVIOUS
    <3>2. ~Trysim(m)'
      BY <2>1, <3>1
    <3> QED
      BY <3>1, <3>2 DEF Trysim, Readable, RightKind, Defines
  <2> QED
    BY <1>1, <2>1 DEF ScanInv
<1>2. CASE ScanMember
  <2>1. /\ pc = "scan" /\ mi <= Len(File.mods) /\ ~Trysim(File.mods[mi]) /\ mi' = mi + 1
        /\ UNCHANGED <<changed, fi, symvars, segmode>>
    BY <1>2 DEF ScanMember, Fatal
  <2>2. File' = File
    BY <1>2, <2>1, FilesKept, FileType DEF IInv, TypeOK1, LoopType, SameFiles, File
  <2>3. mi \in Nat /\ Len(File.mods) \in Nat
    BY <2>1, FileType DEF IInv, TypeOK1, ControlType, LoopType
  <2>4. ~Trysim(File.mods[i])
    BY <2>1, <2>2, <2>3 DEF ScanInv
  <2>5. ~Trysim(m)
    BY <2>2, <2>4 DEF Trysim, Readable, RightKind, Defines
  <2> QED
    BY <2>1, <2>5, TrysimSame
<1>3. CASE UNCHANGED vars1
  <2>1. /\ File' = File /\ UNCHANGED <<symvars, segmode, pc, changed, mi>>
    BY <1>3 DEF vars1, File, optvars
  <2>2. ~Trysim(File.mods[i])
    BY <2>1 DEF ScanInv
  <2>3. ~Trysim(m)
    BY <2>1, <2>2 DEF Trysim, Readable, RightKind, Defines
  <2> QED
    BY <2>1, <2>3, TrysimSame
<1>4. CASE OpenArchive \/ EndScan
  <2>1. mi' = 1
    BY <1>4 DEF OpenArchive, EndScan, NextFile
  <2> QED
    BY <2>1
<1>5. CASE Loaded
  <2>1. File.kind # "obj" /\ File.kind # "none" /\ changed' = (File.kind = "lib")
    BY <1>5 DEF Loaded, NextFile, ScanInv
  <2>2. File.kind \in {"obj", "lib", "none"}
    BY <1>5, FileType, InputAssumption DEF IInv, TypeOK1, LoopType, Loaded, File
  <2> QED
    BY <2>1, <2>2
<1>6. ScanMember \/ OpenArchive \/ EndScan \/ Loaded \/ UNCHANGED vars1
  <2>1. CASE Pass0
    BY <2>1 DEF Pass0, OptFlag, OptStack, OptTypes, OptFile, OptUndef, OptDescr, OptNamed,
                EndPass0, Option, Fatal
  <2>2. CASE ScanStep
    BY <2>2 DEF ScanStep, OpenFails, OpenObject, SkipArchive, EndFiles, NextFile, Fatal
  <2>3. CASE SegmentStep
    BY <2>3 DEF SegmentStep, Reject, StartModule, DoSegment, EndSegments, Fatal
  <2>4. CASE SymbolStep
    BY <2>4 DEF SymbolStep, SymSegment, SymDropped, SymReference, SymDefinition, SymNew, SymStep, Fatal
  <2>5. CASE FinishStep
    BY <2>5, Zenon DEF FinishStep, EndSymbols, SkipSymbol, EndCommons, AllocCommon, EndPass1, Fatal
  <2> QED
    BY <2>1, <2>2, <2>3, <2>4, <2>5
       DEF Next1, Step1, Pass1, Ended1, ScanStep, SegmentStep, SymbolStep, FinishStep
<1> QED
  BY <1>2, <1>3, <1>4, <1>5, <1>6

(* An archive is left.                                                     *)
LEMMA ScanLeaves ==
  ASSUME IInv, ScanInv, [Next1]_vars1, pc \in {"scan", "loaded"}, pc' = "open", File.kind = "lib",
         NEW CONSTANT f, f = filtab[fi].file
  PROVE  Exhausted(Content[f])'
<1>1. /\ Loaded \/ EndScan
      /\ UNCHANGED <<symvars, segmode>> /\ (udefcnt = 0 \/ (pc = "scan" /\ ~changed /\ mi > Len(File.mods)))
  <2>1. Loaded \/ EndScan
    <3>1. ~(OpenFails \/ OpenObject \/ SkipArchive \/ OpenArchive \/ EndFiles) /\ ~ScanMember
      BY DEF OpenFails, OpenObject, SkipArchive, OpenArchive, EndFiles, ScanMember, Fatal
    <3>2. ~Pass0
      BY DEF Pass0, OptFlag, OptStack, OptTypes, OptFile, OptUndef, OptDescr, OptNamed, EndPass0, Option
    <3>3. ~SegmentStep /\ ~SymbolStep /\ ~FinishStep
      BY Zenon DEF SegmentStep, Reject, StartModule, DoSegment, EndSegments, SymbolStep, SymSegment, SymDropped,
             SymReference, SymDefinition, SymNew, SymStep, FinishStep, EndSymbols, SkipSymbol,
             EndCommons, AllocCommon, EndPass1
    <3>4. ~(UNCHANGED vars1)
      BY DEF vars1
    <3> QED
      BY <3>1, <3>2, <3>3, <3>4
         DEF Next1, Step1, Pass1, Ended1, SegmentStep, SymbolStep, FinishStep
  <2>2. CASE Loaded
    BY <2>1, <2>2 DEF Loaded, NextFile
  <2>3. CASE EndScan
    <3>1. /\ UNCHANGED <<symvars, segmode>> /\ pc = "scan" /\ ~Rescan /\ mi > Len(File.mods)
      BY <2>3 DEF EndScan
    <3>2. ~(udefcnt > 0) => udefcnt = 0
      BY DEF IInv, TypeOK1, SymbolType
    <3>3. ~changed \/ ~(udefcnt > 0)
      BY <3>1 DEF Rescan
    <3> QED
      BY <2>1, <3>1, <3>2, <3>3
  <2> QED
    BY <2>1, <2>2, <2>3
<1>2. File.mods \in Seq(ModuleRecord) /\ Len(File.mods) \in Nat /\ mi \in Nat
  BY FileType DEF IInv, TypeOK1, LoopType, ControlType
<1>3. \A i \in 1 .. Len(File.mods) : ~Trysim(File.mods[i])
  <2>1. CASE udefcnt = 0
    BY <2>1, NothingWanted DEF Trysim
  <2>2. CASE pc = "scan" /\ ~changed /\ mi > Len(File.mods)
    BY <1>2, <2>2 DEF ScanInv
  <2> QED
    BY <1>1, <2>1, <2>2
<1>4. \A i \in 1 .. Len(Content[f].mods) : ~Trysim(Content[f].mods[i])'
  <2>1. ASSUME NEW CONSTANT i \in 1 .. Len(Content[f].mods) PROVE ~Trysim(Content[f].mods[i])'
    <3>1. ~Trysim(Content[f].mods[i])
      BY <1>3 DEF File
    <3> DEFINE m == Content[f].mods[i]
    <3>2. ~Trysim(m)'
      <4> HIDE DEF m
      <4>1. ~Trysim(m)
        BY <3>1 DEF m
      <4> QED
        BY <1>1, <4>1, TrysimSame
    <3> QED
      BY <3>2 DEF Trysim
  <2> QED
    BY <2>1 DEF Trysim
<1> QED
  BY <1>4 DEF Exhausted, Trysim

(* An archive that pass 1 leaves, at its end or early, holds no module it  *)
(* should still load, however often it was scanned and whatever the        *)
(* archives before and after it are.                                       *)
THEOREM ArchiveLeftExhausted == Spec1 => ArchiveExhausted
<1>1. Init1 => ScanInv
  BY DEF Init1, ScanInv
<1>2. IInv /\ ScanInv /\ [Next1]_vars1 => ScanInv'
  BY ScanInvStep
<1>3. IInv /\ ScanInv /\ [Next1]_vars1 =>
        \A f \in DOMAIN Content :
          (/\ pc \in {"scan", "loaded"} /\ pc' = "open"
           /\ f = filtab[fi].file /\ File.kind = "lib") => Exhausted(Content[f])'
  BY ScanLeaves
<1> QED
  BY <1>1, <1>2, <1>3, Invariance, PTL DEF Spec1, ArchiveExhausted

-----------------------------------------------------------------------------
(* Pass 2.                                                                 *)
(* The positions in postab of every archive loaded from follow a           *)
(* terminator.  ld8k does not see to that: an archive is left without one  *)
(* when nothing is undefined any more (ld8k.c:412).                        *)
ArchivesEnded ==
  \A f \in 1 .. Len(filtab) :
    filtab[f].posndx > 1 => PosAt(filtab[f].posndx - 1) = 0

FileNo(m)   == mods[m][1]
MemberNo(m) == mods[m][2]
FileAt(f)   == Content[filtab[f].file]
Nfirst(f)   == filtab[f].posndx
Numbers     == 1 .. Len(mods)
Archived(m) == Nfirst(FileNo(m)) > 0
LastOf(m)   == m = Len(mods) \/ FileNo(m + 1) # FileNo(m)

(* What pass 1 remembers of the modules loaded.  Files are in order; the   *)
(* position of module m, of an archive, is number px[m] of postab, and the *)
(* modules of an archive are at consecutive ones, from posndx on.          *)
Kept(px) ==
  /\ px \in Seq(Nat) /\ Len(px) = Len(mods)
  /\ \A a, b \in Numbers : a < b => FileNo(a) <= FileNo(b)
  /\ \A a, b \in Numbers : a < b /\ Archived(a) /\ Archived(b) => px[a] < px[b]
  /\ \A m \in Numbers : ~Archived(m) =>
       /\ MemberNo(m) = 0 /\ Nfirst(FileNo(m)) # 0
       /\ \A n \in Numbers : FileNo(n) = FileNo(m) => n = m
  /\ \A m \in Numbers : Archived(m) =>
       /\ MemberNo(m) \in 1 .. Len(FileAt(FileNo(m)).mods)
       /\ px[m] \in 1 .. Len(postab)
       /\ postab[px[m]] = FileAt(FileNo(m)).at[MemberNo(m)]
       /\ px[m] = IF m > 1 /\ FileNo(m - 1) = FileNo(m) THEN px[m - 1] + 1
                  ELSE Nfirst(FileNo(m))

(* The member about to be loaded has the last position of postab.          *)
Pending(px) ==
  /\ mi \in 1 .. Len(File.mods) /\ Len(postab) >= 1 /\ postab[Len(postab)] = File.at[mi]
  /\ \A m \in Numbers : Archived(m) => px[m] < Len(postab)
  /\ Len(postab) = IF Len(mods) >= 1 /\ FileNo(Len(mods)) = fi THEN px[Len(mods)] + 1
                   ELSE Nfirst(fi)

(* Files not opened yet have no positions.                                 *)
Untouched ==
  \A f \in 1 .. Len(filtab) : (f > fi \/ (f = fi /\ pc = "open")) => Nfirst(f) = 0

(* Where the scan stands: files that have positions have modules, or are   *)
(* about to have the first, and behind the last module of a file that has  *)
(* been left stands a terminator.                                          *)
Scanned(px) ==
  /\ \A f \in 1 .. Len(filtab) :
       /\ Nfirst(f) # 0 => (\E m \in Numbers : FileNo(m) = f) \/ (pc = "load" /\ f = fi)
       /\ Nfirst(f) < 0 => FileAt(f).kind = "obj"
       /\ Nfirst(f) > 0 => FileAt(f).kind = "lib"
  /\ \A m \in Numbers : Archived(m) /\ LastOf(m) /\ FileNo(m) < fi => PosAt(px[m] + 1) = 0
  /\ pc \in {"scan", "seg", "sym", "loaded"} =>
       \A m \in Numbers : Archived(m) /\ m = Len(mods) /\ FileNo(m) = fi => px[m] = Len(postab)
  /\ pc = "load" => IF Nfirst(fi) > 0 THEN Pending(px) ELSE mi = 0 /\ Nfirst(fi) # 0
  /\ pc \in {"scan", "load", "seg", "sym", "loaded"} => FileAt(fi).kind # "none"
  /\ pc \in {"commons", "stack", "interlude"} => fi > Len(filtab)
-----------------------------------------------------------------------------
(* The types of what both passes use.                                      *)
Shape == /\ filtab \in Seq([file : DOMAIN Content, posndx : Int])
         /\ mods \in Seq((1 .. Len(filtab)) \X Nat)
         /\ postab \in Seq(Nat) /\ fi \in Nat \ {0}

LEMMA Shaped ==
  ASSUME IInv, LoadInv
  PROVE  Shape
BY DEF IInv, TypeOK1, OptionType, ControlType, LoadInv, Shape

LEMMA ModuleNumbers ==
  ASSUME Shape
  PROVE  /\ Len(filtab) \in Nat /\ Len(mods) \in Nat /\ Len(postab) \in Nat
         /\ \A m \in Numbers : /\ FileNo(m) \in 1 .. Len(filtab) /\ MemberNo(m) \in Nat
                               /\ mods[m] = <<FileNo(m), MemberNo(m)>>
         /\ \A p \in 1 .. Len(postab) : postab[p] \in Nat
<1>1. Len(filtab) \in Nat /\ Len(mods) \in Nat /\ Len(postab) \in Nat
  BY DEF Shape
<1>2. ASSUME NEW m \in Numbers PROVE mods[m] \in (1 .. Len(filtab)) \X Nat
  <2> DEFINE S == (1 .. Len(filtab)) \X Nat
  <2>1. mods \in Seq(S) /\ m \in 1 .. Len(mods)
    BY DEF Shape, Numbers
  <2> HIDE DEF S
  <2>2. mods[m] \in S
    BY <2>1, ElementOfSeq
  <2> QED
    BY <2>2 DEF S
<1>3. \A p \in 1 .. Len(postab) : postab[p] \in Nat
  BY ElementOfSeq DEF Shape
<1> QED
  BY <1>1, <1>2, <1>3 DEF FileNo, MemberNo

LEMMA FileNumbers ==
  ASSUME Shape, NEW f \in 1 .. Len(filtab)
  PROVE  /\ Nfirst(f) \in Int
         /\ Len(FileAt(f).mods) \in Nat /\ Len(FileAt(f).at) = Len(FileAt(f).mods)
         /\ \A i \in 1 .. Len(FileAt(f).at) : FileAt(f).at[i] \in Nat
         /\ FileAt(f).kind \in {"obj", "lib", "none"}
         /\ FileAt(f).kind = "lib" => \A i, j \in 1 .. Len(FileAt(f).at) :
              FileAt(f).at[i] > 0 /\ (FileAt(f).at[i] = FileAt(f).at[j] => i = j)
<1>1. filtab[f] \in [file : DOMAIN Content, posndx : Int]
  BY ElementOfSeq DEF Shape
<1>2. filtab[f].file \in DOMAIN Content /\ Nfirst(f) \in Int
  BY <1>1 DEF Nfirst
<1>3. /\ FileAt(f).kind \in {"obj", "lib", "none"}
      /\ FileAt(f).mods \in Seq(ModuleRecord) /\ FileAt(f).at \in Seq(Nat)
      /\ Len(FileAt(f).at) = Len(FileAt(f).mods)
  BY <1>2, InputAssumption DEF FileAt
<1>4. \A i \in 1 .. Len(FileAt(f).at) : FileAt(f).at[i] \in Nat
  BY <1>3, ElementOfSeq
<1>5. FileAt(f).kind = "lib" => \A i, j \in 1 .. Len(FileAt(f).at) :
        FileAt(f).at[i] > 0 /\ (FileAt(f).at[i] = FileAt(f).at[j] => i = j)
  <2> DEFINE c == filtab[f].file
  <2>1. c \in DOMAIN Content
    BY <1>2
  <2>2. Content[c].kind = "lib" => \A i, j \in 1 .. Len(Content[c].at) :
          Content[c].at[i] > 0 /\ (Content[c].at[i] = Content[c].at[j] => i = j)
    BY <2>1, PositionAssumption
  <2> QED
    BY <2>2 DEF FileAt
<1>6. Len(FileAt(f).mods) \in Nat
  BY <1>3
<1> QED
  BY <1>2, <1>3, <1>4, <1>5, <1>6

(* A module in an archive is where its position says.                      *)
LEMMA PositionIs ==
  ASSUME Shape, NEW px, Kept(px), NEW m \in Numbers, Archived(m)
  PROVE  px[m] \in 1 .. Len(postab) /\ PosAt(px[m]) = postab[px[m]]
<1>1. px[m] \in 1 .. Len(postab)
  BY DEF Kept
<1>2. Len(postab) \in Nat
  BY ModuleNumbers
<1> QED
  BY <1>1, <1>2 DEF PosAt

(* What is remembered stays so, while postab grows and files that no       *)
(* module comes from get their place in it.                                *)
LEMMA KeptStays ==
  ASSUME Shape, NEW px, Kept(px), UNCHANGED mods,
         \A m \in Numbers : filtab'[FileNo(m)] = filtab[FileNo(m)],
         Len(postab') \in Nat, Len(postab') >= Len(postab),
         \A i \in 1 .. Len(postab) : postab'[i] = postab[i]
  PROVE  Kept(px)'
<1>1. Numbers' = Numbers /\ Len(postab) \in Nat
  BY ModuleNumbers DEF Numbers
<1>2. ASSUME NEW m \in Numbers
      PROVE  /\ FileNo(m)' = FileNo(m) /\ MemberNo(m)' = MemberNo(m)
             /\ Nfirst(FileNo(m))' = Nfirst(FileNo(m)) /\ FileAt(FileNo(m))' = FileAt(FileNo(m))
             /\ Archived(m)' = Archived(m)
  BY <1>2 DEF FileNo, MemberNo, Nfirst, FileAt, Archived
<1>3. px \in Seq(Nat) /\ Len(px) = Len(mods')
  BY DEF Kept
<1>4. \A a, b \in Numbers : a < b => (FileNo(a) <= FileNo(b))'
  BY <1>2 DEF Kept
<1>5. \A a, b \in Numbers : a < b /\ Archived(a)' /\ Archived(b)' => px[a] < px[b]
  BY <1>2 DEF Kept
<1>6. ASSUME NEW m \in Numbers, ~Archived(m)'
      PROVE  /\ MemberNo(m)' = 0 /\ Nfirst(FileNo(m))' # 0
             /\ \A n \in Numbers : FileNo(n)' = FileNo(m)' => n = m
  BY <1>2, <1>6 DEF Kept
<1>7. ASSUME NEW m \in Numbers, Archived(m)'
      PROVE  /\ MemberNo(m)' \in 1 .. Len(FileAt(FileNo(m))'.mods)
             /\ px[m] \in 1 .. Len(postab')
             /\ postab'[px[m]] = FileAt(FileNo(m))'.at[MemberNo(m)']
             /\ px[m] = IF m > 1 /\ FileNo(m - 1)' = FileNo(m)' THEN px[m - 1] + 1
                        ELSE Nfirst(FileNo(m))'
  <2>1. /\ MemberNo(m) \in 1 .. Len(FileAt(FileNo(m)).mods)
        /\ px[m] \in 1 .. Len(postab)
        /\ postab[px[m]] = FileAt(FileNo(m)).at[MemberNo(m)]
        /\ px[m] = IF m > 1 /\ FileNo(m - 1) = FileNo(m) THEN px[m - 1] + 1
                   ELSE Nfirst(FileNo(m))
    BY <1>2, <1>7 DEF Kept
  <2>2. m > 1 => FileNo(m - 1)' = FileNo(m - 1)
    BY <1>2, ModuleNumbers DEF Numbers
  <2>3. px[m] \in 1 .. Len(postab')
    BY <1>1, <2>1
  <2> QED
    BY <1>2, <2>1, <2>2, <2>3
<1> QED
  BY <1>1, <1>3, <1>4, <1>5, <1>6, <1>7 DEF Kept
-----------------------------------------------------------------------------
(* The steps that neither load a module nor take up a file.                *)
LEMMA ScannedQuiet ==
  ASSUME Shape, OrderInv, Len(mods) = modno, NEW px, Kept(px), Scanned(px),
         UNCHANGED <<mods, filtab, postab, fi>>,
         \/ pc \in {"scan", "seg", "sym", "loaded"} /\ pc' \in {"scan", "seg", "sym", "loaded"}
         \/ pc = "open" /\ pc' = "scan" /\ File.kind = "lib"
         \/ pc = "open" /\ pc' \in {"commons", "stack"} /\ fi > Len(filtab)
         \/ pc \in {"commons", "stack"} /\ pc' \in {"commons", "stack", "interlude"}
  PROVE  Kept(px)' /\ Scanned(px)'
<1>2. Kept(px)'
  BY DEF Kept, FileNo, MemberNo, Archived, Nfirst, FileAt, Numbers
<1>4. (\A f \in 1 .. Len(filtab) :
       /\ Nfirst(f) # 0 => (\E m \in Numbers : FileNo(m) = f) \/ (pc = "load" /\ f = fi)
       /\ Nfirst(f) < 0 => FileAt(f).kind = "obj"
       /\ Nfirst(f) > 0 => FileAt(f).kind = "lib")'
  <2>1. pc # "load"
    OBVIOUS
  <2>2. \A f \in 1 .. Len(filtab) :
          /\ Nfirst(f) # 0 => (\E m \in Numbers : FileNo(m) = f)
          /\ Nfirst(f) < 0 => FileAt(f).kind = "obj"
          /\ Nfirst(f) > 0 => FileAt(f).kind = "lib"
    BY <2>1 DEF Scanned
  <2> QED
    BY <2>2 DEF FileNo, Nfirst, FileAt, Numbers
<1>5. (\A m \in Numbers : Archived(m) /\ LastOf(m) /\ FileNo(m) < fi => PosAt(px[m] + 1) = 0)'
  <2>1. \A m \in Numbers : Archived(m) /\ LastOf(m) /\ FileNo(m) < fi => PosAt(px[m] + 1) = 0
    BY DEF Scanned
  <2> QED
    BY <2>1 DEF FileNo, Nfirst, Archived, LastOf, Numbers, PosAt
<1>6. (pc \in {"scan", "seg", "sym", "loaded"} =>
       \A m \in Numbers : Archived(m) /\ m = Len(mods) /\ FileNo(m) = fi => px[m] = Len(postab))'
  <2>1. SUFFICES ASSUME pc' \in {"scan", "seg", "sym", "loaded"}, NEW m \in Numbers,
                        Archived(m), m = Len(mods), FileNo(m) = fi
                 PROVE  px[m] = Len(postab)
    BY DEF FileNo, Nfirst, Archived, Numbers
  <2>2. pc # "open"
    <3>1. FileNo(m) \in 1 .. Len(filtab) /\ fi \in Nat
      BY ModuleNumbers DEF Shape
    <3> QED
      BY <2>1, <3>1 DEF OrderInv, Numbers, FileNo
  <2>3. pc \in {"scan", "seg", "sym", "loaded"}
    BY <2>1, <2>2
  <2> QED
    BY <2>1, <2>3 DEF Scanned
<1>7. (pc = "load" => IF Nfirst(fi) > 0 THEN Pending(px) ELSE mi = 0 /\ Nfirst(fi) # 0)'
  OBVIOUS
<1>8. (pc \in {"commons", "stack", "interlude"} => fi > Len(filtab))'
  BY DEF Scanned
<1>9. (pc \in {"scan", "load", "seg", "sym", "loaded"} => FileAt(fi).kind # "none")'
  BY DEF Scanned, FileAt, File
<1> QED
  BY <1>2, <1>4, <1>5, <1>6, <1>7, <1>8, <1>9 DEF Scanned

(* The next file is taken up, and perhaps a terminator was written.        *)
LEMMA ScannedNext ==
  ASSUME Shape, OrderInv, Len(mods) = modno, NEW px, Kept(px), Scanned(px),
         UNCHANGED <<mods, filtab>>, pc \in {"open", "scan", "loaded"},
         pc' = "open", fi' = fi + 1,
         postab' = postab \/ postab' = Append(postab, 0)
  PROVE  Kept(px)' /\ Scanned(px)'
<1>0. /\ Len(mods) \in Nat /\ Len(postab) \in Nat /\ fi \in Nat
      /\ \A m \in Numbers : FileNo(m) \in Nat /\ FileNo(m) \in 1 .. Len(filtab)
  BY ModuleNumbers DEF Shape
<1>1. /\ Len(postab') \in Nat /\ Len(postab') >= Len(postab)
      /\ \A i \in 1 .. Len(postab) : postab'[i] = postab[i]
      /\ Len(postab') > Len(postab) => Len(postab') = Len(postab) + 1 /\ postab'[Len(postab')] = 0
  <2>1. CASE postab' = postab
    BY <1>0, <2>1
  <2>2. CASE postab' = Append(postab, 0)
    BY <1>0, <2>2 DEF Shape
  <2> QED
    BY <2>1, <2>2
<1>2. \A p \in Nat : p \in 1 .. Len(postab) + 1 /\ PosAt(p) = 0 => PosAt(p)' = 0
  BY <1>0, <1>1 DEF PosAt
<1>3. PosAt(Len(postab) + 1) = 0
  BY <1>0 DEF PosAt
<1>4. Kept(px)'
  BY <1>1, KeptStays
<1>5. \A m \in Numbers : FileNo(m) <= fi /\ (pc = "open" => FileNo(m) < fi)
  BY <1>0 DEF OrderInv, Numbers, FileNo
<1>6. ASSUME NEW m \in Numbers, Archived(m), LastOf(m) PROVE PosAt(px[m] + 1)' = 0
  <2>1. px[m] \in 1 .. Len(postab)
    BY <1>6, PositionIs
  <2>2. CASE FileNo(m) < fi
    <3>1. PosAt(px[m] + 1) = 0
      BY <1>6, <2>2 DEF Scanned
    <3> QED
      BY <1>0, <1>2, <2>1, <3>1
  <2>3. CASE FileNo(m) = fi
    <3>1. pc \in {"scan", "loaded"}
      BY <1>0, <1>5, <2>3
    <3>2. m = Len(mods)
      <4>1. SUFFICES ASSUME m # Len(mods) PROVE FALSE
        OBVIOUS
      <4>2. m + 1 \in Numbers /\ m < m + 1
        BY <1>0, <4>1 DEF Numbers
      <4>3. FileNo(m) <= FileNo(m + 1)
        BY <4>2 DEF Kept
      <4>4. FileNo(m + 1) # FileNo(m)
        BY <1>6, <4>1 DEF LastOf
      <4> QED
        BY <1>0, <1>5, <2>3, <4>2, <4>3, <4>4
    <3>3. px[m] = Len(postab)
      BY <1>6, <2>3, <3>1, <3>2 DEF Scanned
    <3> QED
      BY <1>0, <1>2, <1>3, <3>3
  <2> QED
    BY <1>0, <1>5, <2>2, <2>3
<1>8. (\A f \in 1 .. Len(filtab) :
       /\ Nfirst(f) # 0 => (\E m \in Numbers : FileNo(m) = f) \/ (pc = "load" /\ f = fi)
       /\ Nfirst(f) < 0 => FileAt(f).kind = "obj"
       /\ Nfirst(f) > 0 => FileAt(f).kind = "lib")'
  <2>1. \A f \in 1 .. Len(filtab) :
          /\ Nfirst(f) # 0 => (\E m \in Numbers : FileNo(m) = f)
          /\ Nfirst(f) < 0 => FileAt(f).kind = "obj"
          /\ Nfirst(f) > 0 => FileAt(f).kind = "lib"
    BY DEF Scanned
  <2> QED
    BY <2>1 DEF FileNo, Nfirst, FileAt, Numbers
<1>9. (\A m \in Numbers : Archived(m) /\ LastOf(m) /\ FileNo(m) < fi => PosAt(px[m] + 1) = 0)'
  <2>1. \A m \in Numbers : Archived(m) /\ LastOf(m) => PosAt(px[m] + 1)' = 0
    BY <1>6
  <2> QED
    BY <2>1 DEF FileNo, Nfirst, Archived, LastOf, Numbers
<1> QED
  BY <1>4, <1>8, <1>9 DEF Scanned

(* An object is taken up: no module comes from its file yet.               *)
LEMMA ScannedObject ==
  ASSUME Shape, OrderInv, Len(mods) = modno, NEW px, Kept(px), Scanned(px),
         UNCHANGED <<mods, postab, fi>>, OpenObject, pc' = "load"
  PROVE  Kept(px)' /\ Scanned(px)'
<1>0. /\ Len(mods) \in Nat /\ Len(postab) \in Nat /\ fi \in Nat /\ fi \in 1 .. Len(filtab)
      /\ \A m \in Numbers : FileNo(m) \in Nat /\ FileNo(m) \in 1 .. Len(filtab)
  BY ModuleNumbers DEF Shape, OpenObject
<1>1. pc = "open" /\ mi' = 0 /\ filtab' = [filtab EXCEPT ![fi].posndx = -1] /\ File.kind = "obj"
  BY DEF OpenObject, Fatal
<1>2. \A m \in Numbers : FileNo(m) # fi
  BY <1>0, <1>1 DEF OrderInv, Numbers, FileNo
<1>3. /\ Len(filtab') = Len(filtab) /\ filtab'[fi].posndx = -1 /\ filtab'[fi].file = filtab[fi].file
      /\ \A f \in 1 .. Len(filtab) : f # fi => filtab'[f] = filtab[f]
  <2>1. filtab[fi] \in [file : DOMAIN Content, posndx : Int]
    BY <1>0, ElementOfSeq DEF Shape
  <2> QED
    BY <1>0, <1>1, <2>1 DEF Shape
<1>4. \A m \in Numbers : filtab'[FileNo(m)] = filtab[FileNo(m)]
  BY <1>0, <1>2, <1>3
<1>5. Kept(px)'
  BY <1>0, <1>4, KeptStays
<1>7. (\A f \in 1 .. Len(filtab) :
       /\ Nfirst(f) # 0 => (\E m \in Numbers : FileNo(m) = f) \/ (pc = "load" /\ f = fi)
       /\ Nfirst(f) < 0 => FileAt(f).kind = "obj"
       /\ Nfirst(f) > 0 => FileAt(f).kind = "lib")'
  <2>1. \A f \in 1 .. Len(filtab) :
          /\ Nfirst(f) # 0 => (\E m \in Numbers : FileNo(m) = f)
          /\ Nfirst(f) < 0 => FileAt(f).kind = "obj"
          /\ Nfirst(f) > 0 => FileAt(f).kind = "lib"
    BY <1>1 DEF Scanned
  <2>2. FileAt(fi)' = FileAt(fi) /\ FileAt(fi).kind = "obj"
    BY <1>1, <1>3 DEF FileAt, File
  <2> QED
    BY <1>3, <2>1, <2>2 DEF FileNo, Nfirst, FileAt, Numbers
<1>8. (\A m \in Numbers : Archived(m) /\ LastOf(m) /\ FileNo(m) < fi => PosAt(px[m] + 1) = 0)'
  <2>1. \A m \in Numbers : Archived(m) /\ LastOf(m) /\ FileNo(m) < fi => PosAt(px[m] + 1) = 0
    BY DEF Scanned
  <2>2. \A m \in Numbers : Archived(m)' = Archived(m)
    BY <1>4 DEF Archived, Nfirst, FileNo
  <2> QED
    BY <2>1, <2>2 DEF FileNo, LastOf, Numbers, PosAt
<1>9. (pc = "load" => IF Nfirst(fi) > 0 THEN Pending(px) ELSE mi = 0 /\ Nfirst(fi) # 0)'
  BY <1>1, <1>3 DEF Nfirst
<1>10. FileAt(fi)'.kind # "none"
  BY <1>1, <1>3 DEF FileAt, File
<1> QED
  BY <1>1, <1>5, <1>7, <1>8, <1>9, <1>10 DEF Scanned

(* A member of an archive is taken: its position is put behind the last    *)
(* one.  The first of an archive does not follow a position of another.    *)
LEMMA ScannedMember ==
  ASSUME Shape, OrderInv, Len(mods) = modno, NEW px, Kept(px), Scanned(px), mi \in Nat,
         UNCHANGED <<mods, fi>>, ScanMember, pc' = "load", fi <= Len(filtab), mi >= 1,
         ArchivesEnded'
  PROVE  Kept(px)' /\ Scanned(px)'
<1>0. /\ Len(mods) \in Nat /\ Len(postab) \in Nat /\ fi \in Nat /\ fi \in 1 .. Len(filtab)
      /\ \A m \in Numbers : FileNo(m) \in Nat /\ FileNo(m) \in 1 .. Len(filtab)
      /\ \A p \in 1 .. Len(postab) : postab[p] \in Nat
  BY ModuleNumbers DEF Shape
<1>1. /\ pc = "scan" /\ mi' = mi /\ mi <= Len(File.mods)
      /\ postab' = Append(postab, File.at[mi])
      /\ filtab' = IF filtab[fi].posndx > 0 THEN filtab
                   ELSE [filtab EXCEPT ![fi].posndx = Len(postab) + 1]
  BY DEF ScanMember, Fatal
<1>2. File = FileAt(fi) /\ File.kind # "obj"
  BY <1>1 DEF File, FileAt, OrderInv
<1>3. /\ mi \in 1 .. Len(File.mods) /\ File.at[mi] \in Nat
      /\ FileAt(fi).kind \in {"obj", "lib", "none"} /\ Nfirst(fi) \in Int
  BY <1>0, <1>1, <1>2, FileNumbers
<1>4. Nfirst(fi) >= 0
  BY <1>0, <1>2, <1>3 DEF Scanned
<1>5. /\ Len(postab') = Len(postab) + 1 /\ postab'[Len(postab) + 1] = File.at[mi]
      /\ \A i \in 1 .. Len(postab) : postab'[i] = postab[i]
  <2>1. postab \in Seq(Nat)
    BY DEF Shape
  <2> QED
    BY <1>1, <1>3, <2>1, AppendProperties
<1>6. /\ Len(filtab') = Len(filtab) /\ filtab'[fi].file = filtab[fi].file
      /\ filtab'[fi].posndx = IF Nfirst(fi) > 0 THEN Nfirst(fi) ELSE Len(postab) + 1
      /\ \A f \in 1 .. Len(filtab) : f # fi => filtab'[f] = filtab[f]
  <2>1. filtab[fi] \in [file : DOMAIN Content, posndx : Int]
    BY <1>0, ElementOfSeq DEF Shape
  <2> QED
    BY <1>0, <1>1, <2>1 DEF Shape, Nfirst
<1>7. Nfirst(fi) = 0 => \A m \in Numbers : FileNo(m) # fi
  <2>1. SUFFICES ASSUME Nfirst(fi) = 0, NEW m \in Numbers, FileNo(m) = fi PROVE FALSE
    OBVIOUS
  <2> QED
    BY <2>1 DEF Kept, Archived
<1>8. \A m \in Numbers : filtab'[FileNo(m)] = filtab[FileNo(m)]
  <2>1. CASE Nfirst(fi) > 0
    BY <1>1, <2>1 DEF Nfirst
  <2>2. CASE Nfirst(fi) = 0
    BY <1>0, <1>6, <1>7, <2>2
  <2> QED
    BY <1>3, <1>4, <2>1, <2>2
<1>9. Kept(px)'
  BY <1>0, <1>5, <1>8, KeptStays
<1>10. \A m \in Numbers : Archived(m)' = Archived(m)
  BY <1>8 DEF Archived, Nfirst, FileNo
<1>11. Nfirst(fi) > 0 => /\ Len(mods) \in Numbers /\ FileNo(Len(mods)) = fi
                         /\ Archived(Len(mods)) /\ px[Len(mods)] = Len(postab)
  <2>1. SUFFICES ASSUME Nfirst(fi) > 0
                 PROVE  /\ Len(mods) \in Numbers /\ FileNo(Len(mods)) = fi
                        /\ Archived(Len(mods)) /\ px[Len(mods)] = Len(postab)
    OBVIOUS
  <2>2. PICK m \in Numbers : FileNo(m) = fi
    BY <1>0, <1>1, <2>1 DEF Scanned
  <2>3. Len(mods) \in Numbers /\ FileNo(Len(mods)) <= fi
    BY <1>0, <1>1, <2>2 DEF OrderInv, Numbers, FileNo
  <2>4. FileNo(m) <= FileNo(Len(mods))
    <3>1. m = Len(mods) \/ m < Len(mods)
      BY <1>0 DEF Numbers
    <3> QED
      BY <1>0, <2>3, <3>1 DEF Kept
  <2>5. FileNo(Len(mods)) = fi
    BY <1>0, <2>2, <2>3, <2>4
  <2>6. Archived(Len(mods))
    BY <2>1, <2>5 DEF Archived
  <2> QED
    BY <1>1, <2>3, <2>5, <2>6 DEF Scanned
<1>12. ASSUME NEW m \in Numbers, Archived(m)
       PROVE  px[m] \in 1 .. Len(postab)
  BY <1>12, PositionIs
<1>13. Nfirst(fi) = 0 /\ Len(postab) > 0 => postab[Len(postab)] = 0
  <2>1. SUFFICES ASSUME Nfirst(fi) = 0, Len(postab) > 0 PROVE postab[Len(postab)] = 0
    OBVIOUS
  <2>2. filtab'[fi].posndx = Len(postab) + 1
    BY <1>6, <2>1
  <2>3. \A f \in 1 .. Len(filtab') :
          filtab'[f].posndx > 1 /\ filtab'[f].posndx - 1 <= Len(postab') =>
            postab'[filtab'[f].posndx - 1] = 0
    BY DEF ArchivesEnded, PosAt
  <2>4. filtab'[fi].posndx > 1 /\ filtab'[fi].posndx - 1 = Len(postab)
    BY <1>0, <2>1, <2>2
  <2>5. Len(postab) <= Len(postab') /\ fi \in 1 .. Len(filtab')
    BY <1>0, <1>5, <1>6
  <2>6. postab'[Len(postab)] = 0
    BY <2>3, <2>4, <2>5
  <2> QED
    BY <1>0, <1>5, <2>1, <2>6
<1>15. (\A f \in 1 .. Len(filtab) :
       /\ Nfirst(f) # 0 => (\E m \in Numbers : FileNo(m) = f) \/ (pc = "load" /\ f = fi)
       /\ Nfirst(f) < 0 => FileAt(f).kind = "obj"
       /\ Nfirst(f) > 0 => FileAt(f).kind = "lib")'
  <2>1. \A f \in 1 .. Len(filtab) :
          /\ Nfirst(f) # 0 => (\E m \in Numbers : FileNo(m) = f)
          /\ Nfirst(f) < 0 => FileAt(f).kind = "obj"
          /\ Nfirst(f) > 0 => FileAt(f).kind = "lib"
    BY <1>1 DEF Scanned
  <2>2. FileAt(fi)' = FileAt(fi) /\ Nfirst(fi)' > 0
    BY <1>0, <1>3, <1>4, <1>6 DEF FileAt, Nfirst
  <2>3. FileAt(fi).kind = "lib"
    BY <1>1, <1>2, <1>3 DEF Scanned
  <2> QED
    BY <1>6, <2>1, <2>2, <2>3 DEF FileNo, Nfirst, FileAt, Numbers
<1>16. (\A m \in Numbers : Archived(m) /\ LastOf(m) /\ FileNo(m) < fi => PosAt(px[m] + 1) = 0)'
  <2>1. SUFFICES ASSUME NEW m \in Numbers, Archived(m), LastOf(m), FileNo(m) < fi
                 PROVE  PosAt(px[m] + 1)' = 0
    BY <1>10 DEF FileNo, LastOf, Numbers
  <2>2. PosAt(px[m] + 1) = 0 /\ px[m] \in 1 .. Len(postab)
    BY <1>12, <2>1 DEF Scanned
  <2>3. px[m] # Len(postab)
    <3>1. SUFFICES ASSUME px[m] = Len(postab) PROVE FALSE
      OBVIOUS
    <3>2. postab[Len(postab)] > 0
      <4>1. /\ MemberNo(m) \in 1 .. Len(FileAt(FileNo(m)).mods)
            /\ postab[px[m]] = FileAt(FileNo(m)).at[MemberNo(m)]
        BY <2>1 DEF Kept
      <4>2. FileAt(FileNo(m)).kind = "lib"
        BY <1>0, <2>1 DEF Scanned, Archived
      <4> QED
        BY <1>0, <3>1, <4>1, <4>2, FileNumbers
    <3>3. CASE Nfirst(fi) = 0
      BY <1>0, <1>13, <2>2, <3>1, <3>2, <3>3
    <3>4. CASE Nfirst(fi) > 0
      <4>1. m < Len(mods)
        BY <1>0, <1>11, <2>1, <3>4 DEF Numbers
      <4>2. px[m] < px[Len(mods)]
        BY <1>11, <2>1, <3>4, <4>1 DEF Kept
      <4> QED
        BY <1>0, <1>11, <3>1, <3>4, <4>2
    <3> QED
      BY <1>3, <1>4, <3>3, <3>4
  <2> QED
    BY <1>0, <1>5, <2>2, <2>3 DEF PosAt
<1>17. Nfirst(fi)' > 0 /\ Pending(px)'
  <2>1. Nfirst(fi)' > 0 /\ File' = File
    BY <1>0, <1>3, <1>4, <1>6 DEF File, Nfirst
  <2>2. \A m \in Numbers : Archived(m)' => px[m] < Len(postab')
    BY <1>0, <1>5, <1>10, <1>12
  <2>3. Len(postab') = IF Len(mods) >= 1 /\ FileNo(Len(mods)) = fi THEN px[Len(mods)] + 1
                       ELSE Nfirst(fi)'
    <3>1. CASE Nfirst(fi) > 0
      BY <1>0, <1>5, <1>11, <3>1 DEF Numbers
    <3>2. CASE Nfirst(fi) = 0
      <4>1. ~(Len(mods) >= 1 /\ FileNo(Len(mods)) = fi)
        BY <1>0, <1>7, <3>2 DEF Numbers
      <4> QED
        BY <1>5, <1>6, <3>2, <4>1 DEF Nfirst
    <3> QED
      BY <1>3, <1>4, <3>1, <3>2
  <2> QED
    BY <1>0, <1>1, <1>3, <1>5, <2>1, <2>2, <2>3 DEF Pending, Numbers, FileNo
<1>18. FileAt(fi)'.kind # "none"
  BY <1>1, <1>6 DEF Scanned, FileAt
<1> QED
  BY <1>1, <1>9, <1>15, <1>16, <1>17, <1>18 DEF Scanned

(* p1load() numbers the module: the next one.                              *)
LEMMA ScannedStart ==
  ASSUME Shape, OrderInv, Len(mods) = modno, NEW px, Kept(px), Scanned(px), mi \in Nat,
         UNCHANGED <<filtab, postab, fi>>, StartModule, pc' = "seg", fi <= Len(filtab)
  PROVE  \E py : Kept(py)' /\ Scanned(py)'
<1>0. /\ Len(mods) \in Nat /\ Len(postab) \in Nat /\ fi \in Nat /\ fi \in 1 .. Len(filtab)
      /\ \A m \in Numbers : FileNo(m) \in Nat /\ FileNo(m) \in 1 .. Len(filtab)
      /\ Nfirst(fi) \in Int
  BY ModuleNumbers, FileNumbers DEF Shape
<1>1. pc = "load" /\ mods' = Append(mods, <<fi, mi>>)
  BY DEF StartModule, Fatal
<1>a. PICK new \in Nat : new = Len(mods) + 1
  BY <1>0
<1>b. PICK py : py = Append(px, Len(postab))
  OBVIOUS
<1>2. /\ Len(mods') = new /\ mods'[new] = <<fi, mi>>
      /\ \A m \in Numbers : mods'[m] = mods[m]
  <2> DEFINE S == (1 .. Len(filtab)) \X Nat
  <2>1. mods \in Seq(S) /\ <<fi, mi>> \in S
    BY <1>0, <1>a DEF Shape
  <2> HIDE DEF S
  <2> QED
    BY <1>1, <1>a, <2>1, AppendProperties DEF Numbers
<1>3. /\ py \in Seq(Nat) /\ Len(py) = new /\ py[new] = Len(postab)
      /\ \A m \in Numbers : py[m] = px[m] /\ px[m] \in Nat
  <2>1. px \in Seq(Nat) /\ Len(px) = Len(mods)
    BY DEF Kept
  <2> QED
    BY <1>0, <1>a, <1>b, <2>1, AppendProperties, ElementOfSeq DEF Numbers
<1>4. \A m \in 1 .. new : m \in Numbers \/ m = new
  BY <1>0, <1>a DEF Numbers
<1>5. /\ new \in 1 .. new /\ \A m \in Numbers : m \in 1 .. new /\ m < new /\ m # new
      /\ \A m \in Numbers : m > 1 => m - 1 \in Numbers
  BY <1>0, <1>a DEF Numbers
<1>6. /\ FileNo(new)' = fi /\ MemberNo(new)' = mi
      /\ \A m \in Numbers : FileNo(m)' = FileNo(m) /\ MemberNo(m)' = MemberNo(m)
  BY <1>2 DEF FileNo, MemberNo
<1>7. \A m \in Numbers : FileNo(m) <= fi
  BY <1>0, <1>a, <1>1 DEF OrderInv, Numbers, FileNo
<1>8. /\ \A m \in Numbers : Archived(m)' = Archived(m)
      /\ (Archived(new)' <=> Nfirst(fi) > 0)
  BY <1>6 DEF Archived, Nfirst
<1>9. Nfirst(fi) > 0 => Pending(px)
  BY <1>1 DEF Scanned
<1>10. Nfirst(fi) <= 0 => mi = 0 /\ Nfirst(fi) # 0 /\ \A m \in Numbers : FileNo(m) < fi
  <2>1. SUFFICES ASSUME Nfirst(fi) <= 0
                 PROVE mi = 0 /\ Nfirst(fi) # 0 /\ \A m \in Numbers : FileNo(m) < fi
    OBVIOUS
  <2>2. mi = 0 /\ Nfirst(fi) < 0
    BY <1>0, <1>a, <1>1, <2>1 DEF Scanned
  <2>3. File.kind = "obj"
    BY <1>0, <1>a, <2>2 DEF Scanned, File, FileAt
  <2> QED
    BY <1>0, <1>a, <1>1, <2>2, <2>3 DEF OrderInv, Numbers, FileNo
<1>11. \A a, b \in 1 .. new : a < b => (FileNo(a) <= FileNo(b))'
  <2>1. ASSUME NEW a \in 1 .. new, NEW b \in 1 .. new, a < b
        PROVE  FileNo(a)' <= FileNo(b)'
    <3>1. CASE b \in Numbers
      <4>1. a \in Numbers
        BY <1>0, <1>a, <2>1, <3>1 DEF Numbers
      <4> QED
        BY <1>6, <2>1, <3>1, <4>1 DEF Kept
    <3>2. CASE b = new
      <4>1. a \in Numbers
        BY <1>0, <1>a, <2>1, <3>2 DEF Numbers
      <4> QED
        BY <1>6, <1>7, <3>2, <4>1
    <3> QED
      BY <1>4, <3>1, <3>2
  <2> QED
    BY <2>1
<1>12. ASSUME NEW a \in 1 .. new, NEW b \in 1 .. new, a < b, Archived(a)', Archived(b)'
       PROVE  py[a] < py[b]
  <2>1. a \in Numbers
    BY <1>0, <1>a, <1>12 DEF Numbers
  <2>2. CASE b \in Numbers
    BY <1>3, <1>8, <1>12, <2>1, <2>2 DEF Kept
  <2>3. CASE b = new
    BY <1>3, <1>8, <1>9, <1>12, <2>1, <2>3 DEF Pending
  <2> QED
    BY <1>4, <2>2, <2>3
<1>13. ASSUME NEW m \in 1 .. new, ~Archived(m)'
       PROVE  /\ MemberNo(m)' = 0 /\ Nfirst(FileNo(m))' # 0
              /\ \A n \in 1 .. new : FileNo(n)' = FileNo(m)' => n = m
  <2>1. CASE m = new
    <3>1. Nfirst(fi) <= 0
      BY <1>0, <1>a, <1>8, <1>13, <2>1
    <3>2. Nfirst(FileNo(m))' = Nfirst(fi)
      BY <1>6, <2>1 DEF Nfirst
    <3>3. \A n \in Numbers : FileNo(n)' # fi
      BY <1>0, <1>a, <1>6, <1>10, <3>1
    <3> QED
      BY <1>4, <1>6, <1>10, <2>1, <3>1, <3>2, <3>3
  <2>2. CASE m \in Numbers
    <3>1. /\ MemberNo(m) = 0 /\ Nfirst(FileNo(m)) # 0
          /\ \A n \in Numbers : FileNo(n) = FileNo(m) => n = m
      BY <1>8, <1>13, <2>2 DEF Kept
    <3>2. FileNo(m) # fi
      <4>1. SUFFICES ASSUME FileNo(m) = fi PROVE FALSE
        OBVIOUS
      <4>2. Nfirst(fi) <= 0
        BY <1>0, <1>a, <1>8, <1>13, <2>2, <4>1 DEF Archived
      <4> QED
        BY <1>0, <1>a, <1>10, <2>2, <4>1, <4>2
    <3>3. Nfirst(FileNo(m))' = Nfirst(FileNo(m))
      BY <1>6, <2>2 DEF Nfirst
    <3> QED
      BY <1>4, <1>6, <2>2, <3>1, <3>2, <3>3
  <2> QED
    BY <1>4, <2>1, <2>2
<1>14. ASSUME NEW m \in 1 .. new, Archived(m)'
       PROVE  /\ MemberNo(m)' \in 1 .. Len(FileAt(FileNo(m))'.mods)
              /\ py[m] \in 1 .. Len(postab')
              /\ postab'[py[m]] = FileAt(FileNo(m))'.at[MemberNo(m)']
              /\ py[m] = IF m > 1 /\ FileNo(m - 1)' = FileNo(m)' THEN py[m - 1] + 1
                         ELSE Nfirst(FileNo(m))'
  <2>1. CASE m = new
    <3>1. Pending(px) /\ FileAt(FileNo(m))' = File /\ Nfirst(FileNo(m))' = Nfirst(fi)
      BY <1>6, <1>8, <1>9, <1>14, <2>1 DEF FileAt, File, Nfirst
    <3>2. /\ mi \in 1 .. Len(File.mods) /\ Len(postab) >= 1 /\ postab[Len(postab)] = File.at[mi]
          /\ Len(postab) = IF Len(mods) >= 1 /\ FileNo(Len(mods)) = fi THEN px[Len(mods)] + 1
                           ELSE Nfirst(fi)
      BY <3>1 DEF Pending
    <3>3. (m > 1 /\ FileNo(m - 1)' = FileNo(m)') <=> (Len(mods) >= 1 /\ FileNo(Len(mods)) = fi)
      <4>1. m - 1 = Len(mods) /\ (m > 1 <=> Len(mods) >= 1)
        BY <1>0, <1>a, <2>1
      <4>2. Len(mods) >= 1 => Len(mods) \in Numbers
        BY <1>0, <1>a DEF Numbers
      <4> QED
        BY <1>6, <2>1, <4>1, <4>2
    <3>4. Len(mods) >= 1 => py[m - 1] = px[Len(mods)]
      BY <1>0, <1>a, <1>3, <2>1 DEF Numbers
    <3>5. py[m] = Len(postab) /\ py[m] \in 1 .. Len(postab')
      BY <1>0, <1>a, <1>3, <2>1, <3>2
    <3> QED
      BY <1>6, <2>1, <3>1, <3>2, <3>3, <3>4, <3>5
  <2>2. CASE m \in Numbers
    <3>1. /\ MemberNo(m) \in 1 .. Len(FileAt(FileNo(m)).mods)
          /\ px[m] \in 1 .. Len(postab)
          /\ postab[px[m]] = FileAt(FileNo(m)).at[MemberNo(m)]
          /\ px[m] = IF m > 1 /\ FileNo(m - 1) = FileNo(m) THEN px[m - 1] + 1
                     ELSE Nfirst(FileNo(m))
      BY <1>8, <1>14, <2>2 DEF Kept
    <3>2. /\ FileAt(FileNo(m))' = FileAt(FileNo(m)) /\ Nfirst(FileNo(m))' = Nfirst(FileNo(m))
          /\ py[m] = px[m]
      BY <1>3, <1>6, <2>2 DEF FileAt, Nfirst
    <3>3. m > 1 => FileNo(m - 1)' = FileNo(m - 1) /\ py[m - 1] = px[m - 1]
      BY <1>3, <1>5, <1>6, <2>2
    <3> QED
      BY <1>6, <2>2, <3>1, <3>2, <3>3
  <2> QED
    BY <1>4, <2>1, <2>2
<1>15. Kept(py)'
  BY <1>2, <1>3, <1>11, <1>12, <1>13, <1>14 DEF Kept, Numbers
<1>17. (\A f \in 1 .. Len(filtab) :
       /\ Nfirst(f) # 0 => (\E m \in Numbers : FileNo(m) = f) \/ (pc = "load" /\ f = fi)
       /\ Nfirst(f) < 0 => FileAt(f).kind = "obj"
       /\ Nfirst(f) > 0 => FileAt(f).kind = "lib")'
  <2>1. \A f \in 1 .. Len(filtab) :
          /\ Nfirst(f) # 0 => (\E m \in Numbers : FileNo(m) = f) \/ f = fi
          /\ Nfirst(f) < 0 => FileAt(f).kind = "obj"
          /\ Nfirst(f) > 0 => FileAt(f).kind = "lib"
    BY DEF Scanned
  <2>2. \A f \in 1 .. Len(filtab) : Nfirst(f)' = Nfirst(f) /\ FileAt(f)' = FileAt(f)
    BY DEF Nfirst, FileAt
  <2>3. ASSUME NEW f \in 1 .. Len(filtab), Nfirst(f) # 0
        PROVE  \E m \in 1 .. new : FileNo(m)' = f
    BY <1>5, <1>6, <2>1, <2>3
  <2>4. Numbers' = 1 .. new
    BY <1>2 DEF Numbers
  <2> QED
    BY <2>1, <2>2, <2>3, <2>4
<1>18. (\A m \in Numbers : Archived(m) /\ LastOf(m) /\ FileNo(m) < fi => PosAt(py[m] + 1) = 0)'
  <2>1. SUFFICES ASSUME NEW m \in Numbers', Archived(m)', LastOf(m)', FileNo(m)' < fi
                 PROVE  PosAt(py[m] + 1)' = 0
    OBVIOUS
  <2>2. m \in Numbers
    BY <1>0, <1>a, <1>2, <1>4, <1>6, <2>1 DEF Numbers
  <2>3. LastOf(m)
    <3>1. CASE m = Len(mods)
      BY <3>1 DEF LastOf
    <3>2. CASE m # Len(mods)
      <4>1. m + 1 \in Numbers /\ m # new
        BY <1>0, <1>a, <2>2, <3>2 DEF Numbers
      <4>2. FileNo(m + 1)' # FileNo(m)'
        BY <1>2, <2>1, <4>1 DEF LastOf
      <4> QED
        BY <1>6, <2>2, <4>1, <4>2 DEF LastOf
    <3> QED
      BY <3>1, <3>2
  <2>4. PosAt(px[m] + 1) = 0
    BY <1>6, <1>8, <2>1, <2>2, <2>3 DEF Scanned
  <2> QED
    BY <1>3, <2>2, <2>4 DEF PosAt
<1>19. (\A m \in Numbers : Archived(m) /\ m = Len(mods) /\ FileNo(m) = fi => py[m] = Len(postab))'
  BY <1>2, <1>3
<1>20. FileAt(fi)'.kind # "none"
  BY <1>1 DEF Scanned, FileAt
<1>21. Scanned(py)'
  BY <1>17, <1>18, <1>19, <1>20 DEF Scanned
<1> QED
  BY <1>15, <1>21

-----------------------------------------------------------------------------
(* Pass 1, step by step.                                                   *)
Runs1 == {"open", "scan", "load", "seg", "sym", "loaded", "commons", "stack"}
Remembers == errcnt = 0 /\ ArchivesEnded => \E px : Kept(px) /\ Scanned(px)

LEMMA StepFrom == Step1 => pc \in Runs1 \cup {"pass0"}
BY Zenon DEF Step1, Pass0, Pass1, OpenFails, OpenObject, SkipArchive, OpenArchive, ScanMember,
       EndScan, Reject, StartModule, DoSegment, EndSegments, SymSegment, SymDropped,
       SymReference, SymDefinition, SymNew, SymStep, EndSymbols, Loaded, EndFiles, SkipSymbol,
       AllocCommon, EndCommons, EndPass1, OptFlag, OptStack, OptTypes, OptFile, OptUndef,
       OptDescr, OptNamed, EndPass0, Option, Runs1

(* The number of errors only grows.                                        *)
LEMMA ErrorsStay ==
  ASSUME IInv, pc # "pass0", Step1, errcnt' = 0
  PROVE  errcnt = 0
<1>0. errcnt \in Nat
  BY DEF IInv, TypeOK1, ControlType
<1>1. ~Pass0
  BY DEF Pass0, OptFlag, OptStack, OptTypes, OptFile, OptUndef, OptDescr, OptNamed, EndPass0,
         Option
<1>2. CASE ScanStep
  BY <1>0, <1>2 DEF ScanStep, OpenFails, OpenObject, SkipArchive, OpenArchive, ScanMember,
         EndScan, Loaded, EndFiles, Err
<1>3. CASE SegmentStep
  <2>1. CASE Reject \/ StartModule \/ EndSegments
    BY <1>0, <2>1 DEF Reject, StartModule, EndSegments, Err
  <2>2. CASE DoSegment
    <3>1. UNCHANGED errcnt \/ \E j \in SegNos : PlaceSegment(j)
      BY <2>2 DEF DoSegment
    <3>2. ASSUME NEW j \in SegNos, PlaceSegment(j) PROVE errcnt' = errcnt \/ errcnt' = errcnt + 1
      <4>1. errcnt' = errcnt + (IF segtab[j].siz + obj.segs[k + 1].len >= W THEN 1 ELSE 0)
        BY <3>2 DEF PlaceSegment, Err
      <4> QED
        BY <1>0, <4>1
    <3> QED
      BY <1>0, <3>1, <3>2
  <2> QED
    BY <1>3, <2>1, <2>2 DEF SegmentStep
<1>4. CASE SymbolStep
  BY <1>0, <1>4 DEF SymbolStep, SymSegment, SymDropped, SymReference, SymDefinition, SymNew, Err
<1>5. CASE FinishStep
  BY <1>0, <1>5, Zenon DEF FinishStep, EndSymbols, SkipSymbol, EndCommons, AllocCommon, EndPass1
<1> QED
  BY <1>1, <1>2, <1>3, <1>4, <1>5
     DEF Step1, Pass1, ScanStep, SegmentStep, SymbolStep, FinishStep

(* What a step does to the files and to postab.                            *)
LEMMA FilesMove ==
  ASSUME IInv, pc # "pass0", Step1
  PROVE  /\ \/ UNCHANGED filtab /\ fi' = fi /\ pc' # "open"
            \/ UNCHANGED filtab /\ fi' = fi + 1
            \/ /\ fi' = fi /\ pc' # "open" /\ fi <= Len(filtab)
               /\ \E z : filtab' = [filtab EXCEPT ![fi].posndx = z]
               /\ pc = "open" \/ ~(Nfirst(fi) > 0)
         /\ UNCHANGED postab \/ \E x \in Nat : postab' = Append(postab, x)
<1>0. TypeOK1
  BY DEF IInv
<1>1. ~Pass0
  BY DEF Pass0, OptFlag, OptStack, OptTypes, OptFile, OptUndef, OptDescr, OptNamed, EndPass0,
         Option
<1>2. CASE OpenFails \/ OpenObject \/ SkipArchive \/ OpenArchive \/ EndScan \/ Loaded \/ EndFiles
  BY <1>2 DEF OpenFails, OpenObject, SkipArchive, OpenArchive, EndScan, Loaded, EndFiles,
         optvars, NextFile, Fatal, Closed
<1>3. CASE ScanMember
  <2>1. pc = "scan" /\ fi' = fi /\ fi <= Len(filtab) /\ mi >= 1 /\ mi \in Nat
    BY <1>0, <1>3 DEF ScanMember, TypeOK1, LoopType, ControlType
  <2>2. mi <= Len(File.mods) => File.at[mi] \in Nat
    <3>1. fi \in 1 .. Len(filtab) /\ File.at \in Seq(Nat) /\ File.mods \in Seq(ModuleRecord)
          /\ filtab[fi].file \in DOMAIN Content
      BY <1>0, <2>1, FileType
    <3>2. Len(File.at) = Len(File.mods)
      BY <3>1, InputAssumption DEF File
    <3> QED
      BY <2>1, <3>1, <3>2, ElementOfSeq
  <2> QED
    BY <1>3, <2>1, <2>2 DEF ScanMember, Fatal, Nfirst
<1>4. CASE SegmentStep
  BY <1>4 DEF SegmentStep, Reject, StartModule, DoSegment, EndSegments, optvars, Fatal
<1>5. CASE SymbolStep
  BY <1>5 DEF SymbolStep, SymSegment, SymDropped, SymReference, SymDefinition, SymNew,
         SymFrame, SymStep, optvars, Fatal
<1>6. CASE FinishStep
  BY <1>6, Zenon DEF FinishStep, EndSymbols, SkipSymbol, EndCommons, AllocCommon, EndPass1, optvars,
         Fatal
<1> QED
  BY <1>1, <1>2, <1>3, <1>4, <1>5, <1>6
     DEF Step1, Pass1, ScanStep, SegmentStep, SymbolStep, FinishStep

LEMMA UntouchedStep ==
  ASSUME IInv, LoadInv, Untouched, pc # "pass0", Step1
  PROVE  Untouched'
<1>0. Len(filtab') = Len(filtab) /\ fi \in Nat /\ Shape
  <2>1. SameFiles
    BY FilesKept DEF IInv, Next1
  <2> QED
    BY <2>1, Shaped DEF SameFiles, Shape
<1>1. CASE UNCHANGED filtab /\ fi' = fi /\ pc' # "open"
  BY <1>1 DEF Untouched, Nfirst
<1>2. CASE UNCHANGED filtab /\ fi' = fi + 1
  <2>1. \A f \in 1 .. Len(filtab) : f > fi + 1 \/ f = fi + 1 => f > fi
    BY <1>0, ModuleNumbers
  <2> QED
    BY <1>2, <2>1 DEF Untouched, Nfirst
<1>3. CASE fi' = fi /\ pc' # "open" /\ \E z : filtab' = [filtab EXCEPT ![fi].posndx = z]
  <2>1. \A f \in 1 .. Len(filtab) : f # fi => filtab'[f] = filtab[f]
    BY <1>3 DEF Shape
  <2>2. \A f \in 1 .. Len(filtab) : f > fi => f # fi
    BY <1>0
  <2> QED
    BY <1>0, <1>3, <2>1, <2>2 DEF Untouched, Nfirst
<1> QED
  BY <1>1, <1>2, <1>3, FilesMove

(* An archive that was left without a terminator stays so.                 *)
LEMMA ArchivesStay ==
  ASSUME IInv, LoadInv, Untouched, pc # "pass0", Step1, ArchivesEnded'
  PROVE  ArchivesEnded
<1>0. /\ Len(filtab') = Len(filtab) /\ fi \in Nat /\ Shape /\ Len(filtab) \in Nat
      /\ Len(postab) \in Nat
  <2>1. SameFiles
    BY FilesKept DEF IInv, Next1
  <2> QED
    BY <2>1, Shaped, ModuleNumbers DEF SameFiles, Shape
<1>1. Len(postab') \in Nat /\ Len(postab') >= Len(postab)
      /\ \A i \in 1 .. Len(postab) : postab'[i] = postab[i]
  <2>1. CASE UNCHANGED postab
    BY <1>0, <2>1
  <2>2. ASSUME NEW x \in Nat, postab' = Append(postab, x)
        PROVE  Len(postab') \in Nat /\ Len(postab') >= Len(postab)
               /\ \A i \in 1 .. Len(postab) : postab'[i] = postab[i]
    BY <1>0, <2>2, AppendProperties DEF Shape
  <2> QED
    BY <2>1, <2>2, FilesMove
<1>2. SUFFICES ASSUME NEW f \in 1 .. Len(filtab), Nfirst(f) > 1 PROVE PosAt(Nfirst(f) - 1) = 0
  BY DEF ArchivesEnded, Nfirst
<1>3. filtab'[f].posndx = Nfirst(f) /\ Nfirst(f) \in Int
  <2>1. Nfirst(f) \in Int
    BY <1>0, FileNumbers
  <2>2. CASE UNCHANGED filtab
    BY <2>1, <2>2 DEF Nfirst
  <2>3. ASSUME NEW z, filtab' = [filtab EXCEPT ![fi].posndx = z], fi <= Len(filtab),
               pc = "open" \/ ~(Nfirst(fi) > 0)
        PROVE  filtab'[f].posndx = Nfirst(f)
    <3>1. fi \in 1 .. Len(filtab)
      BY <1>0, <2>3 DEF Shape
    <3>2. ~(Nfirst(fi) > 0)
      BY <2>3, <3>1 DEF Untouched
    <3>3. f # fi
      BY <1>2, <2>1, <3>2
    <3> QED
      BY <1>0, <2>3, <3>3 DEF Shape, Nfirst
  <2> QED
    BY <2>1, <2>2, <2>3, FilesMove
<1>4. Nfirst(f) - 1 <= Len(postab') => postab'[Nfirst(f) - 1] = 0
  BY <1>0, <1>2, <1>3 DEF ArchivesEnded, PosAt
<1> QED
  BY <1>0, <1>1, <1>2, <1>3, <1>4 DEF PosAt

(* Every step of pass 1 without an error remembers what it loads.          *)
LEMMA RemembersStep ==
  ASSUME IInv, SymapInv, OnceInv, Untouched, Remembers, pc # "pass0", Step1, pc' # "fatal"
  PROVE  Remembers'
<1>1. SUFFICES ASSUME errcnt' = 0, ArchivesEnded' PROVE \E py : Kept(py)' /\ Scanned(py)'
  BY DEF Remembers
<1>2. /\ TypeOK1 /\ LoadInv /\ Shape /\ pc \in Runs1 /\ OrderInv /\ Len(mods) = modno
      /\ mi \in Nat
  BY StepFrom, Shaped DEF IInv, SymapInv, LoadInv, OnceInv, Runs1, TypeOK1, ControlType
<1>3. errcnt = 0 /\ ArchivesEnded
  BY <1>1, <1>2, ErrorsStay, ArchivesStay
<1>4. PICK px : Kept(px) /\ Scanned(px)
  BY <1>3 DEF Remembers
<1>5. ~Pass0
  BY DEF Pass0, OptFlag, OptStack, OptTypes, OptFile, OptUndef, OptDescr, OptNamed, EndPass0,
         Option
<1>6. CASE OpenFails \/ Reject
  <2>1. errcnt' = errcnt + 1
    BY <1>6 DEF OpenFails, Reject, Err
  <2> QED
    BY <1>1, <1>3, <2>1
<1>7. CASE OpenObject
  <2>1. pc' = "load" /\ UNCHANGED <<mods, postab, fi>>
    BY <1>7 DEF OpenObject, Fatal
  <2> QED
    BY <1>2, <1>4, <1>7, <2>1, ScannedObject
<1>8. CASE ScanMember
  <2>1. pc = "scan" /\ UNCHANGED <<mods, fi>> /\ pc' \in {"scan", "load"} /\ fi <= Len(filtab) /\ mi >= 1
    BY <1>2, <1>8 DEF ScanMember, Fatal, TypeOK1, LoopType
  <2>2. CASE pc' = "load"
    BY <1>1, <1>2, <1>4, <1>8, <2>1, <2>2, ScannedMember
  <2>3. CASE pc' = "scan"
    <3>1. UNCHANGED <<filtab, postab>>
      BY <1>8, <2>3 DEF ScanMember, Fatal
    <3> QED
      BY <1>2, <1>4, <2>1, <2>3, <3>1, ScannedQuiet
  <2> QED
    BY <2>1, <2>2, <2>3
<1>9. CASE StartModule
  <2>1. pc = "load" /\ pc' = "seg" /\ UNCHANGED <<filtab, postab, fi>> /\ fi <= Len(filtab)
    BY <1>2, <1>9 DEF StartModule, Fatal, TypeOK1, LoopType, optvars
  <2> QED
    BY <1>2, <1>4, <1>9, <2>1, ScannedStart
<1>10. CASE SkipArchive \/ (EndScan /\ pc' = "open") \/ (Loaded /\ pc' = "open")
  <2>1. /\ UNCHANGED <<mods, filtab>> /\ pc \in {"open", "scan", "loaded"} /\ pc' = "open"
        /\ fi' = fi + 1 /\ (postab' = postab \/ postab' = Append(postab, 0))
    BY <1>10 DEF SkipArchive, EndScan, Loaded, NextFile, Closed, optvars, modvars
  <2> QED
    BY <1>2, <1>4, <2>1, ScannedNext
<1>11. CASE \/ OpenArchive \/ (EndScan /\ pc' = "scan") \/ (Loaded /\ pc' = "scan")
            \/ DoSegment \/ EndSegments \/ EndSymbols \/ EndFiles
            \/ SkipSymbol \/ AllocCommon \/ EndCommons \/ EndPass1
  <2>1. UNCHANGED <<mods, filtab, postab, fi>>
    BY <1>11, Zenon DEF OpenArchive, EndScan, Loaded, DoSegment, EndSegments, EndSymbols, EndFiles,
           SkipSymbol, AllocCommon, EndCommons, EndPass1, NextFile, optvars, modvars
  <2>2. \/ pc \in {"scan", "seg", "sym", "loaded"} /\ pc' \in {"scan", "seg", "sym", "loaded"}
        \/ pc = "open" /\ pc' = "scan" /\ File.kind = "lib"
        \/ pc = "open" /\ pc' \in {"commons", "stack"} /\ fi > Len(filtab)
        \/ pc \in {"commons", "stack"} /\ pc' \in {"commons", "stack", "interlude"}
    BY <1>11, Zenon DEF OpenArchive, EndScan, Loaded, DoSegment, EndSegments, EndSymbols, EndFiles,
           SkipSymbol, AllocCommon, EndCommons, EndPass1, NextFile, Fatal
  <2> QED
    BY <1>2, <1>4, <2>1, <2>2, ScannedQuiet
<1>12. CASE SymbolStep
  <2>1. UNCHANGED <<mods, filtab, postab, fi>> /\ pc = "sym" /\ pc' = "sym"
    BY <1>12 DEF SymbolStep, SymSegment, SymDropped, SymReference, SymDefinition, SymNew,
           SymFrame, SymStep, Fatal, optvars
  <2> QED
    BY <1>2, <1>4, <2>1, ScannedQuiet
<1>13. (EndScan \/ Loaded) => pc' \in {"open", "scan"}
  BY DEF EndScan, Loaded, NextFile
<1> QED
  BY <1>5, <1>6, <1>7, <1>8, <1>9, <1>10, <1>11, <1>12, <1>13 DEF Step1, Pass1, SymbolStep
-----------------------------------------------------------------------------
(* Pass 2.  The modules up to number n = Len(loads) are loaded; pi stands  *)
(* behind the position of the last of them, or at the first of its file.   *)
Finished(px) ==
  /\ \A m \in Numbers : Archived(m) /\ LastOf(m) => PosAt(px[m] + 1) = 0
  /\ \A f \in 1 .. Len(filtab) :
       /\ Nfirst(f) # 0 => \E m \in Numbers : FileNo(m) = f
       /\ Nfirst(f) > 0 => FileAt(f).kind = "lib"
Between(n) == \A m \in Numbers : m <= n <=> FileNo(m) < fi
Behind(px, n) == n >= 1 /\ FileNo(n) = fi /\ (Nfirst(fi) > 0 => pi = px[n] + 1)
Replays(px) ==
  LET n == Len(loads) IN
  /\ pc = "p2open" => Between(n)
  /\ pc \in {"p2seg", "p2rel"} => fi <= Len(filtab) /\ Behind(px, n)
  /\ pc = "p2read" => /\ fi <= Len(filtab) /\ Nfirst(fi) > 0
                      /\ Behind(px, n) \/ (Between(n) /\ pi = Nfirst(fi))
  /\ pc \in {"done", "failed"} => n = Len(mods)
Loads == /\ loads \in Seq(Nat \X Nat) /\ Len(loads) <= Len(mods)
         /\ \A m \in 1 .. Len(loads) : loads[m] = mods[m]
InPass2 == pc \in {"p2open", "p2read", "p2seg", "p2rel", "done", "failed"}
ReplayInv == ArchivesEnded => \E px : Kept(px) /\ Finished(px) /\ Loads /\ Replays(px)

(* The next module is loaded.                                              *)
LEMMA LoadNext ==
  ASSUME Shape, Loads, UNCHANGED mods, NEW f \in Nat, NEW i \in Nat,
         loads' = Append(loads, <<f, i>>), Len(loads) + 1 \in Numbers,
         FileNo(Len(loads) + 1) = f, MemberNo(Len(loads) + 1) = i
  PROVE  Loads' /\ Len(loads') = Len(loads) + 1
<1>1. loads \in Seq(Nat \X Nat) /\ Len(loads) \in Nat /\ Len(mods) \in Nat
  BY ModuleNumbers DEF Loads
<1>2. /\ loads' \in Seq(Nat \X Nat) /\ Len(loads') = Len(loads) + 1
      /\ loads'[Len(loads) + 1] = <<f, i>>
      /\ \A m \in 1 .. Len(loads) : loads'[m] = loads[m]
  <2> DEFINE S == Nat \X Nat
  <2>1. loads \in Seq(S) /\ <<f, i>> \in S
    BY <1>1
  <2> HIDE DEF S
  <2>2. /\ loads' \in Seq(S) /\ Len(loads') = Len(loads) + 1
        /\ loads'[Len(loads) + 1] = <<f, i>>
        /\ \A m \in 1 .. Len(loads) : loads'[m] = loads[m]
    BY <2>1, AppendProperties
  <2> QED
    BY <2>2 DEF S
<1>3. mods[Len(loads) + 1] = <<f, i>>
  BY ModuleNumbers
<1>4. \A m \in 1 .. Len(loads) + 1 : m \in 1 .. Len(loads) \/ m = Len(loads) + 1
  BY <1>1
<1>5. \A m \in 1 .. Len(loads) : loads[m] = mods[m]
  BY DEF Loads
<1>6. Len(loads) + 1 <= Len(mods)
  BY <1>1 DEF Numbers
<1> QED
  BY <1>2, <1>3, <1>4, <1>5, <1>6 DEF Loads

(* A file with positions has modules; the next module is its first.        *)
LEMMA FirstOfFile ==
  ASSUME Shape, NEW px, Kept(px), Finished(px), NEW n \in Nat, n <= Len(mods), Between(n),
         fi <= Len(filtab), Nfirst(fi) # 0
  PROVE  n + 1 \in Numbers /\ FileNo(n + 1) = fi /\ (n >= 1 => FileNo(n) # fi)
<1>1. /\ Len(mods) \in Nat /\ fi \in 1 .. Len(filtab) /\ fi \in Nat
      /\ \A m \in Numbers : FileNo(m) \in Nat
  BY ModuleNumbers DEF Shape
<1>2. PICK m \in Numbers : FileNo(m) = fi
  BY <1>1 DEF Finished
<1>3. m > n /\ n + 1 \in Numbers
  BY <1>1, <1>2 DEF Between, Numbers
<1>4. FileNo(n + 1) >= fi
  <2>1. ~(n + 1 <= n)
    OBVIOUS
  <2>2. ~(FileNo(n + 1) < fi)
    BY <1>3, <2>1 DEF Between
  <2> QED
    BY <1>1, <1>3, <2>2
<1>5. FileNo(n + 1) <= fi
  <2>1. m = n + 1 \/ n + 1 < m
    BY <1>1, <1>2, <1>3 DEF Numbers
  <2> QED
    BY <1>1, <1>2, <1>3, <2>1 DEF Kept
<1>6. n >= 1 => n \in Numbers /\ FileNo(n) < fi
  BY <1>1 DEF Between, Numbers
<1> QED
  BY <1>1, <1>3, <1>4, <1>5, <1>6

(* The modules after the last of file fi are those of later files.         *)
LEMMA FileDone ==
  ASSUME Shape, NEW px, Kept(px), NEW n \in Nat, n <= Len(mods), fi <= Len(filtab),
         n >= 1 => FileNo(n) <= fi,
         n + 1 \in Numbers => FileNo(n + 1) > fi
  PROVE  \A m \in Numbers : m <= n <=> FileNo(m) < fi + 1
<1>1. Len(mods) \in Nat /\ fi \in Nat /\ \A m \in Numbers : FileNo(m) \in Nat
  BY ModuleNumbers DEF Shape
<1>2. TAKE m \in Numbers
<1>3. CASE m <= n
  <2>1. n \in Numbers /\ (m = n \/ m < n)
    BY <1>1, <1>3 DEF Numbers
  <2>2. FileNo(m) <= fi
    BY <1>1, <2>1 DEF Kept, Numbers
  <2> QED
    BY <1>1, <1>3, <2>2
<1>4. CASE m > n
  <2>1. n + 1 \in Numbers /\ (m = n + 1 \/ n + 1 < m)
    BY <1>1, <1>4 DEF Numbers
  <2>2. FileNo(m) > fi
    BY <1>1, <2>1 DEF Kept
  <2>3. ~(m <= n)
    BY <1>1, <1>4 DEF Numbers
  <2> QED
    BY <1>1, <2>2, <2>3
<1> QED
  BY <1>1, <1>3, <1>4 DEF Numbers

(* In p2read(), the position at pi is that of the next module, or, if that *)
(* is of another file, a terminator.                                       *)
LEMMA NextPosition ==
  ASSUME Shape, NEW px, Kept(px), Finished(px), NEW n \in Nat, n <= Len(mods),
         fi <= Len(filtab), Nfirst(fi) > 0, Behind(px, n) \/ (Between(n) /\ pi = Nfirst(fi))
  PROVE  IF n + 1 \in Numbers /\ FileNo(n + 1) = fi
         THEN /\ pi = px[n + 1] /\ MemberNo(n + 1) \in 1 .. Len(File.mods)
              /\ PosAt(pi) = File.at[MemberNo(n + 1)] /\ PosAt(pi) > 0
         ELSE PosAt(pi) = 0 /\ \A m \in Numbers : m <= n <=> FileNo(m) < fi + 1
<1>1. /\ Len(mods) \in Nat /\ fi \in 1 .. Len(filtab) /\ fi \in Nat /\ Nfirst(fi) \in Int
      /\ \A m \in Numbers : FileNo(m) \in Nat
      /\ File = FileAt(fi) /\ FileAt(fi).kind = "lib"
  <2>1. fi \in 1 .. Len(filtab) /\ File = FileAt(fi)
    BY ModuleNumbers DEF Shape, File, FileAt
  <2>2. FileAt(fi).kind = "lib"
    BY <2>1 DEF Finished
  <2> QED
    BY <2>1, <2>2, ModuleNumbers, FileNumbers DEF Shape
<1>2. CASE n + 1 \in Numbers /\ FileNo(n + 1) = fi
  <2>1. /\ MemberNo(n + 1) \in 1 .. Len(File.mods) /\ px[n + 1] \in 1 .. Len(postab)
        /\ postab[px[n + 1]] = File.at[MemberNo(n + 1)]
        /\ px[n + 1] = IF n >= 1 /\ FileNo(n) = fi THEN px[n] + 1 ELSE Nfirst(fi)
    <3>1. Archived(n + 1)
      BY <1>2 DEF Archived
    <3>2. (n + 1) - 1 = n /\ (n + 1 > 1 <=> n >= 1)
      OBVIOUS
    <3> QED
      BY <1>1, <1>2, <3>1, <3>2 DEF Kept
  <2>2. pi = px[n + 1]
    <3>1. CASE Behind(px, n)
      BY <2>1, <3>1 DEF Behind
    <3>2. CASE Between(n) /\ pi = Nfirst(fi)
      <4>1. n >= 1 => FileNo(n) # fi
        BY <3>2, FirstOfFile
      <4> QED
        BY <2>1, <3>2, <4>1
    <3> QED
      BY <3>1, <3>2
  <2>3. PosAt(pi) = File.at[MemberNo(n + 1)]
    BY <2>1, <2>2, ModuleNumbers DEF PosAt
  <2>4. File.at[MemberNo(n + 1)] > 0
    BY <1>1, <2>1, FileNumbers
  <2> QED
    BY <1>2, <2>1, <2>2, <2>3, <2>4
<1>3. CASE ~(n + 1 \in Numbers /\ FileNo(n + 1) = fi)
  <2>1. Behind(px, n)
    BY <1>3, FirstOfFile
  <2>2. n \in Numbers /\ FileNo(n) = fi /\ pi = px[n] + 1
    BY <1>1, <2>1 DEF Behind, Numbers
  <2>3. LastOf(n) /\ Archived(n)
    BY <1>1, <1>3, <2>2 DEF LastOf, Archived, Numbers
  <2>4. PosAt(pi) = 0
    BY <2>2, <2>3 DEF Finished
  <2>5. n + 1 \in Numbers => FileNo(n + 1) > fi
    <3>1. SUFFICES ASSUME n + 1 \in Numbers PROVE FileNo(n + 1) > fi
      OBVIOUS
    <3>2. FileNo(n) <= FileNo(n + 1) /\ FileNo(n + 1) # fi
      BY <1>3, <2>2, <3>1 DEF Kept
    <3> QED
      BY <1>1, <2>2, <3>1, <3>2
  <2>6. \A m \in Numbers : m <= n <=> FileNo(m) < fi + 1
    BY <1>1, <2>2, <2>5, FileDone
  <2> QED
    BY <1>3, <2>4, <2>6
<1> QED
  BY <1>2, <1>3

(* The interlude starts pass 2 when pass 1 had no error.                   *)
LEMMA ReplayStarts ==
  ASSUME IInv, SymapInv, Remembers, loads = <<>>, Interlude, pc' # "fatal"
  PROVE  pc' = "p2open" /\ Shape' /\ ReplayInv'
<1>1. /\ pc = "interlude" /\ UNCHANGED <<mods, filtab, postab, loads>>
      /\ pc' = "p2open" /\ fi' = 1 /\ ~(errcnt' > 0)
  BY DEF Interlude, Fatal, optvars, modvars
<1>2. Shape /\ errcnt \in Nat
  BY Shaped DEF IInv, SymapInv, TypeOK1, ControlType
<1>3. errcnt = 0
  <2> DEFINE a == IF Total(CodeOf(Used)) >= W THEN 1 ELSE 0
             b == IF flat /\ Total(Used \ CodeOf(Used)) >= W THEN 1 ELSE 0
             c == IF udefcnt > 0 /\ ~saverel THEN 1 ELSE 0
  <2>1. errcnt' = errcnt + a + b + c
    BY DEF Interlude
  <2>2. a \in {0, 1} /\ b \in {0, 1} /\ c \in {0, 1}
    OBVIOUS
  <2> HIDE DEF a, b, c
  <2> QED
    BY <1>1, <1>2, <2>1, <2>2
<1>4. Shape'
  BY <1>1, <1>2 DEF Shape
<1>5. ASSUME ArchivesEnded' PROVE \E px : (Kept(px) /\ Finished(px) /\ Loads /\ Replays(px))'
  <2>1. ArchivesEnded
    BY <1>1, <1>5 DEF ArchivesEnded, PosAt
  <2>2. PICK px : Kept(px) /\ Scanned(px)
    BY <1>3, <2>1 DEF Remembers
  <2>3. Kept(px)'
    BY <1>1, <2>2 DEF Kept, FileNo, MemberNo, Archived, Nfirst, FileAt, Numbers
  <2>4. Finished(px)
    <3>1. \A m \in Numbers : FileNo(m) < fi
      BY <1>1, <1>2, <2>2, ModuleNumbers DEF Scanned, Shape
    <3>2. \A m \in Numbers : Archived(m) /\ LastOf(m) => PosAt(px[m] + 1) = 0
      BY <2>2, <3>1 DEF Scanned
    <3>3. \A f \in 1 .. Len(filtab) :
            /\ Nfirst(f) # 0 => \E m \in Numbers : FileNo(m) = f
            /\ Nfirst(f) > 0 => FileAt(f).kind = "lib"
      BY <1>1, <2>2 DEF Scanned
    <3> QED
      BY <3>2, <3>3 DEF Finished
  <2>5. Finished(px)'
    BY <1>1, <2>4 DEF Finished, FileNo, Archived, LastOf, Nfirst, FileAt, Numbers, PosAt
  <2>6. Loads' /\ Len(loads') = 0
    <3>1. loads' = <<>> /\ Len(mods') \in Nat
      BY <1>1, <1>2, ModuleNumbers
    <3>2. <<>> \in Seq(Nat \X Nat) /\ Len(<<>>) = 0
      OBVIOUS
    <3> QED
      BY <3>1, <3>2 DEF Loads
  <2>7. Between(0)'
    <3>1. \A m \in Numbers : ~(m <= 0) /\ ~(FileNo(m) < 1)
      BY <1>2, ModuleNumbers DEF Numbers
    <3> QED
      BY <1>1, <3>1 DEF Between, FileNo, Numbers
  <2> QED
    BY <1>1, <2>3, <2>5, <2>6, <2>7 DEF Replays, Between
<1> QED
  BY <1>1, <1>4, <1>5 DEF ReplayInv

(* What pass 1 left is not touched in pass 2.                              *)
LEMMA KeptInPass2 ==
  ASSUME NEW px, Kept(px), Finished(px), UNCHANGED <<mods, filtab, postab>>
  PROVE  Kept(px)' /\ Finished(px)' /\ Numbers' = Numbers
         /\ \A m : FileNo(m)' = FileNo(m) /\ Nfirst(m)' = Nfirst(m)
BY DEF Kept, FileNo, MemberNo, Archived, Nfirst, FileAt, Numbers, Finished, LastOf, PosAt

(* A module is loaded: one of an archive or an object.                     *)
LEMMA ReplayLoads ==
  ASSUME Shape, NEW px, Kept(px), Finished(px), Loads, NEW n \in Nat, n = Len(loads),
         UNCHANGED <<mods, filtab, postab, fi>>, fi <= Len(filtab),
         n + 1 \in Numbers, FileNo(n + 1) = fi,
         loads' = Append(loads, <<fi, MemberNo(n + 1)>>), pc' = "p2seg",
         Nfirst(fi) > 0 => pi' = px[n + 1] + 1
  PROVE  Loads' /\ Replays(px)'
<1>1. fi \in Nat /\ MemberNo(n + 1) \in Nat
  BY ModuleNumbers DEF Shape
<1>2. Loads' /\ Len(loads') = n + 1
  BY <1>1, LoadNext
<1>3. Behind(px, n + 1)'
  BY KeptInPass2 DEF Behind
<1> QED
  BY <1>2, <1>3 DEF Replays, Behind

(* The three ways to open a file in pass 2.                                *)
LEMMA OpenMoves ==
  ASSUME Shape, P2Open
  PROVE  /\ fi' = fi \/ fi' = fi + 1
         /\ pc' \in {"p2open", "p2read", "p2seg"}
<1>1. Posndx \in Int
  BY ModuleNumbers, FileNumbers DEF P2Open, Posndx, Nfirst, Shape
<1>2. CASE Posndx = 0
  BY <1>2 DEF P2Open
<1>3. CASE Posndx > 0
  BY <1>1, <1>3 DEF P2Open
<1>4. CASE Posndx < 0
  <2>1. ~(Posndx = 0) /\ ~(Posndx > 0)
    BY <1>1, <1>4
  <2> QED
    BY <1>4, <2>1 DEF P2Open, P2Load
<1> QED
  BY <1>1, <1>2, <1>3, <1>4

LEMMA LoadsStay == ASSUME Loads, UNCHANGED <<mods, loads>> PROVE Loads'
BY DEF Loads

LEMMA OpenReplays ==
  ASSUME Shape, NEW px, Kept(px), Finished(px), Loads, Replays(px), P2Open,
         UNCHANGED <<mods, filtab, postab>>
  PROVE  Loads' /\ Replays(px)'
<1> PICK n \in Nat : n = Len(loads)
  BY DEF Loads
<1>1. pc = "p2open" /\ fi <= Len(filtab) /\ Between(n) /\ n <= Len(mods) /\ Posndx = Nfirst(fi)
  BY DEF P2Open, Replays, Loads, Posndx, Nfirst
<1>2. /\ Len(mods) \in Nat /\ fi \in Nat /\ fi \in 1 .. Len(filtab) /\ Nfirst(fi) \in Int
      /\ \A m \in Numbers : FileNo(m) \in Nat
  BY <1>1, ModuleNumbers, FileNumbers DEF Shape
<1>3. CASE Nfirst(fi) = 0
  <2>1. pc' = "p2open" /\ fi' = fi + 1 /\ UNCHANGED loads
    BY <1>1, <1>3 DEF P2Open
  <2>2. \A m \in Numbers : FileNo(m) # fi
    BY <1>3 DEF Kept, Archived
  <2>3. \A m \in Numbers : m <= n <=> FileNo(m) < fi + 1
    BY <1>1, <1>2, <2>2 DEF Between
  <2>4. Between(n)'
    BY <2>1, <2>3, KeptInPass2 DEF Between
  <2> QED
    BY <2>1, <2>4, LoadsStay DEF Replays, Between
<1>4. CASE Nfirst(fi) > 0
  <2>1. pc' = "p2read" /\ pi' = Nfirst(fi) /\ UNCHANGED <<fi, loads>>
    BY <1>1, <1>2, <1>4 DEF P2Open
  <2>2. Between(n)' /\ Nfirst(fi)' = Nfirst(fi)
    BY <1>1, <2>1, KeptInPass2 DEF Between, Nfirst
  <2> QED
    BY <1>1, <1>4, <2>1, <2>2, LoadsStay DEF Replays, Between
<1>5. CASE Nfirst(fi) < 0
  <2>1. pc' = "p2seg" /\ loads' = Append(loads, <<fi, 0>>) /\ UNCHANGED fi
    <3>1. Posndx < 0 /\ ~(Posndx = 0) /\ ~(Posndx > 0)
      BY <1>1, <1>2, <1>5
    <3>2. P2Load(File.mods[1]) /\ loads' = Append(loads, <<fi, 0>>) /\ UNCHANGED <<fi, pi>>
      BY <3>1 DEF P2Open
    <3> QED
      BY <3>2 DEF P2Load
  <2>2. n + 1 \in Numbers /\ FileNo(n + 1) = fi
    BY <1>1, <1>2, <1>5, FirstOfFile
  <2>3. MemberNo(n + 1) = 0
    BY <1>2, <1>5, <2>2 DEF Kept, Archived
  <2> QED
    BY <1>1, <1>2, <1>5, <2>1, <2>2, <2>3, ReplayLoads
<1> QED
  BY <1>2, <1>3, <1>4, <1>5

LEMMA ReadReplays ==
  ASSUME Shape, NEW px, Kept(px), Finished(px), Loads, Replays(px), P2Read,
         UNCHANGED <<mods, filtab, postab>>
  PROVE  Loads' /\ Replays(px)'
<1> PICK n \in Nat : n = Len(loads)
  BY DEF Loads
<1>1. /\ pc = "p2read" /\ fi <= Len(filtab) /\ n <= Len(mods) /\ Nfirst(fi) > 0
      /\ Behind(px, n) \/ (Between(n) /\ pi = Nfirst(fi))
  BY DEF P2Read, Replays, Loads
<1>2. CASE n + 1 \in Numbers /\ FileNo(n + 1) = fi
  <2>1. /\ pi = px[n + 1] /\ MemberNo(n + 1) \in 1 .. Len(File.mods)
        /\ PosAt(pi) = File.at[MemberNo(n + 1)] /\ PosAt(pi) > 0
    BY <1>1, <1>2, NextPosition
  <2>2. PosAt(pi) # 0
    BY <2>1
  <2>3. /\ pi' = pi + 1 /\ UNCHANGED fi
        /\ \E i \in 1 .. Len(File.mods) :
             File.at[i] = PosAt(pi) /\ loads' = Append(loads, <<fi, i>>) /\ pc' = "p2seg"
    BY <2>1, <2>2 DEF P2Read, P2Load
  <2>4. PICK i \in 1 .. Len(File.mods) :
          File.at[i] = PosAt(pi) /\ loads' = Append(loads, <<fi, i>>) /\ pc' = "p2seg"
    BY <2>3
  <2>5. i = MemberNo(n + 1)
    <3>1. fi \in 1 .. Len(filtab) /\ File = FileAt(fi) /\ FileAt(fi).kind = "lib"
      BY <1>1, ModuleNumbers DEF Shape, File, FileAt, Finished
    <3>2. MemberNo(n + 1) \in 1 .. Len(File.at) /\ i \in 1 .. Len(File.at)
      BY <2>1, <2>4, <3>1, FileNumbers
    <3>3. \A a, b \in 1 .. Len(File.at) : File.at[a] = File.at[b] => a = b
      BY <3>1, FileNumbers
    <3> QED
      BY <2>1, <2>4, <3>2, <3>3
  <2> QED
    BY <1>1, <1>2, <2>1, <2>3, <2>4, <2>5, ReplayLoads
<1>3. CASE ~(n + 1 \in Numbers /\ FileNo(n + 1) = fi)
  <2>1. PosAt(pi) = 0 /\ \A m \in Numbers : m <= n <=> FileNo(m) < fi + 1
    BY <1>1, <1>3, NextPosition
  <2>2. pc' = "p2open" /\ fi' = fi + 1 /\ UNCHANGED loads
    BY <2>1 DEF P2Read
  <2>3. Between(n)'
    BY <2>1, <2>2, KeptInPass2 DEF Between
  <2> QED
    BY <2>2, <2>3, LoadsStay DEF Replays, Between
<1> QED
  BY <1>2, <1>3

LEMMA LoadedReplays ==
  ASSUME Shape, NEW px, Kept(px), Finished(px), Loads, Replays(px), P2Loaded,
         UNCHANGED <<mods, filtab, postab>>
  PROVE  Loads' /\ Replays(px)'
<1> PICK n \in Nat : n = Len(loads)
  BY DEF Loads
<1>1. /\ pc = "p2rel" /\ fi <= Len(filtab) /\ n <= Len(mods) /\ Behind(px, n)
      /\ Posndx = Nfirst(fi) /\ UNCHANGED <<loads, pi>>
  BY DEF P2Loaded, Replays, Loads, Posndx, Nfirst
<1>2. /\ Len(mods) \in Nat /\ fi \in Nat /\ fi \in 1 .. Len(filtab) /\ Nfirst(fi) \in Int
      /\ \A m \in Numbers : FileNo(m) \in Nat
  BY <1>1, ModuleNumbers, FileNumbers DEF Shape
<1>3. n \in Numbers /\ FileNo(n) = fi
  BY <1>1, <1>2 DEF Behind, Numbers
<1>4. CASE Nfirst(fi) < 0
  <2>1. pc' = "p2open" /\ fi' = fi + 1
    BY <1>1, <1>4 DEF P2Loaded
  <2>2. \A m \in Numbers : FileNo(m) = fi => m = n
    BY <1>2, <1>3, <1>4 DEF Kept, Archived
  <2>3. n + 1 \in Numbers => FileNo(n + 1) > fi
    <3>1. SUFFICES ASSUME n + 1 \in Numbers PROVE FileNo(n + 1) > fi
      OBVIOUS
    <3>2. FileNo(n) <= FileNo(n + 1) /\ FileNo(n + 1) # fi
      BY <1>3, <2>2, <3>1 DEF Kept
    <3> QED
      BY <1>2, <1>3, <3>1, <3>2
  <2>4. \A m \in Numbers : m <= n <=> FileNo(m) < fi + 1
    BY <1>1, <1>2, <1>3, <2>3, FileDone
  <2>5. Between(n)'
    BY <2>1, <2>4, KeptInPass2 DEF Between
  <2> QED
    BY <1>1, <2>1, <2>5, LoadsStay DEF Replays, Between
<1>5. CASE ~(Nfirst(fi) < 0)
  <2>1. pc' = "p2read" /\ UNCHANGED fi
    BY <1>1, <1>5 DEF P2Loaded
  <2>2. Nfirst(fi) > 0
    BY <1>2, <1>3, <1>5 DEF Kept, Archived
  <2>3. Behind(px, n)' /\ Nfirst(fi)' > 0
    BY <1>1, <2>1, <2>2, KeptInPass2 DEF Behind, Nfirst
  <2> QED
    BY <1>1, <2>1, <2>3, LoadsStay DEF Replays, Behind
<1> QED
  BY <1>4, <1>5

LEMMA FinaleReplays ==
  ASSUME Shape, NEW px, Kept(px), Finished(px), Loads, Replays(px), Finale,
         UNCHANGED <<mods, filtab, postab>>
  PROVE  Loads' /\ Replays(px)'
<1>1. /\ pc = "p2open" /\ fi > Len(filtab) /\ Between(Len(loads)) /\ UNCHANGED loads
      /\ pc' \in {"done", "failed"}
  BY DEF Finale, Replays
<1>2. Len(loads) \in Nat /\ Len(loads) <= Len(mods) /\ Len(mods) \in Nat
  BY ModuleNumbers DEF Loads
<1>3. Len(loads) = Len(mods)
  <2>1. SUFFICES ASSUME Len(loads) < Len(mods) PROVE FALSE
    BY <1>2
  <2>2. Len(mods) \in Numbers
    BY <1>2, <2>1 DEF Numbers
  <2>3. FileNo(Len(mods)) < fi
    BY <1>1, <2>2, ModuleNumbers DEF Shape
  <2>4. Len(mods) <= Len(loads)
    BY <1>1, <2>2, <2>3 DEF Between
  <2> QED
    BY <1>2, <2>1, <2>4
<1> QED
  BY <1>1, <1>3, LoadsStay DEF Replays

(* Every step of pass 2 keeps to the order of pass 1.                      *)
LEMMA ReplayStep ==
  ASSUME Shape, ReplayInv, InPass2, Pass2 \/ UNCHANGED vars
  PROVE  Shape' /\ ReplayInv' /\ InPass2'
<1>0. UNCHANGED <<mods, filtab, postab>>
  BY DEF Pass2, P2Open, P2Read, P2Segment, P2Segments, P2Rel, P2Loaded, Finale, P2Frame,
         vars, vars1, optvars, modvars
<1>1. fi' \in Nat \ {0}
  <2>1. fi \in Nat \ {0}
    BY DEF Shape
  <2>2. fi' = fi \/ fi' = fi + 1
    BY OpenMoves DEF Pass2, P2Read, P2Segment, P2Segments, P2Rel, P2Loaded, Finale, vars, vars1
  <2> QED
    BY <2>1, <2>2
<1>2. Shape'
  BY <1>0, <1>1 DEF Shape
<1>3. InPass2'
  BY OpenMoves DEF InPass2, Pass2, P2Load, P2Read, P2Segment, P2Segments, P2Rel, P2Loaded,
                   Finale, vars, vars1
<1>4. ASSUME ArchivesEnded' PROVE \E px : (Kept(px) /\ Finished(px) /\ Loads /\ Replays(px))'
  <2>1. ArchivesEnded
    BY <1>0, <1>4 DEF ArchivesEnded, PosAt
  <2>2. PICK px : Kept(px) /\ Finished(px) /\ Loads /\ Replays(px)
    BY <2>1 DEF ReplayInv
  <2>3. Kept(px)' /\ Finished(px)'
    BY <1>0, <2>2, KeptInPass2
  <2>4. CASE P2Open
    BY <1>0, <2>2, <2>3, <2>4, OpenReplays
  <2>5. CASE P2Read
    BY <1>0, <2>2, <2>3, <2>5, ReadReplays
  <2>6. CASE P2Loaded
    BY <1>0, <2>2, <2>3, <2>6, LoadedReplays
  <2>7. CASE Finale
    BY <1>0, <2>2, <2>3, <2>7, FinaleReplays
  <2>8. CASE P2Segment \/ P2Segments \/ P2Rel \/ UNCHANGED vars
    <3>1. /\ UNCHANGED <<loads, fi, pi>>
          /\ pc' = pc \/ (pc \in {"p2seg", "p2rel"} /\ pc' \in {"p2seg", "p2rel"})
      BY <2>8 DEF P2Segment, P2Segments, P2Rel, vars, vars1, p2vars
    <3>2. \A n : /\ Between(n)' <=> Between(n)
                 /\ Behind(px, n)' <=> Behind(px, n)
      BY <1>0, <3>1 DEF Between, Behind, Numbers, FileNo, Nfirst
    <3>3. Replays(px)'
      BY <1>0, <2>2, <3>1, <3>2 DEF Replays, Nfirst
    <3> QED
      BY <1>0, <2>2, <2>3, <3>1, <3>3, LoadsStay
  <2> QED
    BY <2>4, <2>5, <2>6, <2>7, <2>8 DEF Pass2
<1> QED
  BY <1>2, <1>3, <1>4 DEF ReplayInv

-----------------------------------------------------------------------------
(* The whole link.                                                         *)
Fresh == fi = 1 /\ postab = <<>> /\ \A f \in 1 .. Len(filtab) : Nfirst(f) = 0
InPass1 == pc \in Runs1 \cup {"pass0", "interlude"}
LinkInv ==
  /\ InPass1 => /\ IInv /\ SymapInv /\ OnceInv /\ loads = <<>> /\ Untouched
                /\ IF pc = "pass0" THEN Fresh ELSE Remembers
  /\ InPass2 => Shape /\ ReplayInv
  /\ pc = "fatal" => loads = <<>>
  /\ InPass1 \/ InPass2 \/ pc = "fatal"

LEMMA InitLink == Init => LinkInv
<1> SUFFICES ASSUME Init PROVE LinkInv
  OBVIOUS
<1>1. Init1 /\ pc = "pass0" /\ loads = <<>> /\ filtab = <<>> /\ fi = 1 /\ postab = <<>>
  BY DEF Init, Init1
<1>2. SymapInv /\ IInv
  BY <1>1, SymapInit, InitIInv
<1>3. OnceInv
  <2>1. modno = 0
    BY <1>1 DEF Init1, modno
  <2> QED
    BY <1>1, <2>1 DEF OnceInv, MembersLoadedOnce, AllSettled, OrderInv
<1>4. Fresh /\ Untouched
  BY <1>1 DEF Fresh, Untouched
<1> QED
  BY <1>1, <1>2, <1>3, <1>4 DEF LinkInv, InPass1, InPass2, Runs1

(* The command line names the files; none is loaded from yet.              *)
LEMMA FreshStep ==
  ASSUME IInv, SymapInv, SymapInv', Fresh, pc = "pass0", Pass0, pc' # "fatal"
  PROVE  Fresh' /\ Untouched' /\ (pc' # "pass0" => Remembers')
<1>1. fi' = 1 /\ postab' = <<>> /\ pc' \in {"pass0", "open"}
  BY DEF Pass0, OptFlag, OptStack, OptTypes, OptFile, OptUndef, OptDescr, OptNamed, EndPass0,
         Option, Fresh, Fatal
<1>2. filtab \in Seq([file : DOMAIN Content, posndx : Int])
  BY DEF IInv, TypeOK1, OptionType
<1>3. UNCHANGED filtab \/ \E e : e.posndx = 0 /\ filtab' = Append(filtab, e) /\ pc' = "pass0"
  <2>1. CASE OptFile
    <3> DEFINE e == [file |-> cmd[k].file, posndx |-> 0]
    <3>1. e.posndx = 0 /\ filtab' = Append(filtab, e) /\ pc' = pc
      BY <2>1 DEF OptFile, Fatal
    <3> QED
      BY <3>1
  <2> QED
    BY <2>1 DEF Pass0, OptFlag, OptStack, OptTypes, OptUndef, OptDescr, OptNamed, EndPass0,
         optvars
<1>4. \A f \in 1 .. Len(filtab') : filtab'[f].posndx = 0
  <2>1. \A f \in 1 .. Len(filtab) : filtab[f].posndx = 0
    BY DEF Fresh, Nfirst
  <2>2. ASSUME NEW e, e.posndx = 0, filtab' = Append(filtab, e)
        PROVE  \A f \in 1 .. Len(filtab') : filtab'[f].posndx = 0
    <3>1. Len(filtab) \in Nat /\ Len(filtab') = Len(filtab) + 1
      BY <1>2, <2>2
    <3>2. ASSUME NEW f \in 1 .. Len(filtab')
          PROVE  filtab'[f] = IF f = Len(filtab) + 1 THEN e ELSE filtab[f]
      BY <1>2, <2>2, <3>1
    <3>3. \A f \in 1 .. Len(filtab') : f \in 1 .. Len(filtab) \/ f = Len(filtab) + 1
      BY <3>1
    <3> QED
      BY <2>1, <2>2, <3>2, <3>3
  <2> QED
    BY <1>3, <2>1, <2>2
<1>5. Fresh' /\ Untouched'
  BY <1>1, <1>4 DEF Fresh, Untouched, Nfirst
<1>6. ASSUME pc' # "pass0" PROVE Remembers'
  <2>1. pc' = "open" /\ UNCHANGED filtab /\ mods' = <<>>
    <3>1. pc' = "open" /\ UNCHANGED filtab
      BY <1>1, <1>3, <1>6
    <3>2. mods = <<>> /\ UNCHANGED mods
      BY DEF SymapInv, LoadInv, Pass0, OptFlag, OptStack, OptTypes, OptFile, OptUndef,
             OptDescr, OptNamed, EndPass0, modvars
    <3> QED
      BY <3>1, <3>2
  <2>2. Numbers' = {}
    BY <2>1 DEF Numbers
  <2>3. Kept(<<>>)'
    BY <2>1, <2>2 DEF Kept
  <2>4. Scanned(<<>>)'
    BY <1>4, <2>1, <2>2 DEF Scanned, Nfirst
  <2> QED
    BY <2>3, <2>4 DEF Remembers
<1> QED
  BY <1>5, <1>6

LEMMA LinkStep == LinkInv /\ [Next]_vars => LinkInv'
<1> SUFFICES ASSUME LinkInv, [Next]_vars PROVE LinkInv'
  OBVIOUS
<1>1. CASE InPass2
  <2>1. ~InPass1 /\ pc # "fatal" /\ Shape /\ ReplayInv
    BY <1>1 DEF LinkInv, InPass1, InPass2, Runs1
  <2>2. Pass2 \/ UNCHANGED vars
    BY <2>1, StepFrom DEF Next, Step, Ended, Interlude, InPass1, Runs1
  <2>3. Shape' /\ ReplayInv' /\ InPass2'
    BY <1>1, <2>1, <2>2, ReplayStep
  <2> QED
    BY <2>3 DEF LinkInv, InPass1, InPass2, Runs1
<1>2. CASE pc = "fatal"
  <2>1. UNCHANGED vars
    BY <1>2, StepFrom DEF Next, Step, Ended, Interlude, Runs1, Pass2, P2Open, P2Read, P2Segment,
           P2Segments, P2Rel, P2Loaded, Finale
  <2>2. UNCHANGED <<pc, loads>>
    BY <2>1 DEF vars, vars1, p2vars
  <2> QED
    BY <1>2, <2>2 DEF LinkInv, InPass1, InPass2, Runs1
<1>3. CASE InPass1
  <2>1. /\ IInv /\ SymapInv /\ OnceInv /\ loads = <<>> /\ Untouched
        /\ IF pc = "pass0" THEN Fresh ELSE Remembers
    BY <1>3 DEF LinkInv
  <2>2. (Step1 /\ UNCHANGED p2vars) \/ Interlude \/ UNCHANGED vars
    BY <1>3 DEF Next, Step, Ended, InPass1, Runs1, Pass2, P2Open, P2Read, P2Segment,
           P2Segments, P2Rel, P2Loaded, Finale
  <2>3. CASE Interlude
    <3>1. loads' = <<>>
      BY <2>1, <2>3 DEF Interlude
    <3>2. CASE pc' = "fatal"
      BY <3>1, <3>2 DEF LinkInv, InPass1, InPass2, Runs1
    <3>3. CASE pc' # "fatal"
      <4>1. pc = "interlude"
        BY <2>3 DEF Interlude
      <4>2. pc' = "p2open" /\ Shape' /\ ReplayInv'
        BY <2>1, <2>3, <3>3, <4>1, ReplayStarts
      <4> QED
        BY <4>2 DEF LinkInv, InPass1, InPass2, Runs1
    <3> QED
      BY <3>2, <3>3
  <2>4. CASE (Step1 /\ UNCHANGED p2vars) \/ UNCHANGED vars
    <3>1. [Next1]_vars1 /\ loads' = <<>>
      BY <2>1, <2>4 DEF Next1, vars, p2vars
    <3>2. IInv' /\ SymapInv'
      BY <2>1, <3>1, NextIInv, SymapStep
    <3>3. OnceInv'
      BY <2>1, <3>1, <3>2, OnceStep
    <3>4. pc' \in Runs1 \cup {"pass0", "interlude", "fatal"}
      BY <3>2 DEF IInv, TypeOK1, ControlType, Runs1
    <3>5. CASE pc' = "fatal"
      BY <3>1, <3>5 DEF LinkInv, InPass1, InPass2, Runs1
    <3>6. ASSUME pc' # "fatal"
          PROVE  Untouched' /\ IF pc' = "pass0" THEN Fresh' ELSE Remembers'
      <4>1. CASE UNCHANGED vars
        <5>1. /\ pc' = pc /\ fi' = fi /\ mi' = mi /\ filtab' = filtab /\ mods' = mods
              /\ postab' = postab /\ errcnt' = errcnt
          BY <4>1 DEF vars, vars1, optvars, modvars
        <5>2. (Untouched' <=> Untouched) /\ (Fresh' <=> Fresh) /\ (ArchivesEnded' <=> ArchivesEnded)
          BY <5>1 DEF Untouched, Fresh, ArchivesEnded, PosAt, Nfirst
        <5>3. \A px : (Kept(px)' <=> Kept(px)) /\ (Scanned(px)' <=> Scanned(px))
          BY <5>1 DEF Kept, Scanned, Pending, FileNo, MemberNo, Archived, Nfirst, FileAt,
                 Numbers, LastOf, PosAt, File
        <5> QED
          BY <2>1, <5>1, <5>2, <5>3 DEF Remembers
      <4>2. CASE Step1 /\ pc = "pass0"
        <5>1. Pass0
          BY <4>2 DEF Step1, Pass1, OpenFails, OpenObject, SkipArchive, OpenArchive, ScanMember,
             EndScan, Reject, StartModule, DoSegment, EndSegments, SymSegment, SymDropped,
             SymReference, SymDefinition, SymNew, SymStep, EndSymbols, Loaded, EndFiles,
             SkipSymbol, AllocCommon, EndCommons, EndPass1
        <5> QED
          BY <2>1, <3>2, <3>6, <4>2, <5>1, FreshStep
      <4>3. CASE Step1 /\ pc # "pass0"
        <5>1. Untouched' /\ Remembers'
          BY <2>1, <3>6, <4>3, UntouchedStep, RemembersStep DEF SymapInv
        <5>2. pc' # "pass0"
          BY <4>3, Zenon DEF Step1, Pass0, Pass1, OpenFails, OpenObject, SkipArchive, OpenArchive,
             ScanMember, EndScan, Reject, StartModule, DoSegment, EndSegments, SymSegment,
             SymDropped, SymReference, SymDefinition, SymNew, SymStep, EndSymbols, Loaded,
             EndFiles, SkipSymbol, AllocCommon, EndCommons, EndPass1, OptFlag, OptStack,
             OptTypes, OptFile, OptUndef, OptDescr, OptNamed, EndPass0, Option, NextFile, Fatal
        <5> QED
          BY <5>1, <5>2
      <4> QED
        BY <2>4, <4>1, <4>2, <4>3
    <3>7. CASE pc' # "fatal"
      BY <3>1, <3>2, <3>3, <3>4, <3>6, <3>7 DEF LinkInv, InPass1, InPass2, Runs1
    <3> QED
      BY <3>5, <3>7
  <2> QED
    BY <2>2, <2>3, <2>4
<1> QED
  BY <1>1, <1>2, <1>3 DEF LinkInv

(* Pass 2 loads the modules of pass 1, in their order and all of them,     *)
(* whatever files a link has, unless an archive that was left without a    *)
(* terminator was followed by another that was loaded from                 *)
(* (ld8k.c p1entry() and p2read()).                                        *)
THEOREM ReplayCorrect == Spec => [](ArchivesEnded => Pass2Replays)
<1>1. LinkInv => (ArchivesEnded => Pass2Replays)
  <2> SUFFICES ASSUME LinkInv, ArchivesEnded PROVE Pass2Replays
    OBVIOUS
  <2>1. CASE loads = <<>> /\ ~InPass2
    BY <2>1 DEF Pass2Replays, IsPrefix, InPass2
  <2>2. CASE InPass2
    <3>1. PICK px : Kept(px) /\ Loads /\ Replays(px)
      BY <2>2 DEF LinkInv, ReplayInv
    <3>2. Shape
      BY <2>2 DEF LinkInv
    <3>3. /\ Len(loads) \in Nat /\ Len(loads) <= Len(mods) /\ Len(mods) \in Nat
          /\ \A m \in 1 .. Len(loads) : loads[m] = mods[m]
      BY <3>1, <3>2, ModuleNumbers DEF Loads
    <3>4. IsPrefix(loads, mods)
      BY <3>1, <3>2, <3>3 DEF Loads, Shape, IsPrefix
    <3>5. pc \in {"done", "failed"} => Len(loads) = Len(mods)
      BY <3>1 DEF Replays
    <3>6. Len(loads) = Len(mods) => loads = mods
      <4> DEFINE S == Nat \X Nat
                 T == (1 .. Len(filtab)) \X Nat
      <4>1. loads \in Seq(S) /\ mods \in Seq(T)
        BY <3>1, <3>2 DEF Loads, Shape
      <4> HIDE DEF S, T
      <4>2. /\ loads = [m \in 1 .. Len(loads) |-> loads[m]]
            /\ mods = [m \in 1 .. Len(mods) |-> mods[m]]
        BY <4>1
      <4> QED
        BY <3>3, <4>2
    <3> QED
      BY <3>4, <3>5, <3>6 DEF Pass2Replays
  <2> QED
    BY <2>1, <2>2 DEF LinkInv
<1>2. Init => LinkInv
  BY InitLink
<1>3. LinkInv /\ [Next]_vars => LinkInv'
  BY LinkStep
<1> QED
  BY <1>1, <1>2, <1>3, PTL DEF Spec
=============================================================================
