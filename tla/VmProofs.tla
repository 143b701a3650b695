------------------------------ MODULE VmProofs ------------------------------
(***************************************************************************)
(* Theorems about the paged storage of asz8k, for a pool of any size       *)
(* larger than KEEP: pointers stay good as long as they are used, and the  *)
(* file and the buffers together are a memory.                             *)
(***************************************************************************)
EXTENDS Vm, TLAPS

(* The buffer of a pointer still in use is among the first of the chain.   *)
Recent == \A i \in Uses : ptrs[i] /= NoPtr => \E j \in 1 .. i : vmhead[j] = ptrs[i].buf

(* A byte written is in the file or in a dirty buffer, and a clean buffer  *)
(* agrees with the file.                                                   *)
Dirty(a) == \E b \in Bufs : vmpool[b].blk = Blk(a) /\ vmpool[b].dir
Backed == \A a \in written : Blk(a) < limblk \/ Dirty(a)
Clean == \A a \in written : \A b \in Bufs :
           vmpool[b].blk = Blk(a) /\ ~vmpool[b].dir =>
             vmpool[b].mem[Off(a)] = disk[Blk(a)][Off(a)]

IInv == TypeOK /\ OneCopy /\ Recent /\ PointersGood /\ Backed /\ Clean

(* An address is a block and an offset, and is determined by them.         *)
LEMMA BlkOffType == ASSUME NEW a \in Adrs PROVE Blk(a) \in Blks /\ Off(a) \in Offs
BY PoolAssumption DEF Adrs, Blks, Offs, Blk, Off

LEMMA BlkOffUnique ==
  ASSUME NEW a \in Adrs, NEW c \in Adrs, Blk(a) = Blk(c), Off(a) = Off(c)
  PROVE  a = c
BY PoolAssumption DEF Adrs, Blk, Off

LEMMA InitIInv == Init => IInv
<1> SUFFICES ASSUME Init PROVE IInv
  OBVIOUS
<1> USE PoolAssumption DEF Init
<1>1. TypeOK
  <2>1. 0 \in 0 .. NBLK /\ 2 \in 2 .. NBLK * BSIZ
    <3>1. NBLK * BSIZ \in Int
      OBVIOUS
    <3> QED
      BY <3>1
  <2>2. vmpool \in [Bufs -> Buffer]
    <3>1. [o \in Offs |-> 0] \in [Offs -> Vals] /\ -1 \in -1 .. NBLK - 1
      OBVIOUS
    <3> QED
      BY <3>1 DEF Buffer
  <2>3. vmhead \in [Bufs -> Bufs] /\ disk \in [Blks -> [Offs -> Vals]]
    OBVIOUS
  <2>4. ptrs \in [Uses -> Pointer \cup {NoPtr}]
    OBVIOUS
  <2>5. written \subseteq Adrs
    OBVIOUS
  <2>6. /\ \A i, j \in Bufs : vmhead[i] = vmhead[j] => i = j
        /\ \A c \in Bufs : \E i \in Bufs : vmhead[i] = c
    OBVIOUS
  <2> QED
    BY <2>1, <2>2, <2>3, <2>4, <2>5, <2>6 DEF TypeOK
<1>2. OneCopy
  BY DEF OneCopy
<1>3. Recent /\ PointersGood
  BY DEF Recent, PointersGood, PointerGood
<1>4. Backed /\ Clean
  BY DEF Backed, Clean
<1> QED
  BY <1>1, <1>2, <1>3, <1>4 DEF IInv

(* Moving a buffer to the front moves no other back by more than one place.*)
LEMMA ToFrontChain ==
  ASSUME TypeOK, NEW p \in Bufs
  PROVE  /\ ToFront(p) \in [Bufs -> Bufs]
         /\ ToFront(p)[1] = vmhead[p]
         /\ \A i, j \in Bufs : ToFront(p)[i] = ToFront(p)[j] => i = j
         /\ \A b \in Bufs : \E i \in Bufs : ToFront(p)[i] = b
         /\ \A i \in Bufs : i < NBUF => \E j \in 1 .. i + 1 : ToFront(p)[j] = vmhead[i]
<1>0. /\ NBUF \in Nat /\ p \in 1 .. NBUF
      /\ vmhead \in [1 .. NBUF -> 1 .. NBUF]
      /\ \A i, j \in 1 .. NBUF : vmhead[i] = vmhead[j] => i = j
  BY PoolAssumption DEF TypeOK, Bufs
<1> DEFINE f == ToFront(p)
<1>1. /\ f[1] = vmhead[p]
      /\ \A i \in 2 .. p : f[i] = vmhead[i - 1]
      /\ \A i \in 1 .. NBUF : i > p => f[i] = vmhead[i]
  <2>1. \A i \in 1 .. NBUF : f[i] = IF i = 1 THEN vmhead[p]
                                  ELSE IF i <= p THEN vmhead[i - 1] ELSE vmhead[i]
    BY DEF ToFront, Bufs
  <2>2. 1 \in 1 .. NBUF /\ \A i \in 2 .. p : i \in 1 .. NBUF /\ i /= 1 /\ i <= p
    BY <1>0
  <2>3. \A i \in 1 .. NBUF : i > p => i /= 1 /\ ~(i <= p)
    BY <1>0
  <2> HIDE DEF f
  <2> QED
    BY <2>1, <2>2, <2>3
<1>2. f \in [1 .. NBUF -> 1 .. NBUF]
  <2>1. \A i \in 1 .. NBUF : (IF i = 1 THEN vmhead[p] ELSE IF i <= p THEN vmhead[i - 1]
                                ELSE vmhead[i]) \in 1 .. NBUF
    <3>1. \A n \in 1 .. NBUF : vmhead[n] \in 1 .. NBUF
      BY <1>0
    <3> SUFFICES ASSUME NEW i \in 1 .. NBUF
                 PROVE  (IF i = 1 THEN vmhead[p] ELSE IF i <= p THEN vmhead[i - 1]
                          ELSE vmhead[i]) \in 1 .. NBUF
      OBVIOUS
    <3>2. i /= 1 /\ i <= p => i - 1 \in 1 .. NBUF
      BY <1>0
    <3>3. vmhead[p] \in 1 .. NBUF /\ vmhead[i] \in 1 .. NBUF
      BY <1>0, <3>1
    <3>4. i /= 1 /\ i <= p => vmhead[i - 1] \in 1 .. NBUF
      BY <3>1, <3>2
    <3> QED
      BY <3>3, <3>4
  <2> QED
    BY <2>1 DEF ToFront, Bufs
<1>3. ASSUME NEW i \in 1 .. NBUF, NEW j \in 1 .. NBUF, f[i] = f[j]
      PROVE  i = j
  <2> DEFINE from(n) == IF n = 1 THEN p ELSE IF n <= p THEN n - 1 ELSE n
  <2>1. \A n \in 1 .. NBUF : from(n) \in 1 .. NBUF /\ f[n] = vmhead[from(n)]
    <3> SUFFICES ASSUME NEW n \in 1 .. NBUF
                 PROVE  from(n) \in 1 .. NBUF /\ f[n] = vmhead[from(n)]
      OBVIOUS
    <3> HIDE DEF f
    <3>1. CASE n = 1
      BY <1>0, <1>1, <3>1
    <3>2. CASE n /= 1 /\ n <= p
      <4>1. n \in 2 .. p /\ n - 1 \in 1 .. NBUF
        BY <1>0, <3>2
      <4> QED
        BY <1>1, <3>2, <4>1
    <3>3. CASE n /= 1 /\ ~(n <= p)
      <4>1. n > p
        BY <1>0, <3>3
      <4> QED
        BY <1>1, <3>3, <4>1
    <3> QED
      BY <3>1, <3>2, <3>3
  <2>2. from(i) = from(j)
    BY <1>0, <1>3, <2>1
  <2> QED
    BY <1>0, <2>2
<1> HIDE DEF f
<1>4. ASSUME NEW i \in 1 .. NBUF
      PROVE  \E j \in 1 .. NBUF : f[j] = vmhead[i] /\ (i < NBUF => j \in 1 .. i + 1)
  <2>1. CASE i < p
    <3>1. i + 1 \in 2 .. p /\ i + 1 \in 1 .. NBUF /\ i + 1 \in 1 .. i + 1 /\ (i + 1) - 1 = i
      BY <1>0, <2>1
    <3>2. f[i + 1] = vmhead[(i + 1) - 1]
      BY <1>1, <3>1
    <3> QED
      BY <3>1, <3>2
  <2>2. CASE i = p
    <3>1. 1 \in 1 .. NBUF /\ 1 \in 1 .. i + 1
      BY <1>0
    <3> QED
      BY <1>1, <2>2, <3>1
  <2>3. CASE i > p
    <3>1. i \in 1 .. i + 1
      OBVIOUS
    <3> QED
      BY <1>1, <2>3, <3>1
  <2> QED
    BY <1>0, <2>1, <2>2, <2>3
<1>5. \A b \in 1 .. NBUF : \E i \in 1 .. NBUF : f[i] = b
  BY <1>4 DEF TypeOK, Bufs
<1>6. ToFront(p) = f /\ Bufs = 1 .. NBUF
  BY DEF f, Bufs
<1> QED
  BY <1>1, <1>2, <1>3, <1>4, <1>5, <1>6

(* The buffer that getbuf() takes is the only one that may hold the block, *)
(* and it held another one only if it was the last of the chain.           *)
LEMMA Taken ==
  ASSUME TypeOK, OneCopy, NEW k \in Blks, NEW p \in Bufs, Stops(p, k)
  PROVE  /\ \A c \in Bufs : c /= vmhead[p] => vmpool[c].blk /= k
         /\ ~Holds(p, k) => p = NBUF
<1>1. k /= -1
  BY DEF Blks
<1>2. CASE Holds(p, k)
  BY <1>1, <1>2 DEF OneCopy, Holds, TypeOK
<1>3. CASE ~Holds(p, k)
  <2>1. p = NBUF /\ \A q \in 1 .. NBUF - 1 : ~Holds(q, k)
    BY <1>3 DEF Stops
  <2>2. \A q \in Bufs : q /= NBUF => q \in 1 .. NBUF - 1
    BY PoolAssumption DEF Bufs
  <2> QED
    BY <2>1, <2>2 DEF Holds, TypeOK
<1> QED
  BY <1>2, <1>3

LEMMA FetchType ==
  ASSUME IInv, NEW a \in Adrs, NEW w \in BOOLEAN, Fetch(a, w)
  PROVE  TypeOK'
<1> DEFINE k == Blk(a)
<1>1. k \in Blks
  BY BlkOffType
<1>2. PICK p \in Bufs :
        /\ Stops(p, k) /\ Getbuf(k, p, w)
        /\ ptrs' = [i \in Uses |-> IF i = 1 THEN [adr |-> a, buf |-> vmhead[p], write |-> w]
                                   ELSE ptrs[i - 1]]
  BY DEF Fetch
<1> HIDE DEF k
<1> DEFINE b == vmhead[p]
<1>3. TypeOK /\ b \in Bufs /\ vmpool[b] \in Buffer
  BY DEF IInv, TypeOK
<1>4. vmpool[b].dir => vmpool[b].blk \in -1 .. NBLK - 1 /\ vmpool[b].mem \in [Offs -> Vals]
  BY <1>3 DEF Buffer
<1>5. disk' \in [Blks -> [Offs -> Vals]]
  BY <1>2, <1>3, <1>4 DEF Getbuf, WriteOut, TypeOK, Buffer
<1>6. limblk' \in 0 .. NBLK
  <2>1. vmpool[b].blk \in -1 .. NBLK - 1 /\ limblk \in 0 .. NBLK /\ NBLK \in Nat
    BY <1>3, PoolAssumption DEF Buffer, TypeOK
  <2>2. limblk' = limblk \/ (limblk' = vmpool[b].blk + 1 /\ vmpool[b].blk >= limblk)
    BY <1>2 DEF Getbuf
  <2> QED
    BY <2>1, <2>2
<1>7. vmpool' \in [Bufs -> Buffer]
  <2>1. k \in -1 .. NBLK - 1
    BY <1>1, PoolAssumption DEF Blks
  <2>2. PICK d \in BOOLEAN, m \in [Offs -> Vals] :
          vmpool' = [vmpool EXCEPT ![b] = [blk |-> k, dir |-> d, mem |-> m]]
    <3>1. PICK d, m :
            /\ vmpool' = [vmpool EXCEPT ![b] = [blk |-> k, dir |-> d, mem |-> m]]
            /\ d = (w \/ (Holds(p, k) /\ vmpool[b].dir))
            /\ m = IF ~Holds(p, k) /\ k < limblk' THEN disk'[k] ELSE vmpool[b].mem
      BY <1>2, <1>3 DEF Getbuf, TypeOK
    <3>2. m \in [Offs -> Vals]
      BY <1>1, <1>3, <1>5, <3>1 DEF Buffer
    <3>3. d \in BOOLEAN
      BY <3>1
    <3> QED
      BY <3>1, <3>2, <3>3
  <2>3. [blk |-> k, dir |-> d, mem |-> m] \in Buffer
    BY <2>1, <2>2 DEF Buffer
  <2> QED
    BY <1>3, <2>2, <2>3 DEF TypeOK
<1>8. ptrs' \in [Uses -> Pointer \cup {NoPtr}]
  <2>1. \A i \in Uses : i /= 1 => i - 1 \in Uses
    BY PoolAssumption DEF Uses
  <2>2. [adr |-> a, buf |-> b, write |-> w] \in Pointer
    BY <1>3 DEF Pointer
  <2> QED
    BY <1>2, <1>3, <2>1, <2>2 DEF TypeOK
<1>9. /\ vmhead' \in [Bufs -> Bufs]
      /\ \A i, j \in Bufs : vmhead'[i] = vmhead'[j] => i = j
      /\ \A c \in Bufs : \E i \in Bufs : vmhead'[i] = c
  <2>1. vmhead' = ToFront(p)
    BY <1>2 DEF Getbuf
  <2>2. /\ ToFront(p) \in [Bufs -> Bufs]
        /\ \A i, j \in Bufs : ToFront(p)[i] = ToFront(p)[j] => i = j
        /\ \A c \in Bufs : \E i \in Bufs : ToFront(p)[i] = c
    BY <1>3, ToFrontChain
  <2> QED
    BY <2>1, <2>2
<1> QED
  BY <1>3, <1>5, <1>6, <1>7, <1>8, <1>9 DEF TypeOK, Fetch

LEMMA FetchInv ==
  ASSUME IInv, NEW a \in Adrs, NEW w \in BOOLEAN, Fetch(a, w)
  PROVE  IInv'
<1> DEFINE k == Blk(a)
<1>1. k \in Blks /\ k \in Int /\ k /= -1
  BY BlkOffType, PoolAssumption DEF Blks
<1>2. PICK p \in Bufs :
        /\ Stops(p, k) /\ Getbuf(k, p, w)
        /\ ptrs' = [i \in Uses |-> IF i = 1 THEN [adr |-> a, buf |-> vmhead[p], write |-> w]
                                   ELSE ptrs[i - 1]]
  BY DEF Fetch
<1> DEFINE b == vmhead[p]
<1>3. TypeOK /\ OneCopy /\ b \in Bufs /\ vmpool[b] \in Buffer /\ TypeOK' /\ vmhead' = ToFront(p)
  <2>1. TypeOK /\ OneCopy /\ b \in Bufs /\ vmpool[b] \in Buffer
    BY DEF IInv, TypeOK
  <2>2. TypeOK'
    BY FetchType
  <2>3. vmhead' = ToFront(p)
    BY <1>2 DEF Getbuf
  <2> QED
    BY <2>1, <2>2, <2>3
<1>4. /\ \A c \in Bufs : c /= b => vmpool[c].blk /= k
      /\ ~Holds(p, k) => p = NBUF
  BY <1>1, <1>2, <1>3, Taken
<1>5. /\ \A c \in Bufs : c /= b => vmpool'[c] = vmpool[c]
      /\ vmpool'[b].blk = k
      /\ vmpool'[b].dir <=> w \/ (Holds(p, k) /\ vmpool[b].dir)
      /\ vmpool'[b].mem = IF ~Holds(p, k) /\ k < limblk' THEN disk'[k] ELSE vmpool[b].mem
  BY <1>2, <1>3 DEF Getbuf, TypeOK
<1>6. written' = written /\ written \subseteq Adrs
  BY <1>3 DEF Fetch, TypeOK
<1>7. OneCopy'
  BY <1>3, <1>4, <1>5 DEF OneCopy
<1>8. Holds(p, k) <=> vmpool[b].blk = k
  BY DEF Holds
<1> HIDE DEF k, b
(* A pointer kept was returned at most KEEP fetches ago: its buffer is not *)
(* the last of the chain, which alone may be taken for another block.      *)
<1>9. ASSUME NEW i \in Uses, i /= 1, ptrs[i - 1] /= NoPtr
      PROVE  /\ \E j \in 1 .. i : vmhead'[j] = ptrs[i - 1].buf
             /\ ptrs[i - 1].buf = b => vmpool[b].blk = k
  <2>1. i - 1 \in Uses /\ i - 1 < NBUF
    BY <1>9, PoolAssumption DEF Uses
  <2>2. PICK j \in 1 .. i - 1 : vmhead[j] = ptrs[i - 1].buf
    BY <1>9, <2>1 DEF IInv, Recent
  <2>3. j \in Bufs /\ j < NBUF
    BY <2>1, PoolAssumption DEF Bufs, Uses
  <2>4. PICK n \in 1 .. j + 1 : vmhead'[n] = vmhead[j]
    <3>1. \A q \in Bufs : q < NBUF => \E n \in 1 .. q + 1 : ToFront(p)[n] = vmhead[q]
      BY <1>3, ToFrontChain
    <3> QED
      BY <1>3, <2>3, <3>1
  <2>5. n \in 1 .. i
    BY <2>1 DEF Uses
  <2>6. vmhead[j] = b => j = p
    BY <1>3, <2>3 DEF TypeOK, b
  <2> QED
    BY <1>4, <1>8, <2>2, <2>3, <2>4, <2>5, <2>6
<1>10. Recent'
  <2> SUFFICES ASSUME NEW i \in Uses, ptrs'[i] /= NoPtr
               PROVE  \E j \in 1 .. i : vmhead'[j] = ptrs'[i].buf
    BY DEF Recent
  <2>1. CASE i = 1
    <3>1. vmhead'[1] = b
      BY <1>3, ToFrontChain DEF b
    <3> QED
      BY <1>2, <2>1, <3>1 DEF b
  <2>2. CASE i /= 1
    BY <1>2, <1>9, <2>2
  <2> QED
    BY <2>1, <2>2
<1>11. PointersGood'
  <2> SUFFICES ASSUME NEW i \in Uses, ptrs'[i] /= NoPtr
               PROVE  /\ vmpool'[ptrs'[i].buf].blk = Blk(ptrs'[i].adr)
                      /\ ptrs'[i].write => vmpool'[ptrs'[i].buf].dir
    BY DEF PointersGood, PointerGood
  <2>1. CASE i = 1
    BY <1>2, <1>5, <2>1 DEF b, k
  <2>2. CASE i /= 1
    <3>1. i - 1 \in Uses
      BY <2>2, PoolAssumption DEF Uses
    <3>2. ptrs'[i] = ptrs[i - 1]
      BY <1>2, <2>2
    <3>3. PointerGood(ptrs[i - 1]) /\ ptrs[i - 1] \in Pointer
      BY <1>3, <3>1, <3>2 DEF IInv, PointersGood, TypeOK
    <3>4. CASE ptrs[i - 1].buf /= b
      BY <1>5, <3>2, <3>3, <3>4 DEF PointerGood, Pointer
    <3>5. CASE ptrs[i - 1].buf = b
      BY <1>5, <1>8, <1>9, <2>2, <3>2, <3>3, <3>5 DEF PointerGood
    <3> QED
      BY <3>4, <3>5
  <2> QED
    BY <2>1, <2>2
<1> DEFINE out == ~Holds(p, k) /\ vmpool[b].dir
<1>12. /\ disk' = IF out THEN [disk EXCEPT ![vmpool[b].blk] = vmpool[b].mem] ELSE disk
       /\ limblk' = IF out /\ vmpool[b].blk >= limblk THEN vmpool[b].blk + 1 ELSE limblk
  BY <1>2 DEF Getbuf, WriteOut, b
<1>13. limblk' >= limblk /\ (out => vmpool[b].blk < limblk')
  <2>1. limblk \in Int /\ vmpool[b].blk \in Int
    BY <1>3, PoolAssumption DEF TypeOK, Buffer
  <2> QED
    BY <1>12, <2>1
<1>14. Backed'
  <2> SUFFICES ASSUME NEW c \in written
               PROVE  \/ Blk(c) < limblk'
                      \/ \E d \in Bufs : vmpool'[d].blk = Blk(c) /\ vmpool'[d].dir
    BY <1>6 DEF Backed, Dirty
  <2>1. Blk(c) \in Int /\ limblk \in Int /\ limblk' \in Int
    BY <1>3, <1>6, BlkOffType, PoolAssumption DEF TypeOK, Blks
  <2>2. CASE Blk(c) < limblk
    BY <1>13, <2>1, <2>2
  <2>3. ASSUME NEW d \in Bufs, vmpool[d].blk = Blk(c), vmpool[d].dir
        PROVE  \/ Blk(c) < limblk'
               \/ \E e \in Bufs : vmpool'[e].blk = Blk(c) /\ vmpool'[e].dir
    <3>1. CASE d /= b
      BY <1>5, <2>3, <3>1
    <3>2. CASE d = b /\ Holds(p, k)
      BY <1>3, <1>5, <1>8, <2>3, <3>2
    <3>3. CASE d = b /\ ~Holds(p, k)
      BY <1>13, <2>3, <3>3
    <3> QED
      BY <3>1, <3>2, <3>3
  <2> QED
    BY <2>2, <2>3 DEF IInv, Backed, Dirty
<1>15. Clean'
  <2> SUFFICES ASSUME NEW c \in written, NEW d \in Bufs,
                      vmpool'[d].blk = Blk(c), ~vmpool'[d].dir
               PROVE  vmpool'[d].mem[Off(c)] = disk'[Blk(c)][Off(c)]
    BY <1>6 DEF Clean
  <2>1. Blk(c) \in Blks /\ c \in Adrs
    BY <1>6, BlkOffType
  <2>2. CASE d /= b
    <3>1. vmpool[d].mem[Off(c)] = disk[Blk(c)][Off(c)] /\ vmpool'[d] = vmpool[d]
      BY <1>5, <2>2 DEF IInv, Clean
    <3>2. vmpool[b].blk /= Blk(c)
      BY <1>3, <1>5, <2>1, <2>2, PoolAssumption DEF OneCopy, Blks
    <3>3. disk'[Blk(c)] = disk[Blk(c)]
      BY <1>3, <1>12, <2>1, <3>2 DEF TypeOK
    <3> QED
      BY <3>1, <3>3
  <2>3. CASE d = b /\ Holds(p, k)
    BY <1>5, <1>8, <1>12, <2>3 DEF IInv, Clean
  <2>4. CASE d = b /\ ~Holds(p, k)
    <3>1. Blk(c) = k
      BY <1>5, <2>4
    <3>2. ~Dirty(c)
      BY <1>4, <1>8, <2>4, <3>1 DEF Dirty
    <3>3. k < limblk
      BY <3>1, <3>2 DEF IInv, Backed
    <3>4. k < limblk'
      BY <1>1, <1>3, <1>13, <3>3, PoolAssumption DEF TypeOK, k
    <3> QED
      BY <1>5, <2>4, <3>1, <3>4
  <2> QED
    BY <2>2, <2>3, <2>4
<1> QED
  BY <1>3, <1>7, <1>10, <1>11, <1>14, <1>15 DEF IInv

LEMMA StoreInv ==
  ASSUME IInv, Store PROVE IInv'
<1>1. PICK n \in Uses, v \in Vals :
        /\ ptrs[n].write
        /\ vmpool' = [vmpool EXCEPT ![ptrs[n].buf].mem[Off(ptrs[n].adr)] = v]
        /\ written' = written \cup {ptrs[n].adr}
  BY DEF Store
<1> DEFINE b == ptrs[n].buf
           x == ptrs[n].adr
<1>2. /\ TypeOK /\ ptrs[n] \in Pointer /\ ptrs[n] /= NoPtr
      /\ b \in Bufs /\ x \in Adrs /\ vmpool[b] \in Buffer
  BY <1>1 DEF IInv, TypeOK, Pointer, NoPtr
<1>3. Off(x) \in Offs
  BY <1>2, BlkOffType
<1>4. vmpool[b].blk = Blk(x) /\ vmpool[b].dir
  BY <1>1, <1>2 DEF IInv, PointersGood, PointerGood
<1>5. vmpool' = [vmpool EXCEPT ![b] = [vmpool[b] EXCEPT !.mem = [vmpool[b].mem EXCEPT ![Off(x)] = v]]]
  BY <1>1, <1>2 DEF TypeOK
<1> DEFINE new == [vmpool[b] EXCEPT !.mem = [vmpool[b].mem EXCEPT ![Off(x)] = v]]
<1>6. new \in Buffer /\ new.blk = vmpool[b].blk /\ new.dir
  BY <1>2, <1>3, <1>4 DEF Buffer
<1>7. \A c \in Bufs : vmpool'[c].blk = vmpool[c].blk /\ (vmpool'[c].dir <=> vmpool[c].dir)
  BY <1>2, <1>4, <1>5, <1>6 DEF TypeOK
<1>8. UNCHANGED <<vmhead, disk, limblk, virtop, ptrs>>
  BY DEF Store
<1> HIDE DEF b, x
<1>9. TypeOK'
  <2>1. vmpool' \in [Bufs -> Buffer]
    <3> HIDE DEF new
    <3> QED
      BY <1>2, <1>5, <1>6 DEF new, TypeOK
  <2>2. written' \subseteq Adrs
    BY <1>1, <1>2 DEF TypeOK, x
  <2> QED
    BY <1>2, <1>8, <2>1, <2>2 DEF TypeOK
<1>10. OneCopy' /\ Recent' /\ PointersGood'
  <2>1. OneCopy'
    BY <1>7 DEF IInv, OneCopy
  <2>2. Recent'
    BY <1>8 DEF IInv, Recent
  <2>3. PointersGood'
    BY <1>2, <1>7, <1>8 DEF IInv, PointersGood, PointerGood, TypeOK, Pointer
  <2> QED
    BY <2>1, <2>2, <2>3
<1>11. Backed'
  BY <1>1, <1>2, <1>4, <1>7, <1>8 DEF IInv, Backed, Dirty, x
<1>12. Clean'
  <2> SUFFICES ASSUME NEW c \in written', NEW d \in Bufs,
                      vmpool'[d].blk = Blk(c), ~vmpool'[d].dir
               PROVE  vmpool'[d].mem[Off(c)] = disk'[Blk(c)][Off(c)]
    BY DEF Clean
  <2>1. d /= b
    BY <1>4, <1>7
  <2>2. vmpool'[d] = vmpool[d] /\ vmpool[d].blk /= Blk(x)
    BY <1>2, <1>4, <1>5, <1>7, <2>1, BlkOffType, PoolAssumption DEF IInv, OneCopy, TypeOK, Blks
  <2>3. c \in written
    BY <1>1, <2>2 DEF x
  <2> QED
    BY <1>8, <2>2, <2>3 DEF IInv, Clean
<1> QED
  BY <1>9, <1>10, <1>11, <1>12 DEF IInv

LEMMA VmallocInv ==
  ASSUME IInv, Vmalloc PROVE IInv'
<1>1. PICK size \in Sizes : Base(size) + size <= NBLK * BSIZ /\ virtop' = Base(size) + size
  BY DEF Vmalloc
<1>2. UNCHANGED <<vmpool, vmhead, disk, limblk, ptrs, written>>
  BY DEF Vmalloc
<1>3. virtop' \in 2 .. NBLK * BSIZ
  <2>1. virtop \in Nat /\ virtop >= 2 /\ size \in Nat /\ NBLK * BSIZ \in Int
    BY PoolAssumption DEF IInv, TypeOK
  <2>2. BlkLim \in Nat /\ BlkLim > virtop
    BY <2>1, PoolAssumption DEF BlkLim
  <2> QED
    BY <1>1, <2>1, <2>2 DEF Base
<1>4. TypeOK'
  BY <1>2, <1>3 DEF IInv, TypeOK
<1> QED
  BY <1>2, <1>4 DEF IInv, OneCopy, Recent, PointersGood, PointerGood, Backed, Dirty, Clean

LEMMA FreeRepeatInv ==
  ASSUME IInv, FreeRepeat PROVE IInv'
<1>1. PICK rptstr \in 2 .. virtop - 1 :
        /\ virtop' = rptstr
        /\ written' = written \ (rptstr .. NBLK * BSIZ - 1)
        /\ ptrs' = [i \in Uses |-> IF ptrs[i].adr >= rptstr THEN NoPtr ELSE ptrs[i]]
  BY DEF FreeRepeat
<1>2. UNCHANGED <<vmpool, vmhead, disk, limblk>>
  BY DEF FreeRepeat
<1>3. virtop' \in 2 .. NBLK * BSIZ
  <2>1. virtop \in Int /\ virtop <= NBLK * BSIZ /\ NBLK * BSIZ \in Int
    BY PoolAssumption DEF IInv, TypeOK
  <2> QED
    BY <1>1, <2>1
<1>4. TypeOK'
  <2>1. ptrs' \in [Uses -> Pointer \cup {NoPtr}]
    BY <1>1 DEF IInv, TypeOK
  <2>2. written' \subseteq Adrs
    BY <1>1 DEF IInv, TypeOK
  <2> QED
    BY <1>2, <1>3, <2>1, <2>2 DEF IInv, TypeOK
<1>5. \A i \in Uses : ptrs'[i] /= NoPtr => ptrs'[i] = ptrs[i]
  BY <1>1
<1>6. Recent' /\ PointersGood'
  BY <1>2, <1>5 DEF IInv, Recent, PointersGood, PointerGood
<1> QED
  BY <1>1, <1>2, <1>4, <1>6 DEF IInv, OneCopy, Backed, Dirty, Clean

LEMMA NextIInv ==
  ASSUME IInv, [Next]_vars PROVE IInv'
<1>1. ASSUME NEW a \in 2 .. virtop - 1 PROVE a \in Adrs
  <2>1. virtop \in Int /\ virtop <= NBLK * BSIZ /\ NBLK * BSIZ \in Int
    BY PoolAssumption DEF IInv, TypeOK
  <2> QED
    BY <2>1 DEF Adrs
<1>2. CASE Rfetch
  BY <1>1, <1>2, FetchInv DEF Rfetch
<1>3. CASE Wfetch
  BY <1>1, <1>3, FetchInv DEF Wfetch
<1>4. CASE Store
  BY <1>4, StoreInv
<1>5. CASE Vmalloc
  BY <1>5, VmallocInv
<1>6. CASE FreeRepeat
  BY <1>6, FreeRepeatInv
<1>7. CASE UNCHANGED vars
  BY <1>7 DEF vars, IInv, TypeOK, OneCopy, Recent, PointersGood, PointerGood,
              Backed, Dirty, Clean
<1> QED
  BY <1>2, <1>3, <1>4, <1>5, <1>6, <1>7 DEF Next

(* The storage always satisfies the inductive invariant.                   *)
THEOREM Invariance == Spec => []IInv
BY InitIInv, NextIInv, PTL DEF Spec

(* Every variable keeps its type; the chain of buffers stays a permutation *)
(* of them.                                                                *)
THEOREM VmTypeCorrect == Spec => []TypeOK
<1>1. IInv => TypeOK
  BY DEF IInv
<1> QED
  BY <1>1, Invariance, PTL

(* For a pool larger than KEEP, every pointer still in use points at its   *)
(* own block, in a buffer marked dirty if it may be stored through.        *)
THEOREM PointersCorrect == Spec => []PointersGood
<1>1. IInv => PointersGood
  BY DEF IInv
<1> QED
  BY <1>1, Invariance, PTL

(* A block in a buffer is in that buffer alone: getbuf() always finds it   *)
(* again, wherever in the chain it has moved.                              *)
THEOREM OneCopyCorrect == Spec => []OneCopy
<1>1. IInv => OneCopy
  BY DEF IInv
<1> QED
  BY <1>1, Invariance, PTL

(* An address lies in block q when it is between the ends of block q.      *)
LEMMA BlkBetween ==
  ASSUME NEW a \in Nat, NEW q \in Nat, q * BSIZ <= a, a < (q + 1) * BSIZ
  PROVE  Blk(a) = q
<1>1. BSIZ \in Nat \ {0}
  BY PoolAssumption
<1>2. \A x \in Nat, b \in Nat \ {0} :
        /\ x \div b \in Nat
        /\ (x \div b) * b <= x /\ x < (x \div b + 1) * b
  OBVIOUS
<1>3. Blk(a) \in Nat /\ Blk(a) * BSIZ <= a /\ a < (Blk(a) + 1) * BSIZ
  BY <1>1, <1>2 DEF Blk
<1>4. \A x, y \in Nat : x < y => (x + 1) * BSIZ <= y * BSIZ
  <2> SUFFICES ASSUME NEW x \in Nat, NEW y \in Nat, x < y
               PROVE  (x + 1) * BSIZ <= y * BSIZ
    OBVIOUS
  <2>1. PICK d \in Nat : y = x + 1 + d
    <3>1. y - x - 1 \in Nat /\ y = x + 1 + (y - x - 1)
      OBVIOUS
    <3> QED
      BY <3>1
  <2>2. y * BSIZ = (x + 1) * BSIZ + d * BSIZ /\ d * BSIZ >= 0
    BY <1>1, <2>1
  <2>3. (x + 1) * BSIZ \in Nat /\ y * BSIZ \in Nat /\ d * BSIZ \in Nat
    BY <1>1
  <2> QED
    BY <2>2, <2>3
<1>5. /\ Blk(a) < q => (Blk(a) + 1) * BSIZ <= q * BSIZ
      /\ q < Blk(a) => (q + 1) * BSIZ <= Blk(a) * BSIZ
  BY <1>3, <1>4
<1>6. /\ (Blk(a) + 1) * BSIZ \in Nat /\ q * BSIZ \in Nat
      /\ (q + 1) * BSIZ \in Nat /\ Blk(a) * BSIZ \in Nat
  BY <1>1, <1>3
<1>7. ~(Blk(a) < q) /\ ~(q < Blk(a))
  BY <1>3, <1>5, <1>6
<1> QED
  BY <1>3, <1>7

(* Where vmalloc() begins a region: at virtop when it fits the block, else *)
(* at the next block; either way it ends in the block it begins in.        *)
LEMMA BaseInBlock ==
  ASSUME virtop \in Nat, NEW size \in Sizes
  PROVE  /\ Base(size) \in Nat /\ Base(size) >= virtop
         /\ Blk(Base(size)) = Blk(Base(size) + size - 1)
<1> DEFINE q == virtop \div BSIZ
<1>1. BSIZ \in Nat \ {0} /\ size \in 1 .. BSIZ
  BY PoolAssumption
<1>2. \A x \in Nat, b \in Nat \ {0} :
        /\ x \div b \in Nat
        /\ (x \div b) * b <= x /\ x < (x \div b + 1) * b
  OBVIOUS
<1>3. q \in Nat /\ q * BSIZ <= virtop /\ virtop < (q + 1) * BSIZ
  BY <1>1, <1>2
<1>4. BlkLim = (q + 1) * BSIZ
  BY DEF BlkLim
<1> HIDE DEF q
<1>5. (q + 1) * BSIZ \in Nat /\ (q + 1 + 1) * BSIZ = (q + 1) * BSIZ + BSIZ
  BY <1>1, <1>3
<1>6. CASE virtop + size > BlkLim
  <2>1. Base(size) = (q + 1) * BSIZ
    BY <1>4, <1>6 DEF Base
  <2>2. /\ (q + 1) * BSIZ + size - 1 \in Nat
        /\ (q + 1) * BSIZ + size - 1 < (q + 1 + 1) * BSIZ
        /\ (q + 1) * BSIZ <= (q + 1) * BSIZ + size - 1
        /\ (q + 1) * BSIZ < (q + 1 + 1) * BSIZ
        /\ (q + 1) * BSIZ >= virtop
    BY <1>1, <1>3, <1>5
  <2>3. q + 1 \in Nat
    BY <1>3
  <2>4. Blk((q + 1) * BSIZ) = q + 1 /\ Blk((q + 1) * BSIZ + size - 1) = q + 1
    BY <1>5, <2>2, <2>3, BlkBetween
  <2> QED
    BY <1>5, <2>1, <2>2, <2>4
<1>7. CASE ~(virtop + size > BlkLim)
  <2>1. Base(size) = virtop
    BY <1>7 DEF Base
  <2>2. /\ virtop + size - 1 \in Nat /\ virtop <= virtop + size - 1
        /\ virtop + size - 1 < (q + 1) * BSIZ
    BY <1>1, <1>4, <1>5, <1>7
  <2>3. q * BSIZ <= virtop + size - 1
    <3>1. q * BSIZ \in Nat
      BY <1>1, <1>3
    <3> QED
      BY <1>1, <1>3, <2>2, <3>1
  <2>4. Blk(virtop) = q /\ Blk(virtop + size - 1) = q
    BY <1>3, <2>2, <2>3, BlkBetween
  <2> QED
    BY <2>1, <2>4
<1> QED
  BY <1>6, <1>7

(* Every region that vmalloc() gives out begins where nothing is allocated *)
(* and lies in one block, so that one pointer reaches all of it, for every *)
(* block size and every set of sizes that fit a block.                     *)
THEOREM RegionsCorrect == Spec => RegionInBlock
<1>1. IInv => virtop \in Nat
  <2>1. NBLK * BSIZ \in Int
    BY PoolAssumption
  <2> QED
    BY <2>1 DEF IInv, TypeOK
<1> DEFINE Fits(size) ==
             virtop' > virtop /\ virtop' = Base(size) + size =>
               virtop' - size >= virtop /\ Blk(virtop' - size) = Blk(virtop' - 1)
<1>2. ASSUME IInv, NEW size \in Sizes PROVE Fits(size)
  <2> SUFFICES ASSUME virtop' = Base(size) + size
               PROVE  virtop' - size >= virtop /\ Blk(virtop' - size) = Blk(virtop' - 1)
    OBVIOUS
  <2>1. size \in Nat
    BY PoolAssumption
  <2>2. virtop' - size = Base(size) /\ virtop' - 1 = Base(size) + size - 1
    BY <1>1, <1>2, <2>1, BaseInBlock
  <2> QED
    BY <1>1, <1>2, <2>2, BaseInBlock
<1>3. IInv => [\A size \in Sizes : Fits(size)]_vars
  BY <1>2
<1> QED
  BY <1>3, Invariance, PTL DEF RegionInBlock
-----------------------------------------------------------------------------
(* What the memory holds at an address that has been written: the buffer's *)
(* byte if its block is in one, otherwise the file's.                      *)
ContentKnown ==
  \A a \in written :
    /\ \A b \in Bufs : vmpool[b].blk = Blk(a) => Content(a) = vmpool[b].mem[Off(a)]
    /\ (\A b \in Bufs : vmpool[b].blk /= Blk(a)) => Content(a) = disk[Blk(a)][Off(a)]

LEMMA ContentIs == IInv => ContentKnown
<1> SUFFICES ASSUME IInv, NEW a \in written
             PROVE  /\ \A b \in Bufs : vmpool[b].blk = Blk(a) => Content(a) = vmpool[b].mem[Off(a)]
                    /\ (\A b \in Bufs : vmpool[b].blk /= Blk(a)) => Content(a) = disk[Blk(a)][Off(a)]
  BY DEF ContentKnown
<1>1. Blk(a) /= -1
  BY BlkOffType, PoolAssumption DEF IInv, TypeOK, Blks
<1>2. ASSUME NEW b \in Bufs, vmpool[b].blk = Blk(a)
      PROVE  b = CHOOSE c \in Bufs : vmpool[c].blk = Blk(a)
  BY <1>1, <1>2 DEF IInv, OneCopy
<1> QED
  BY <1>2 DEF Content

LEMMA ContentIsNext == (IInv => ContentKnown)'
BY ContentIs, PTL

LEMMA FetchContent ==
  ASSUME IInv, IInv', NEW a \in Adrs, NEW w \in BOOLEAN, Fetch(a, w), NEW c \in Adrs
  PROVE  Content(c)' = Content(c)
<1> DEFINE k == Blk(a)
<1>1. written' = written
  BY DEF Fetch
<1>2. CASE c \notin written
  BY <1>1, <1>2 DEF Content
<1>3. ASSUME c \in written PROVE Content(c)' = Content(c)
  <2>1. PICK p \in Bufs : Stops(p, k) /\ Getbuf(k, p, w)
    BY DEF Fetch
  <2> DEFINE b == vmhead[p]
             out == ~Holds(p, k) /\ vmpool[b].dir
  <2>2. /\ TypeOK /\ OneCopy /\ b \in Bufs /\ k \in Blks /\ Blk(c) \in Blks
        /\ limblk \in Int /\ k \in Int /\ vmpool[b].blk \in Int
    <3>1. TypeOK /\ OneCopy /\ b \in Bufs /\ k \in Blks /\ Blk(c) \in Blks
      BY BlkOffType DEF IInv, TypeOK
    <3>2. vmpool[b] \in Buffer /\ limblk \in Int
      BY <3>1, PoolAssumption DEF TypeOK
    <3>3. k \in Int /\ vmpool[b].blk \in Int
      BY <3>1, <3>2, PoolAssumption DEF Blks, Buffer
    <3> QED
      BY <3>1, <3>2, <3>3
  <2>3. \A d \in Bufs : d /= b => vmpool[d].blk /= k
    BY <2>1, <2>2, Taken
  <2>4. /\ \A d \in Bufs : d /= b => vmpool'[d] = vmpool[d]
        /\ vmpool'[b].blk = k
        /\ vmpool'[b].mem = IF ~Holds(p, k) /\ k < limblk' THEN disk'[k] ELSE vmpool[b].mem
    BY <2>1, <2>2 DEF Getbuf, TypeOK
  <2>5. /\ disk' = IF out THEN [disk EXCEPT ![vmpool[b].blk] = vmpool[b].mem] ELSE disk
        /\ limblk' = IF out /\ vmpool[b].blk >= limblk THEN vmpool[b].blk + 1 ELSE limblk
    BY <2>1 DEF Getbuf, WriteOut
  <2>6. Holds(p, k) <=> vmpool[b].blk = k
    BY DEF Holds
  <2>7. limblk' >= limblk /\ limblk' \in Int
    BY <2>2, <2>5
  <2>8. /\ \A d \in Bufs : vmpool'[d].blk = Blk(c) => Content(c)' = vmpool'[d].mem[Off(c)]
        /\ (\A d \in Bufs : vmpool'[d].blk /= Blk(c)) => Content(c)' = disk'[Blk(c)][Off(c)]
    BY <1>1, <1>3, ContentIsNext DEF ContentKnown
  <2>9. /\ \A d \in Bufs : vmpool[d].blk = Blk(c) => Content(c) = vmpool[d].mem[Off(c)]
        /\ (\A d \in Bufs : vmpool[d].blk /= Blk(c)) => Content(c) = disk[Blk(c)][Off(c)]
    BY <1>3, ContentIs DEF ContentKnown
  <2> HIDE DEF k, b
  <2>10. vmpool[b].blk /= Blk(c) => disk'[Blk(c)] = disk[Blk(c)]
    BY <2>2, <2>5 DEF TypeOK
  <2>11. CASE Blk(c) = k /\ Holds(p, k)
    BY <2>2, <2>4, <2>6, <2>8, <2>9, <2>11
  <2>12. CASE Blk(c) = k /\ ~Holds(p, k)
    <3>1. \A d \in Bufs : vmpool[d].blk /= Blk(c)
      BY <2>3, <2>6, <2>12
    <3>2. k < limblk'
      BY <1>3, <2>2, <2>7, <2>12, <3>1 DEF IInv, Backed, Dirty
    <3>3. Content(c) = disk'[k][Off(c)]
      BY <2>2, <2>9, <2>10, <2>12, <3>1
    <3> QED
      BY <2>2, <2>4, <2>8, <2>12, <3>2, <3>3
  <2>13. CASE Blk(c) /= k
    <3>1. ASSUME NEW d \in Bufs, d /= b, vmpool[d].blk = Blk(c)
          PROVE  Content(c)' = Content(c)
      BY <2>4, <2>8, <2>9, <3>1
    <3>2. ASSUME \A d \in Bufs : d /= b => vmpool[d].blk /= Blk(c)
          PROVE  Content(c)' = disk'[Blk(c)][Off(c)]
      BY <2>2, <2>4, <2>8, <2>13, <3>2
    <3>3. CASE vmpool[b].blk = Blk(c) /\ out
      <4>1. disk'[Blk(c)] = vmpool[b].mem
        BY <2>2, <2>5, <3>3 DEF TypeOK
      <4>2. \A d \in Bufs : d /= b => vmpool[d].blk /= Blk(c)
        BY <2>2, <3>3, PoolAssumption DEF OneCopy, Blks
      <4> QED
        BY <2>2, <2>9, <3>2, <3>3, <4>1, <4>2
    <3>4. CASE vmpool[b].blk = Blk(c) /\ ~out
      <4>1. disk' = disk /\ ~vmpool[b].dir
        BY <2>5, <2>6, <2>13, <3>4
      <4>2. \A d \in Bufs : d /= b => vmpool[d].blk /= Blk(c)
        BY <2>2, <3>4, PoolAssumption DEF OneCopy, Blks
      <4>3. vmpool[b].mem[Off(c)] = disk[Blk(c)][Off(c)]
        BY <1>3, <2>2, <3>4, <4>1 DEF IInv, Clean
      <4> QED
        BY <2>2, <2>9, <3>2, <3>4, <4>1, <4>2, <4>3
    <3>5. CASE \A d \in Bufs : vmpool[d].blk /= Blk(c)
      BY <2>2, <2>9, <2>10, <3>2, <3>5
    <3> QED
      BY <3>1, <3>3, <3>4, <3>5
  <2> QED
    BY <2>11, <2>12, <2>13
<1> QED
  BY <1>2, <1>3
MemOf == [a \in Adrs |-> Content(a)]

OpenOf == [i \in Uses |-> [adr |-> ptrs[i].adr, write |-> ptrs[i].write]]

(* A store through a pointer writes the pointer's address and no other.    *)
LEMMA StoreContent ==
  ASSUME IInv, IInv', Store
  PROVE  \E i \in Uses, v \in Vals : Memory!Write(i, v)
<1>1. PICK x \in Adrs, b \in Bufs, v \in Vals, n \in Uses :
        /\ ptrs[n].write /\ ptrs[n].adr = x
        /\ vmpool[b].blk = Blk(x)
        /\ vmpool' = [vmpool EXCEPT ![b].mem[Off(x)] = v]
        /\ written' = written \cup {x}
  <2>1. PICK n \in Uses, v \in Vals :
          /\ ptrs[n].write
          /\ vmpool' = [vmpool EXCEPT ![ptrs[n].buf].mem[Off(ptrs[n].adr)] = v]
          /\ written' = written \cup {ptrs[n].adr}
    BY DEF Store
  <2>2. ptrs[n] /= NoPtr
    BY <2>1 DEF NoPtr
  <2>3. ptrs[n] \in Pointer
    BY <2>2 DEF IInv, TypeOK
  <2>4. ptrs[n].adr \in Adrs /\ ptrs[n].buf \in Bufs
    BY <2>3 DEF Pointer
  <2>5. vmpool[ptrs[n].buf].blk = Blk(ptrs[n].adr)
    BY <2>2 DEF IInv, PointersGood, PointerGood
  <2> QED
    BY <2>1, <2>4, <2>5
<1>2. TypeOK /\ vmpool[b] \in Buffer
  BY DEF IInv, TypeOK
<1>3. vmpool[b].blk = Blk(x)
  BY <1>1
<1>4. Off(x) \in Offs /\ vmpool[b].mem \in [Offs -> Vals]
  BY <1>2, BlkOffType DEF Buffer
<1>5. /\ \A d \in Bufs : d /= b => vmpool'[d] = vmpool[d]
      /\ vmpool'[b].blk = vmpool[b].blk
      /\ vmpool'[b].mem = [vmpool[b].mem EXCEPT ![Off(x)] = v]
      /\ disk' = disk
  BY <1>1, <1>2 DEF TypeOK, Store, Buffer
<1>6. /\ \A e \in written :
            /\ \A d \in Bufs : vmpool[d].blk = Blk(e) => Content(e) = vmpool[d].mem[Off(e)]
            /\ (\A d \in Bufs : vmpool[d].blk /= Blk(e)) => Content(e) = disk[Blk(e)][Off(e)]
      /\ \A e \in written' :
            /\ \A d \in Bufs : vmpool'[d].blk = Blk(e) => Content(e)' = vmpool'[d].mem[Off(e)]
            /\ (\A d \in Bufs : vmpool'[d].blk /= Blk(e)) => Content(e)' = disk'[Blk(e)][Off(e)]
  BY ContentIs, ContentIsNext DEF ContentKnown
<1>7. written' = written \cup {x}
  BY <1>1
<1>8. Content(x)' = v
  <2>1. Content(x)' = vmpool'[b].mem[Off(x)]
    <3>1. x \in written' /\ vmpool'[b].blk = Blk(x) /\ b \in Bufs
      BY <1>2, <1>3, <1>5, <1>7
    <3>2. ASSUME NEW e \in written', NEW d \in Bufs, vmpool'[d].blk = Blk(e)
          PROVE  Content(e)' = vmpool'[d].mem[Off(e)]
      BY <1>6, <3>2
    <3> QED
      BY <3>1, <3>2
  <2> QED
    BY <1>4, <1>5, <2>1
<1>9. ASSUME NEW c \in Adrs, c /= x PROVE Content(c)' = Content(c)
  <2>1. CASE c \notin written
    BY <1>7, <1>9, <2>1 DEF Content
  <2>2. CASE c \in written
    <3>1. ASSUME NEW d \in Bufs, d /= b, vmpool[d].blk = Blk(c)
          PROVE  Content(c)' = Content(c)
      BY <1>5, <1>6, <1>7, <2>2, <3>1
    <3>2. CASE vmpool[b].blk = Blk(c)
      <4>1. Off(c) \in Offs /\ Off(c) /= Off(x)
        BY <1>2, <1>3, <1>9, <3>2, BlkOffType, BlkOffUnique
      <4>2. vmpool'[b].mem[Off(c)] = vmpool[b].mem[Off(c)]
        BY <1>4, <1>5, <4>1
      <4> QED
        BY <1>2, <1>5, <1>6, <1>7, <2>2, <3>2, <4>2
    <3>3. CASE \A d \in Bufs : vmpool[d].blk /= Blk(c)
      BY <1>2, <1>5, <1>6, <1>7, <2>2, <3>3
    <3> QED
      BY <3>1, <3>2, <3>3
  <2> QED
    BY <2>1, <2>2
<1>10. MemOf' = [MemOf EXCEPT ![x] = v]
  <2>1. MemOf' = [a \in Adrs |-> Content(a)']
    BY DEF MemOf
  <2>2. MemOf = [a \in Adrs |-> MemOf[a]] /\ \A a \in Adrs : MemOf[a] = Content(a)
    BY DEF MemOf
  <2>3. ASSUME NEW a \in Adrs
        PROVE  Content(a)' = IF a = x THEN v ELSE MemOf[a]
    <3>1. CASE a = x
      BY <1>8, <3>1
    <3>2. CASE a /= x
      BY <1>9, <2>2, <3>2
    <3> QED
      BY <3>1, <3>2
  <2>4. MemOf' = [a \in Adrs |-> IF a = x THEN v ELSE MemOf[a]]
    BY <2>1, <2>3
  <2> QED
    BY <2>2, <2>4
<1>11. OpenOf[n].write /\ OpenOf[n].adr = x /\ OpenOf' = OpenOf
  BY <1>1 DEF OpenOf, Store
<1> QED
  BY <1>1, <1>10, <1>11 DEF Memory!Write, MemOf, OpenOf

LEMMA StepImplements ==
  ASSUME IInv, IInv', [Next]_vars
  PROVE  [Memory!Next]_<<MemOf, OpenOf>>
<1>1. ASSUME NEW a \in 2 .. virtop - 1 PROVE a \in Adrs
  <2>1. virtop \in Int /\ virtop <= NBLK * BSIZ /\ NBLK * BSIZ \in Int
    BY PoolAssumption DEF IInv, TypeOK
  <2> QED
    BY <2>1 DEF Adrs
<1>2. CASE Rfetch \/ Wfetch
  <2>1. PICK a \in 2 .. virtop - 1, w \in BOOLEAN : Fetch(a, w)
    BY <1>2 DEF Rfetch, Wfetch
  <2>2. \A c \in Adrs : Content(c)' = Content(c)
    BY <1>1, <2>1, FetchContent
  <2>3. MemOf' = MemOf
    BY <2>2 DEF MemOf
  <2>4. PICK p \in Bufs :
          ptrs' = [i \in Uses |-> IF i = 1 THEN [adr |-> a, buf |-> vmhead[p], write |-> w]
                                  ELSE ptrs[i - 1]]
    BY <2>1 DEF Fetch
  <2>5. ASSUME NEW i \in Uses
        PROVE  OpenOf'[i] = IF i = 1 THEN [adr |-> a, write |-> w] ELSE OpenOf[i - 1]
    <3>1. CASE i = 1
      BY <2>4, <3>1 DEF OpenOf
    <3>2. CASE i /= 1
      <4>1. i - 1 \in Uses /\ ptrs'[i] = ptrs[i - 1]
        BY <2>4, <3>2, PoolAssumption DEF Uses
      <4> QED
        BY <3>2, <4>1 DEF OpenOf
    <3> QED
      BY <3>1, <3>2
  <2>6. OpenOf' = [i \in Uses |-> IF i = 1 THEN [adr |-> a, write |-> w] ELSE OpenOf[i - 1]]
    BY <2>5 DEF OpenOf
  <2>7. Memory!Fetch(a, w)
    BY <2>3, <2>6 DEF Memory!Fetch, MemOf, OpenOf, Memory!Uses, Uses
  <2> QED
    BY <1>1, <2>7 DEF Memory!Next
<1>3. CASE Store
  BY <1>3, StoreContent DEF Memory!Next, Memory!Uses, Uses
<1>4. CASE Vmalloc \/ UNCHANGED vars
  BY <1>4 DEF Vmalloc, vars, MemOf, OpenOf, Content
<1>5. CASE FreeRepeat
  <2>1. PICK rptstr \in 2 .. virtop - 1 :
          /\ written' = written \ (rptstr .. NBLK * BSIZ - 1)
          /\ ptrs' = [i \in Uses |-> IF ptrs[i].adr >= rptstr THEN NoPtr ELSE ptrs[i]]
    BY <1>5 DEF FreeRepeat
  <2> DEFINE lost == Adrs \cap (rptstr .. NBLK * BSIZ - 1)
  <2>2. MemOf' = [a \in Adrs |-> IF a \in lost THEN Unset ELSE MemOf[a]]
    BY <1>5, <2>1 DEF FreeRepeat, MemOf, Content
  <2>3. lost \in SUBSET Adrs
    OBVIOUS
  <2>4. ASSUME NEW i \in Uses
        PROVE  OpenOf'[i] = IF OpenOf[i].adr \in lost THEN Memory!Closed ELSE OpenOf[i]
    <3>1. OpenOf[i].adr = ptrs[i].adr /\ ptrs[i] \in Pointer \cup {NoPtr}
      BY DEF OpenOf, IInv, TypeOK
    <3>2. rptstr \in Nat /\ NBLK * BSIZ \in Nat
      BY PoolAssumption DEF IInv, TypeOK
    <3>3. OpenOf[i].adr \in lost <=> ptrs[i].adr >= rptstr
      <4>1. ptrs[i].adr \in Adrs \/ ptrs[i].adr = -1
        BY <3>1 DEF Pointer, NoPtr
      <4> QED
        BY <3>1, <3>2, <4>1 DEF Adrs
    <3>4. OpenOf'[i] = [adr |-> ptrs'[i].adr, write |-> ptrs'[i].write]
      BY DEF OpenOf
    <3>5. OpenOf[i] = [adr |-> ptrs[i].adr, write |-> ptrs[i].write]
      BY DEF OpenOf
    <3>6. ptrs'[i] = IF ptrs[i].adr >= rptstr THEN NoPtr ELSE ptrs[i]
      BY <2>1
    <3>7. CASE ptrs[i].adr >= rptstr
      <4>1. ptrs'[i] = [adr |-> -1, buf |-> 1, write |-> FALSE]
        BY <3>6, <3>7 DEF NoPtr
      <4>2. OpenOf'[i] = Memory!Closed
        BY <3>4, <4>1 DEF Memory!Closed
      <4> HIDE DEF lost
      <4> QED
        BY <3>3, <3>7, <4>2
    <3>8. CASE ~(ptrs[i].adr >= rptstr)
      BY <3>3, <3>4, <3>5, <3>6, <3>8
    <3> HIDE DEF lost
    <3> QED
      BY <3>3, <3>7, <3>8
  <2>5. OpenOf' = [i \in Uses |-> IF OpenOf[i].adr \in lost THEN Memory!Closed ELSE OpenOf[i]]
    BY <2>4 DEF OpenOf
  <2>6. Memory!Discard(lost)
    BY <2>2, <2>5 DEF Memory!Discard, MemOf, OpenOf, Memory!Uses, Uses
  <2> QED
    BY <2>3, <2>6 DEF Memory!Next
<1> QED
  BY <1>2, <1>3, <1>4, <1>5 DEF Next

(* The file VM.TMP and the buffers together are a memory: what is stored   *)
(* through a pointer stays there until it is overwritten or freed, however *)
(* often the block is written out and read in.                             *)
THEOREM MemoryImplemented == Spec => ImplementsMemory
<1>1. Init => Memory!Init
  BY DEF Init, Memory!Init, Content, NoPtr, Memory!Closed, Memory!Uses, Uses
<1>2. IInv /\ IInv' /\ [Next]_vars =>
        [Memory!Next]_<<[a \in Adrs |-> Content(a)],
                        [i \in Uses |-> [adr |-> ptrs[i].adr, write |-> ptrs[i].write]]>>
  BY StepImplements DEF MemOf, OpenOf
<1> QED
  BY <1>1, <1>2, Invariance, PTL DEF Spec, ImplementsMemory, Memory!Spec
=============================================================================
