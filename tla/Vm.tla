--------------------------------- MODULE Vm ---------------------------------
(***************************************************************************)
(* The virtual memory of asz8k (asz8k/avm.c): symbols, cross references    *)
(* and macro texts live in a file of blocks, of which a pool of buffers    *)
(* holds the most recently used ones.  rfetch() and wfetch() return a      *)
(* pointer into a buffer; callers go on using it after fetching others     *)
(* ("requires an lru virtual memory buffer pool of at least 3 blocks",     *)
(* axref.c:77 and axref.c:139).  An action is one call, or one store       *)
(* through a pointer that a caller still uses.                             *)
(***************************************************************************)
EXTENDS Integers

CONSTANTS
  NBUF,       \* the number of buffers in vmpool[]
  BSIZ,       \* the size of a block, 1 << BLKLOG
  NBLK,       \* bound: the number of blocks that virtop may reach
  Sizes,      \* the sizes that callers allocate
  KEEP,       \* a pointer is still used after at most KEEP further fetches
  Vals, Unset \* what a byte may hold, and that it has not been written

ASSUME PoolAssumption ==
  /\ NBUF \in Nat /\ KEEP \in Nat /\ KEEP < NBUF
  /\ BSIZ \in Nat \ {0} /\ NBLK \in Nat /\ NBLK * BSIZ >= 2
  /\ Sizes \subseteq 1 .. BSIZ
  /\ 0 \in Vals /\ Unset \notin Vals

Bufs == 1 .. NBUF
Offs == 0 .. BSIZ - 1
Blks == 0 .. NBLK - 1
Adrs == 0 .. NBLK * BSIZ - 1
NoPtr == [adr |-> -1, buf |-> 1, write |-> FALSE]
Uses == 1 .. KEEP + 1

VARIABLES
  vmpool,   \* the buffers: blk, dir (the dirty bit) and mem
  vmhead,   \* the chain of buffers, the most recently used first
  disk,     \* VM.TMP
  limblk,   \* the number of blocks in the file
  virtop,   \* the first unused address
  ptrs,     \* history: what the latest fetches returned, the last one first
  written   \* history: the bytes written since they were allocated

vars == <<vmpool, vmhead, disk, limblk, virtop, ptrs, written>>

Blk(a) == a \div BSIZ
Off(a) == a % BSIZ

Init ==
  /\ vmpool = [b \in Bufs |-> [blk |-> -1, dir |-> FALSE, mem |-> [o \in Offs |-> 0]]]
  /\ vmhead = [i \in Bufs |-> i]
  /\ disk = [k \in Blks |-> [o \in Offs |-> 0]]
  /\ limblk = 0 /\ virtop = 2      \* 0 is no address
  /\ ptrs = [i \in Uses |-> NoPtr]
  /\ written = {}

(* The place in the chain at which getbuf() stops: the block, or the end.  *)
Holds(i, k) == vmpool[vmhead[i]].blk = k
StopsAtEnd(i, k) == i = NBUF      \* mutant: the loop does not leave at a hit
Stops(i, k) == /\ \A q \in 1 .. i - 1 : ~Holds(q, k)
               /\ Holds(i, k) \/ i = NBUF

ToFrontTwice(p) ==                \* mutant: the chain keeps the old link too
  [i \in Bufs |-> IF i = 1 THEN vmhead[p] ELSE IF i < p THEN vmhead[i - 1] ELSE vmhead[i]]
ToFrontNever(p) == vmhead         \* mutant: first in, first out
ToFront(p) == [i \in Bufs |-> IF i = 1 THEN vmhead[p]
                              ELSE IF i <= p THEN vmhead[i - 1] ELSE vmhead[i]]
WriteOutNever(b) == disk          \* mutant: a dirty buffer is not written out
WriteOut(b) == [disk EXCEPT ![vmpool[b].blk] = vmpool[b].mem]

(* getbuf(), with the dirty bit that wfetch() sets afterwards.             *)
Getbuf(k, p, w) ==
  LET b == vmhead[p]  out == ~Holds(p, k) /\ vmpool[b].dir IN
  /\ disk' = IF out THEN WriteOut(b) ELSE disk
  /\ limblk' = IF out /\ vmpool[b].blk >= limblk THEN vmpool[b].blk + 1 ELSE limblk
  /\ vmpool' = [vmpool EXCEPT ![b] =
       [blk |-> k,
        dir |-> w \/ (Holds(p, k) /\ @.dir),
        mem |-> IF ~Holds(p, k) /\ k < limblk' THEN disk'[k] ELSE @.mem]]
  /\ vmhead' = ToFront(p)

Fetch(a, w) ==        \* rfetch(a), and wfetch(a) if w
  /\ \E p \in Bufs :
       /\ Stops(p, Blk(a)) /\ Getbuf(Blk(a), p, w)
       /\ ptrs' = [i \in Uses |-> IF i = 1 THEN [adr |-> a, buf |-> vmhead[p], write |-> w]
                                  ELSE ptrs[i - 1]]
  /\ UNCHANGED <<virtop, written>>

Rfetch == \E a \in 2 .. virtop - 1 : Fetch(a, FALSE)
Wfetch == \E a \in 2 .. virtop - 1 : Fetch(a, TRUE)

Store ==              \* through a pointer that wfetch() returned
  \E i \in Uses, v \in Vals :
    /\ ptrs[i].write
    /\ vmpool' = [vmpool EXCEPT ![ptrs[i].buf].mem[Off(ptrs[i].adr)] = v]
    /\ written' = written \cup {ptrs[i].adr}
    /\ UNCHANGED <<vmhead, disk, limblk, virtop, ptrs>>

BlkLim == (virtop \div BSIZ + 1) * BSIZ
Base(size) == IF virtop + size > BlkLim THEN BlkLim ELSE virtop

Vmalloc ==
  \E size \in Sizes :
    /\ Base(size) + size <= NBLK * BSIZ
    /\ virtop' = Base(size) + size
    /\ UNCHANGED <<vmpool, vmhead, disk, limblk, ptrs, written>>

(* rpt1() gives back the space of a repeat's text when it has been copied. *)
(* No pointer into it is used any more.                                    *)
FreeRepeat ==
  \E rptstr \in 2 .. virtop - 1 :
    /\ virtop' = rptstr
    /\ written' = written \ (rptstr .. NBLK * BSIZ - 1)
    /\ ptrs' = [i \in Uses |-> IF ptrs[i].adr >= rptstr THEN NoPtr ELSE ptrs[i]]
    /\ UNCHANGED <<vmpool, vmhead, disk, limblk>>

Next == Rfetch \/ Wfetch \/ Store \/ Vmalloc \/ FreeRepeat
Spec == Init /\ [][Next]_vars
-----------------------------------------------------------------------------
Buffer == [blk : -1 .. NBLK - 1, dir : BOOLEAN, mem : [Offs -> Vals]]
Pointer == [adr : Adrs, buf : Bufs, write : BOOLEAN]

(* Types of the variables, and the chain holds every buffer once.          *)
TypeOK ==
  /\ vmpool \in [Bufs -> Buffer]
  /\ vmhead \in [Bufs -> Bufs]
  /\ \A i, j \in Bufs : vmhead[i] = vmhead[j] => i = j
  /\ \A b \in Bufs : \E i \in Bufs : vmhead[i] = b
  /\ disk \in [Blks -> [Offs -> Vals]]
  /\ limblk \in 0 .. NBLK /\ virtop \in 2 .. NBLK * BSIZ
  /\ ptrs \in [Uses -> Pointer \cup {NoPtr}]
  /\ written \subseteq Adrs

(* A pointer that a caller may still use points at the block it was        *)
(* fetched for, and one to be stored through at a buffer marked dirty.     *)
PointerGood(ptr) ==
  ptr /= NoPtr => /\ vmpool[ptr.buf].blk = Blk(ptr.adr)
                  /\ ptr.write => vmpool[ptr.buf].dir
PointersGood == \A i \in Uses : PointerGood(ptrs[i])

(* No block is in two buffers, which would then differ.                    *)
OneCopy == \A b, c \in Bufs : vmpool[b].blk = vmpool[c].blk /\ b /= c => vmpool[b].blk = -1

(* A region that vmalloc() gives out lies in one block, so that a pointer  *)
(* reaches all of it, and begins where nothing is allocated.               *)
RegionInBlock ==
  [][\A size \in Sizes :
       virtop' > virtop /\ virtop' = Base(size) + size =>
         virtop' - size >= virtop /\ Blk(virtop' - size) = Blk(virtop' - 1)]_vars

(* The file and the buffers together are a memory: a fetch changes no byte, *)
(* and a store through a pointer changes the byte that was fetched.        *)
Content(a) ==
  IF a \notin written THEN Unset
  ELSE IF \E b \in Bufs : vmpool[b].blk = Blk(a)
  THEN vmpool[CHOOSE b \in Bufs : vmpool[b].blk = Blk(a)].mem[Off(a)]
  ELSE disk[Blk(a)][Off(a)]
Memory == INSTANCE PlainMemory WITH
            mem <- [a \in Adrs |-> Content(a)],
            open <- [i \in Uses |-> [adr |-> ptrs[i].adr, write |-> ptrs[i].write]]
ImplementsMemory == Memory!Spec
=============================================================================
