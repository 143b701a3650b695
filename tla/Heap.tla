-------------------------------- MODULE Heap --------------------------------
(***************************************************************************)
(* The heap of libcpm (malloc.c, sbrk.c and _brk in startup.s): a ring of  *)
(* free blocks in the order of their addresses.                            *)
(*                                                                         *)
(* Memory is an array of cells of the size of a block header, HDR bytes,   *)
(* counted from an address SKEW that puts the start of the heap at the     *)
(* start of a cell.  Sizes that are passed about in bytes (the requests,   *)
(* sbrk(), _brk) are computed modulo W, as on the Z8002; HDR need not      *)
(* divide W, so once a size has wrapped around the break may lie within a  *)
(* cell.                                                                   *)
(***************************************************************************)
EXTENDS Integers, Sequences, FiniteSets
CONSTANTS
  Slots,       \* the pointers that the program keeps
  Requests,    \* the sizes it asks for, in bytes
  HDR,         \* sizeof(FB_HDR): 6
  ACHUNKS,     \* headers taken from the system at a time: 64
  AFUDGE,      \* a remainder not worth keeping: 4
  W,           \* 2^16
  START,       \* where the heap begins, in cells
  SKEW,        \* the address of cell 0
  SP, SAFETY,  \* the stack pointer, and the distance _brk keeps from it, in bytes
  None

Addr(a) == a * HDR + SKEW     \* of the first byte of cell a

ASSUME HeapAssumption ==
  /\ {HDR, ACHUNKS, AFUDGE, W, START, SKEW, SP, SAFETY} \subseteq Nat
  /\ HDR > 0 /\ ACHUNKS > 0 /\ START > 1 /\ SKEW < HDR /\ SP < W
  /\ (ACHUNKS * HDR) % 2 = 0 /\ Addr(START) % 2 = 0 /\ Addr(START) <= SP
  /\ Requests \subseteq 0 .. W - 1
  /\ None \notin [adr : Nat, n : Nat]
  /\ None \notin [adr : Nat, data : Seq([of : Slots, at : Nat])]

VARIABLES
  mem,       \* cell -> what was last written there
  aflistptr, \* where the next search begins
  brk,       \* _break, in bytes
  live,      \* slot -> None or [adr, n]: what malloc() returned, and its bytes
  stale      \* the pointers freed since memory was last given out
heap == <<mem, aflistptr, brk>>
vars == <<heap, live, stale>>

AFREEBASE == 0       \* &_afreebase: lower than the heap and of size 0
Top == W \div HDR
Hdr(p, s) == [ptr |-> p, size |-> s]       \* with its check word
Zero == [size |-> 0]
Data(s, i) == [of |-> s, at |-> i]

(* size and chksize are complements; data does not look like that.         *)
Valid(m, a) == "ptr" \in DOMAIN m[a]

(* The heap as a value: memory, ring and break.                            *)
HeapOf(m, l, b) == [mem |-> m, list |-> l, brk |-> b]
State == HeapOf(mem, aflistptr, brk)
Becomes(h) == mem' = h.mem /\ aflistptr' = h.list /\ brk' = h.brk

(* The free blocks from aflistptr on; the ring is closed after at most as  *)
(* many steps as there are headers.                                        *)
Walk(h) == LET w[i \in 0 .. Cardinality({a \in DOMAIN h.mem : Valid(h.mem, a)})] == 
                 IF i = 0 THEN h.list ELSE h.mem[w[i - 1]].ptr
           IN w
First(S) == CHOOSE i \in S : \A j \in S : i <= j
-----------------------------------------------------------------------------
(* free(): the block goes to its place in the ring, which is after pp, and *)
(* is merged with its neighbours; a block that lies in a free one already  *)
(* is left alone.                                                          *)
InPlace(m, pp, cp) ==
  LET next == m[pp].ptr IN
  \/ cp >= pp /\ cp < next
  \/ pp >= next /\ (cp <= next \/ cp >= pp)

\* mutant: the merged block keeps its own size
LinkKeepsSize(m, cp, next) ==
  IF cp + m[cp].size = next
  THEN [m EXCEPT ![cp] = Hdr(m[next].ptr, m[cp].size)]
  ELSE [m EXCEPT ![cp] = Hdr(next, m[cp].size)]
Link(m, cp, next) ==
  IF cp + m[cp].size = next
  THEN [m EXCEPT ![cp] = Hdr(m[next].ptr, m[cp].size + m[next].size)]
  ELSE [m EXCEPT ![cp] = Hdr(next, m[cp].size)]
Join(m, pp, cp) ==
  IF pp + m[pp].size = cp
  THEN [m EXCEPT ![pp] = Hdr(m[cp].ptr, m[pp].size + m[cp].size)]
  ELSE [m EXCEPT ![pp] = Hdr(cp, m[pp].size)]

Freed(h, a) ==
  LET cp == a - 1   m == h.mem   w == Walk(h)
      pp == w[First({i \in DOMAIN w : InPlace(m, w[i], cp)})]
  IN IF ~Valid(m, cp) THEN h
     ELSE IF cp >= pp /\ cp + m[cp].size <= pp + m[pp].size THEN HeapOf(m, pp, h.brk)
     ELSE HeapOf(Join(Link(m, cp, m[pp].ptr), pp, cp), pp, h.brk)

(* sbrk() clears what it gets; _brk compares with the stack.               *)
Moved(brk0, incr) == (brk0 + incr + (incr % 2)) % W
BrkOK(t) == (t + SAFETY) % W < SP

(* getmemory(): a multiple of ACHUNKS more, put into the ring as a freed   *)
(* block.                                                                  *)
ToGet(units) == ((units + ACHUNKS - 1) \div ACHUNKS) * ACHUNKS
Asked(units) == (ToGet(units) * HDR) % W
CanGet(h, units) == BrkOK(Moved(h.brk, Asked(units)))
Extended(h, units) ==
  LET cp == h.brk \div HDR
      m == [a \in DOMAIN h.mem |->
              IF a = cp THEN Hdr(0, ToGet(units))
              ELSE IF a > cp /\ a < cp + Asked(units) \div HDR THEN Zero ELSE h.mem[a]]
  IN HeapOf(m, h.list, Moved(h.brk, Asked(units)))
GetMemory(h, units) == Freed(Extended(h, units), h.brk \div HDR + 1)

(* findblock(): the first block that is large enough, after one request to *)
(* the system if the search comes round to where it began.  The result is  *)
(* the heap and the block before the one found.                            *)
Search(h, units) ==
  LET w == Walk(h)
      i == First({i \in DOMAIN w \ {0} :
                    ~Valid(h.mem, w[i]) \/ h.mem[w[i]].size >= units \/ w[i] = h.list})
  IN IF ~Valid(h.mem, w[i]) THEN "corrupt"
     ELSE IF h.mem[w[i]].size >= units THEN "found" ELSE "none"
Before(h, units) ==
  LET w == Walk(h)
  IN w[First({i \in DOMAIN w : h.mem[h.mem[w[i]].ptr].size >= units})]
Finds(h, units) ==
  \/ Search(h, units) = "found"
  \/ /\ Search(h, units) = "none" /\ CanGet(h, units)
     /\ Search(GetMemory(h, units), units) = "found"
FindBlock(h, units) ==
  LET g == IF Search(h, units) = "found" THEN h ELSE GetMemory(h, units)
  IN [h |-> g, pp |-> Before(g, units)]

(* cutup(): the front of the block, or all of it if it is little larger.   *)
Cutup(h, pp, units) ==
  LET m == h.mem   cp == m[pp].ptr   np == cp + units IN
  HeapOf(IF m[cp].size <= units + AFUDGE
         THEN [m EXCEPT ![pp] = Hdr(m[cp].ptr, m[pp].size)]
         ELSE [m EXCEPT ![np] = Hdr(m[cp].ptr, m[cp].size - units),
                        ![pp] = Hdr(np, m[pp].size), ![cp] = Hdr(m[cp].ptr, units)],
         pp, h.brk)

Nmults(n) == ((n + HDR - 1) % W) \div HDR + 1
InCells(n) == (n + HDR - 1) \div HDR
-----------------------------------------------------------------------------
Init ==
  /\ mem = [a \in 0 .. Top |-> IF a = AFREEBASE THEN Hdr(AFREEBASE, 0) ELSE Zero]
  /\ aflistptr = AFREEBASE /\ brk = Addr(START)
  /\ live = [s \in Slots |-> None] /\ stale = {}

(* The program fills what it gets.                                         *)
Fill(m, s, adr, from, n) ==
  [a \in DOMAIN m |-> IF a >= adr + from /\ a < adr + n THEN Data(s, a - adr) ELSE m[a]]

Malloc(s, n) ==
  /\ live[s] = None
  /\ LET f == FindBlock(State, Nmults(n)) IN
     IF ~Finds(State, Nmults(n)) THEN UNCHANGED vars
     ELSE LET h == Cutup(f.h, f.pp, Nmults(n))
              adr == f.h.mem[f.pp].ptr + 1
          IN /\ Becomes(HeapOf(Fill(h.mem, s, adr, 0, InCells(n)), h.list, h.brk))
             /\ live' = [live EXCEPT ![s] = [adr |-> adr, n |-> n]]
             /\ stale' = {}

Free(s) ==
  /\ live[s] /= None
  /\ Becomes(Freed(State, live[s].adr))
  /\ stale' = stale \cup {live[s].adr} /\ live' = [live EXCEPT ![s] = None]

(* A pointer that is freed again before anything has been given out.       *)
FreeAgain(a) ==
  /\ a \in stale /\ Becomes(Freed(State, a)) /\ UNCHANGED <<live, stale>>

(* realloc(): free() first, then copy siz bytes, from the end that does    *)
(* not overwrite what is still to be copied, and only then cutup().        *)
CopyTurns(m, to, from, n, up) ==
  LET c[i \in 0 .. n] ==
        IF i = 0 THEN m
        ELSE LET d == IF up THEN i - 1 ELSE n - i
                 x == IF from + d \in DOMAIN m THEN c[i - 1][from + d] ELSE Zero
             IN [c[i - 1] EXCEPT ![to + d] = x]
  IN c[n]
CopyDown(m, to, from, n) ==             \* mutant: always from the end
  IF to = from THEN m ELSE CopyTurns(m, to, from, n, FALSE)
Copy(m, to, from, n) ==
  IF to = from THEN m ELSE CopyTurns(m, to, from, n, to < from)

Realloc(s, n) ==
  /\ live[s] /= None
  /\ LET a == live[s].adr
         f == FindBlock(Freed(State, a), Nmults(n))
     IN IF ~Finds(Freed(State, a), Nmults(n))
        THEN /\ Becomes(Freed(State, a)) /\ stale' = stale \cup {a}
             /\ live' = [live EXCEPT ![s] = None]
        ELSE LET adr == f.h.mem[f.pp].ptr + 1
                 m == Copy(f.h.mem, adr, a, InCells(n))
                 h == Cutup(HeapOf(m, f.h.list, f.h.brk), f.pp, Nmults(n))
             IN /\ Becomes(HeapOf(Fill(h.mem, s, adr, InCells(live[s].n), InCells(n)), h.list, h.brk))
                /\ live' = [live EXCEPT ![s] = [adr |-> adr, n |-> n]]
                /\ stale' = {}

Next ==
  \/ \E s \in Slots, n \in Requests : Malloc(s, n) \/ Realloc(s, n)
  \/ \E s \in Slots : Free(s)
  \/ \E a \in stale : FreeAgain(a)
Spec == Init /\ [][Next]_vars
-----------------------------------------------------------------------------
Block(a) == a - 1 .. a - 2 + mem[a - 1].size
FreeBlocks == LET w == Walk(State) IN {w[i] : i \in DOMAIN w}
FreeCells(b) == b .. b + mem[b].size - 1
LiveSlots == {s \in Slots : live[s] /= None}

(* The ring is closed, its blocks are in the order of their addresses and  *)
(* have been merged where they touch; and every cell between the start of  *)
(* the heap and the break is in exactly one block, free or given out, and  *)
(* a block given out is as large as it was asked for.  So nothing leaks.   *)
HeapSound ==
  /\ \A b \in FreeBlocks : Valid(mem, b)
  /\ AFREEBASE \in FreeBlocks
  /\ \A b \in FreeBlocks : LET next == mem[b].ptr IN
       /\ next > b + mem[b].size \/ (next = AFREEBASE /\ \A c \in FreeBlocks : c <= b)
  /\ LET used == {Block(live[s].adr) : s \in LiveSlots}
         free == {FreeCells(b) : b \in FreeBlocks \ {AFREEBASE}}
     IN /\ UNION (used \cup free) = START .. brk \div HDR - 1
        /\ \A x, y \in used \cup free : x /= y => x \cap y = {}
        /\ Cardinality(used) = Cardinality(LiveSlots)
  /\ \A s \in LiveSlots : InCells(live[s].n) <= mem[live[s].adr - 1].size - 1

(* What the program holds, as areas with their contents.                   *)
Areas == [s \in Slots |->
  IF live[s] = None THEN None
  ELSE [adr |-> live[s].adr,
        data |-> [i \in 1 .. InCells(live[s].n) |-> mem[live[s].adr + i - 1]]]]
Filled == {[i \in 1 .. InCells(n) |-> Data(s, i - 1)] : n \in Requests, s \in Slots}
Abstract == INSTANCE Allocator WITH areas <- Areas, Contents <- Filled

(* malloc(), free() and realloc() implement an allocator: areas stay apart *)
(* and keep their contents, through splitting, merging, moving and through *)
(* freeing twice; only what realloc() adds is new.                         *)
ImplementsAllocator == Abstract!Spec

(* malloc.c:8: "Returns a pointer to an area of memory at least 'numbytes' *)
(* in length".                                                             *)
AreaLongEnough == \A s \in LiveSlots : Addr(live[s].adr) + live[s].n <= SP
=============================================================================
