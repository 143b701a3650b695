----------------------------- MODULE HeapProofs -----------------------------
(***************************************************************************)
(* The heap is sound and implements Allocator, whatever a program asks it  *)
(* for and whatever the size of the memory, as long as no size wraps       *)
(* around.                                                                 *)
(***************************************************************************)
EXTENDS Heap, InductionLemmas, FiniteSetTheorems, TLAPS

(* The ring: its blocks, from the lowest address (the base, of size 0) to  *)
(* the highest and back, with a gap between neighbours except after those  *)
(* in T, which are about to be merged or were just cut.                    *)
Headers == [ptr : Nat, size : Nat]
Follows(m, R, T, r) ==
  IF m[r].ptr = 0 THEN \A x \in R : x <= r
  ELSE /\ m[r].ptr > r + m[r].size \/ (r \in T /\ m[r].ptr = r + m[r].size)
       /\ \A x \in R : x <= r \/ x >= m[r].ptr
Ring(m, R, T) ==
  /\ R \subseteq 0 .. Top /\ 0 \in R
  /\ \A r \in R : m[r] \in Headers /\ m[r].ptr \in R /\ (m[r].size = 0 <=> r = 0)
  /\ \A r \in R : Follows(m, R, T, r)

(* The blocks of B fill the heap, up to the break in cell E.               *)
Tiled(m, B, E) ==
  /\ \A x \in B : /\ x \in Nat /\ START <= x /\ m[x] \in Headers
                  /\ m[x].size > 0 /\ x + m[x].size <= E
  /\ \A x, y \in B : x < y => x + m[x].size <= y
  /\ \A c \in START .. E - 1 : \E x \in B : x <= c /\ c < x + m[x].size

(* The ring R, of which those in T may touch the next, and the blocks U    *)
(* that are in use.                                                        *)
Laid(m, R, T, U, E) ==
  /\ DOMAIN m = 0 .. Top /\ E \in START .. Top
  /\ Ring(m, R, T) /\ U \cap R = {} /\ Tiled(m, (R \ {0}) \cup U, E)
SameBut(m, m2, S) == DOMAIN m2 = DOMAIN m /\ \A c \in DOMAIN m \ S : m2[c] = m[c]

(* Division, of what is computed in bytes.                                 *)
LEMMA Divides ==
  ASSUME NEW a \in Nat, NEW b \in Nat \ {0}
  PROVE  a \div b \in Nat /\ (a \div b) * b <= a /\ a < (a \div b) * b + b
<1>1. a \div b \in Nat /\ (a \div b) * b <= a /\ a < (a \div b + 1) * b
  OBVIOUS
<1> DEFINE q == a \div b
<1>2. q \in Nat
  BY <1>1
<1> HIDE DEF q
<1>3. (q + 1) * b = q * b + b
  BY <1>2
<1> QED
  BY <1>1, <1>3 DEF q

LEMMA Multiples ==
  ASSUME NEW x \in Nat, NEW y \in Nat, NEW b \in Nat \ {0}
  PROVE  /\ x * b \in Nat /\ (x + y) * b = x * b + y * b
         /\ x <= y => x * b <= y * b
         /\ x * b < y * b + b => x <= y
<1>1. \A u, v \in Nat : (u + v) * b = u * b + v * b /\ u * b \in Nat
  OBVIOUS
<1>2. ASSUME x <= y PROVE x * b <= y * b
  <2>1. y - x \in Nat /\ y = x + (y - x)
    BY <1>2
  <2>2. y * b = x * b + (y - x) * b /\ (y - x) * b \in Nat /\ x * b \in Nat
    BY <1>1, <2>1
  <2> QED
    BY <2>2
<1>3. ASSUME ~ (x <= y) PROVE ~ (x * b < y * b + b)
  <2>1. x - y - 1 \in Nat /\ y + 1 \in Nat /\ x = (y + 1) + (x - y - 1)
    BY <1>3
  <2>2. x * b = (y + 1) * b + (x - y - 1) * b /\ (x - y - 1) * b \in Nat
    BY <1>1, <2>1
  <2>3. (y + 1) * b = y * b + 1 * b /\ 1 * b = b /\ y * b \in Nat
    BY <1>1
  <2>4. (y + 1) * b \in Nat /\ x * b \in Nat
    BY <1>1
  <2> QED
    BY <2>2, <2>3, <2>4
<1> QED
  BY <1>1, <1>2, <1>3

LEMMA DivWithin ==
  ASSUME NEW x \in Nat, NEW b \in Nat \ {0}, NEW k \in 0 .. b - 1
  PROVE  (x * b + k) \div b = x
<1> DEFINE q == (x * b + k) \div b
<1>1. x * b \in Nat /\ x * b + k \in Nat
  BY Multiples
<1>2. q \in Nat /\ q * b <= x * b + k /\ x * b + k < q * b + b
  BY <1>1, Divides
<1> HIDE DEF q
<1>3. q * b \in Nat
  BY <1>2, Multiples
<1>4. q * b < x * b + b /\ x * b < q * b + b
  BY <1>1, <1>2, <1>3
<1>5. q <= x /\ x <= q
  BY <1>2, <1>4, Multiples
<1>6. q = x
  BY <1>2, <1>5
<1> QED
  BY <1>6 DEF q

LEMMA Sizes ==
  /\ Top \in Nat /\ W \in Nat /\ HDR \in Nat \ {0} /\ ACHUNKS \in Nat \ {0} /\ AFUDGE \in Nat
  /\ START \in Nat /\ START > 1 /\ SP \in Nat /\ SP < W /\ SAFETY \in Nat
<1>1. /\ W \in Nat /\ HDR \in Nat \ {0} /\ ACHUNKS \in Nat \ {0} /\ AFUDGE \in Nat
      /\ START \in Nat /\ START > 1 /\ SP \in Nat /\ SP < W /\ SAFETY \in Nat
  BY HeapAssumption
<1> QED
  BY <1>1, Divides DEF Top

(* An address below the stack lies in the memory, and in the cell that     *)
(* begins there.                                                           *)
LEMMA CellAt ==
  ASSUME NEW x \in Nat
  PROVE  Addr(x) \in Nat /\ Addr(x) \div HDR = x /\ (Addr(x) <= SP => x <= Top)
<1>1. W \in Nat /\ HDR \in Nat \ {0} /\ SP \in Nat /\ SP < W /\ SKEW \in 0 .. HDR - 1
  BY HeapAssumption
<1>2. Top \in Nat /\ Top * HDR <= W /\ W < Top * HDR + HDR
  BY <1>1, Divides DEF Top
<1>3. x * HDR \in Nat /\ Top * HDR \in Nat
  BY <1>1, <1>2, Multiples
<1>4. Addr(x) = x * HDR + SKEW /\ Addr(x) \in Nat
  BY <1>1, <1>3 DEF Addr
<1>5. Addr(x) \div HDR = x
  BY <1>1, <1>4, DivWithin
<1>6. ASSUME Addr(x) <= SP PROVE x <= Top
  <2>1. x * HDR < Top * HDR + HDR
    BY <1>1, <1>2, <1>3, <1>4, <1>6
  <2> QED
    BY <1>1, <1>2, <2>1, Multiples
<1> QED
  BY <1>4, <1>5, <1>6

(* k cells further on.                                                     *)
LEMMA Further ==
  ASSUME NEW x \in Nat, NEW k \in Nat
  PROVE  Addr(x + k) = Addr(x) + k * HDR
<1>1. HDR \in Nat \ {0} /\ SKEW \in Nat
  BY HeapAssumption
<1>2. x * HDR \in Nat /\ k * HDR \in Nat /\ (x + k) * HDR = x * HDR + k * HDR
  BY <1>1, Multiples
<1> QED
  BY <1>1, <1>2 DEF Addr

(* A part of the ring that one cannot leave is all of it.                  *)
LEMMA ClosedIsAll ==
  ASSUME NEW m, NEW R, Ring(m, R, {}), NEW V \in SUBSET R, V # {}, \A v \in V : m[v].ptr \in V
  PROVE  V = R
<1>1. R \subseteq Nat /\ \A x \in R : x <= Top
  BY Sizes DEF Ring
<1>2. \A r \in R : m[r].ptr \in R /\ m[r].size \in Nat /\ Follows(m, R, {}, r)
  BY DEF Ring, Headers
<1>3. 0 \in V
  <2>1. PICK v \in V : \A y \in V : y <= v
    BY <1>1, Sizes, NatMax
  <2>2. v \in R /\ m[v].ptr \in V /\ m[v].ptr <= v
    BY <2>1
  <2>3. m[v].ptr # 0 => m[v].ptr > v + m[v].size
    BY <1>2, <2>2 DEF Follows
  <2>4. v \in Nat /\ m[v].ptr \in Nat /\ m[v].size \in Nat
    BY <1>1, <1>2, <2>2
  <2>5. m[v].ptr = 0
    BY <2>2, <2>3, <2>4
  <2> QED
    BY <2>2, <2>5
<1> SUFFICES ASSUME R \ V # {} PROVE FALSE
  OBVIOUS
<1>4. PICK x \in R \ V : \A y \in R \ V : x <= y
  BY <1>1, NatMin
<1> DEFINE P == {y \in V : y < x}
<1>5. P \in SUBSET Nat /\ P # {} /\ x \in Nat /\ \A y \in P : y <= x
  <2>1. x \in Nat /\ x # 0 /\ 0 < x
    BY <1>1, <1>3, <1>4
  <2>2. 0 \in P
    BY <1>3, <2>1
  <2>3. \A y \in P : y \in Nat /\ y < x
    BY <1>1
  <2>4. \A y \in P : y <= x
    BY <2>1, <2>3
  <2> QED
    BY <2>1, <2>2, <2>3, <2>4
<1>6. PICK p \in P : \A y \in P : y <= p
  BY <1>5, NatMax
<1>7. p \in R /\ p \in Nat /\ x \in Nat /\ p < x /\ m[p].ptr \in V /\ m[p].ptr \in Nat /\ m[p].ptr # x
  BY <1>1, <1>4, <1>6
<1>8. m[p].ptr # 0 /\ m[p].ptr > p /\ m[p].ptr <= x
  BY <1>2, <1>4, <1>7 DEF Follows
<1>9. m[p].ptr \in P
  BY <1>7, <1>8
<1> QED
  BY <1>6, <1>7, <1>8, <1>9
-----------------------------------------------------------------------------
(* What the layout says of single blocks.                                  *)
Blocks(m, R, U, E) ==
  /\ R \subseteq Nat /\ U \subseteq Nat /\ E \in Nat /\ 0 \in R /\ 0 \notin U
  /\ \A r \in R \cup U : r \in 0 .. Top
  /\ \A r \in R : /\ m[r] \in Headers /\ m[r].ptr \in R /\ r \in 0 .. Top
                  /\ m[r].ptr \in Nat /\ m[r].size \in Nat /\ (m[r].size = 0 <=> r = 0)
  /\ \A x \in (R \ {0}) \cup U :
       /\ x \in Nat /\ START <= x /\ x > 1 /\ x < Top /\ m[x] \in Headers /\ m[x].size \in Nat
       /\ m[x].size > 0 /\ x + m[x].size <= E
  /\ \A x, y \in (R \ {0}) \cup U : x < y => x + m[x].size <= y

LEMMA BlockFacts ==
  ASSUME NEW m, NEW R, NEW T, NEW U, NEW E, Laid(m, R, T, U, E)
  PROVE  Blocks(m, R, U, E)
<1>1. /\ E \in START .. Top /\ Ring(m, R, T) /\ U \cap R = {} /\ Tiled(m, (R \ {0}) \cup U, E)
  BY DEF Laid
<1>2. E \in Nat /\ E <= Top /\ Top \in Nat /\ START \in Nat /\ START > 1
  BY <1>1, Sizes
<1>3. R \subseteq 0 .. Top /\ 0 \in R
      /\ \A r \in R : m[r] \in Headers /\ m[r].ptr \in R /\ (m[r].size = 0 <=> r = 0)
  BY <1>1 DEF Ring
<1>4. /\ \A x \in (R \ {0}) \cup U : /\ x \in Nat /\ START <= x /\ m[x] \in Headers
                  /\ m[x].size > 0 /\ x + m[x].size <= E
      /\ \A x, y \in (R \ {0}) \cup U : x < y => x + m[x].size <= y
  BY <1>1 DEF Tiled
<1>5. \A g \in Headers : g.ptr \in Nat /\ g.size \in Nat
  BY DEF Headers
<1>6. R \subseteq Nat /\ U \subseteq Nat /\ 0 \notin U
  BY <1>1, <1>2, <1>3, <1>4
<1>7. \A r \in R : /\ m[r] \in Headers /\ m[r].ptr \in R /\ r \in 0 .. Top
                         /\ m[r].ptr \in Nat /\ m[r].size \in Nat /\ (m[r].size = 0 <=> r = 0)
  BY <1>3, <1>5
<1>8. ASSUME NEW x \in (R \ {0}) \cup U
      PROVE  /\ x \in Nat /\ START <= x /\ x > 1 /\ x < Top /\ m[x] \in Headers /\ m[x].size \in Nat
             /\ m[x].size > 0 /\ x + m[x].size <= E
  <2>1. m[x] \in Headers /\ m[x].size \in Nat
    BY <1>4, <1>5
  <2> QED
    BY <1>2, <1>4, <2>1
<1>9. \A r \in R \cup U : r \in 0 .. Top
  <2>1. \A r \in U : r # 0 /\ r \in (R \ {0}) \cup U
    BY <1>6
  <2>2. \A r \in U : r \in Nat /\ r < Top
    BY <1>8, <2>1
  <2> QED
    BY <1>2, <1>3, <2>2
<1> QED
  BY <1>2, <1>3, <1>4, <1>6, <1>7, <1>8, <1>9 DEF Blocks

LEMMA SameSizes ==
  ASSUME NEW m, NEW m2, NEW B, NEW E, Tiled(m, B, E),
         \A x \in B : m2[x] \in Headers /\ m2[x].size = m[x].size
  PROVE  Tiled(m2, B, E)
BY DEF Tiled

(* A block in use becomes a free one, after p.                             *)
LEMMA Inserted ==
  ASSUME NEW m, NEW m2, NEW R, NEW U, NEW E, Laid(m, R, {}, U, E),
         NEW p \in R, NEW u \in U, p < u, m[p].ptr = 0 \/ u < m[p].ptr,
         m2[u] = Hdr(m[p].ptr, m[u].size), m2[p] = Hdr(u, m[p].size), SameBut(m, m2, {u, p})
  PROVE  Laid(m2, R \cup {u}, {u, p}, U \ {u}, E)
<1> DEFINE Q == R \cup {u}
           B == (R \ {0}) \cup U
<1> USE DEF Blocks
<1>1. Blocks(m, R, U, E)
  BY BlockFacts
<1>2. DOMAIN m = 0 .. Top /\ E \in START .. Top /\ U \cap R = {} /\ Tiled(m, B, E) /\ Top \in Nat
      /\ \A r \in R : Follows(m, R, {}, r)
  BY Sizes DEF Laid, Ring
<1>3. (Q \ {0}) \cup (U \ {u}) = B /\ u \in B /\ u \notin R /\ u \in 0 .. Top /\ u # 0
  BY <1>1, <1>2
<1>4. /\ m2[u].ptr = m[p].ptr /\ m2[u].size = m[u].size /\ m2[u] \in Headers
      /\ m2[p].ptr = u /\ m2[p].size = m[p].size /\ m2[p] \in Headers
  BY <1>1, <1>3 DEF Hdr, Headers
<1>5. \A r \in (R \cup U) \ {u, p} : m2[r] = m[r]
  <2>1. \A r \in R \cup U : r \in 0 .. Top
    BY <1>1
  <2> QED
    BY <1>2, <2>1 DEF SameBut
<1>6. Tiled(m2, B, E)
  <2>1. \A x \in B : m2[x] \in Headers /\ m2[x].size = m[x].size
    BY <1>1, <1>3, <1>4, <1>5
  <2> QED
    BY <1>2, <2>1, SameSizes
<1>7. \A r \in Q : m2[r] \in Headers /\ m2[r].ptr \in Q /\ (m2[r].size = 0 <=> r = 0)
  BY <1>1, <1>3, <1>4, <1>5
<1>8. /\ m[p].ptr = 0 => \A x \in R : x <= p
      /\ m[p].ptr # 0 => m[p].ptr > p + m[p].size /\ \A x \in R : x <= p \/ x >= m[p].ptr
  BY <1>2 DEF Follows
<1>9. ASSUME NEW r \in Q PROVE Follows(m2, Q, {u, p}, r)
  <2>1. CASE r = u
    <3>1. CASE m[p].ptr = 0
      <4>1. \A x \in Q : x <= u
        BY <1>1, <1>3, <1>8, <3>1
      <4> QED
        BY <2>1, <3>1, <4>1, <1>4 DEF Follows
    <3>2. CASE m[p].ptr # 0
      <4>1. u + m[u].size <= m[p].ptr
        BY <1>1, <1>3, <3>2
      <4>2. \A x \in Q : x <= u \/ x >= m[p].ptr
        BY <1>1, <1>3, <1>8, <3>2
      <4>3. m[p].ptr > u + m[u].size \/ m[p].ptr = u + m[u].size
        <5>1. u \in Nat /\ m[u].size \in Nat /\ m[p].ptr \in Nat
          BY <1>1, <1>3
        <5> QED
          BY <4>1, <5>1
      <4> QED
        BY <2>1, <3>2, <4>2, <4>3, <1>4 DEF Follows
    <3> QED
      BY <3>1, <3>2
  <2>2. CASE r = p
    <3>1. p + m[p].size <= u
      BY <1>1, <1>3
    <3>2. \A x \in Q : x <= p \/ x >= u
      BY <1>1, <1>3, <1>8
    <3>3. u > p + m[p].size \/ u = p + m[p].size
      BY <3>1, <1>1, <1>3
    <3> QED
      BY <2>2, <3>2, <3>3, <1>3, <1>4 DEF Follows
  <2>3. CASE r # u /\ r # p
    <3>1. r \in R /\ m2[r] = m[r] /\ Follows(m, R, {}, r) /\ r \in Nat /\ p \in Nat /\ u \in Nat
      BY <2>3, <1>1, <1>2, <1>3, <1>5
    <3>2. CASE m[r].ptr = 0
      <4>1. \A x \in R : x <= r
        BY <3>1, <3>2 DEF Follows
      <4>2. m[p].ptr # 0
        BY <1>8, <2>3, <3>1, <4>1
      <4>3. u <= r
        BY <1>1, <3>1, <4>1, <4>2
      <4> QED
        BY <3>1, <3>2, <4>1, <4>3 DEF Follows
    <3>3. CASE m[r].ptr # 0
      <4>1. m[r].ptr > r + m[r].size /\ \A x \in R : x <= r \/ x >= m[r].ptr
        BY <3>1, <3>3 DEF Follows
      <4>2. u <= r \/ u >= m[r].ptr
        <5>1. CASE p >= m[r].ptr
          BY <1>1, <3>1, <5>1
        <5>2. CASE p <= r
          <6>1. r > p
            BY <2>3, <3>1, <5>2
          <6>2. m[p].ptr # 0 /\ r >= m[p].ptr
            BY <1>8, <3>1, <6>1
          <6> QED
            BY <1>1, <3>1, <6>2
        <5> QED
          BY <4>1, <5>1, <5>2
      <4> QED
        BY <3>1, <3>3, <4>1, <4>2 DEF Follows
    <3> QED
      BY <3>2, <3>3
  <2> QED
    BY <2>1, <2>2, <2>3
<1>10. Ring(m2, Q, {u, p})
  BY <1>1, <1>3, <1>7, <1>9 DEF Ring
<1>11. DOMAIN m2 = 0 .. Top /\ (U \ {u}) \cap Q = {}
  BY <1>2 DEF SameBut
<1> QED
  BY <1>2, <1>3, <1>6, <1>10, <1>11 DEF Laid

(* A block takes in the next one, which it touches.                        *)
LEMMA Merged ==
  ASSUME NEW m, NEW m2, NEW R, NEW T, NEW U, NEW E, Laid(m, R, T, U, E),
         NEW x \in R, NEW y, y = m[x].ptr, y # 0, y = x + m[x].size, y \notin T,
         m2[x] = Hdr(m[y].ptr, m[x].size + m[y].size), SameBut(m, m2, {x})
  PROVE  Laid(m2, R \ {y}, T \ {x}, U, E)
<1> USE DEF Blocks
<1> DEFINE Q == R \ {y}
           A == (R \ {0}) \cup U
           B == (Q \ {0}) \cup U
<1>1. Blocks(m, R, U, E)
  BY BlockFacts
<1>2. DOMAIN m = 0 .. Top /\ E \in START .. Top /\ U \cap R = {} /\ Tiled(m, A, E) /\ Top \in Nat
      /\ START \in Nat /\ \A r \in R : Follows(m, R, T, r)
  BY Sizes DEF Laid, Ring
<1>3. x # 0 /\ y \in R /\ x \in A /\ y \in A /\ x \in Nat /\ y \in Nat /\ x < y /\ x \in Q /\ y # 0 /\ 0 \in Q
  <2>1. x \in Nat /\ m[x].size \in Nat /\ y \in R /\ y \in Nat
    <3>1. \A r \in R : r \in Nat /\ m[r].ptr \in R /\ m[r].ptr \in Nat /\ m[r].size \in Nat
      BY <1>1
    <3> QED
      BY <3>1
  <2>2. x # 0
    BY <1>1
  <2>3. m[x].size # 0
    BY <1>1, <2>2
  <2> QED
    BY <1>1, <2>1, <2>2, <2>3
<1> DEFINE sx == m[x].size
           sy == m[y].size
           z == m[y].ptr
<1>4. sx \in Nat /\ sy \in Nat /\ sx > 0 /\ sy > 0 /\ z \in R /\ z \in Nat
  BY <1>1, <1>3
<1>5. z # y
  <2>1. Follows(m, R, T, y)
    BY <1>2, <1>3
  <2>2. z # 0 => z > y + sy
    BY <2>1 DEF Follows
  <2> QED
    BY <1>3, <1>4, <2>2
<1>6. m2[x].ptr = z /\ m2[x].size = sx + sy /\ m2[x] \in Headers
  BY <1>4 DEF Hdr, Headers
<1>7. \A r \in (R \cup U) \ {x} : m2[r] = m[r]
  <2>1. \A r \in R \cup U : r \in 0 .. Top
    BY <1>1
  <2> QED
    BY <1>2, <2>1 DEF SameBut
<1>8. \A r \in B : r \in A /\ r # y /\ (r # x => m2[r] = m[r])
  <2>1. y \notin U
    BY <1>2, <1>3
  <2> QED
    BY <1>7, <2>1
<1>9. Tiled(m2, B, E)
  <2>1. x + (sx + sy) = y + sy /\ y + sy <= E
    BY <1>1, <1>3, <1>4
  <2>2. ASSUME NEW b \in B
        PROVE  /\ b \in Nat /\ START <= b /\ m2[b] \in Headers
               /\ m2[b].size > 0 /\ b + m2[b].size <= E
    <3>1. CASE b = x
      BY <1>1, <1>3, <1>4, <1>6, <2>1, <3>1
    <3>2. CASE b # x
      BY <1>1, <1>8, <3>2
    <3> QED
      BY <3>1, <3>2
  <2>3. ASSUME NEW b \in B, NEW c \in B, b < c PROVE b + m2[b].size <= c
    <3>1. CASE b = x
      <4>1. x + sx <= c /\ c # y /\ c \in Nat
        BY <1>1, <1>3, <1>8, <2>3, <3>1
      <4>2. y < c
        BY <4>1, <1>3
      <4>3. y + sy <= c
        BY <4>2, <1>1, <1>3, <1>8
      <4> QED
        BY <2>1, <3>1, <4>3, <1>6
    <3>2. CASE b # x
      BY <1>1, <1>8, <2>3, <3>2
    <3> QED
      BY <3>1, <3>2
  <2>4. ASSUME NEW c \in START .. E - 1
        PROVE  \E b \in B : b <= c /\ c < b + m2[b].size
    <3>1. PICK a \in A : a <= c /\ c < a + m[a].size
      BY <1>2 DEF Tiled
    <3>2. CASE a = x \/ a = y
      <4>1. x \in B /\ c \in Int
        BY <1>3, <1>2
      <4>2. x <= c
        BY <3>1, <3>2, <1>3, <4>1
      <4>3. c < x + (sx + sy)
        BY <3>1, <3>2, <1>3, <1>4, <4>1
      <4> QED
        BY <4>1, <4>2, <4>3, <1>6
    <3>3. CASE a # x /\ a # y
      <4>1. a \in B
        BY <3>3
      <4> QED
        BY <3>1, <3>3, <4>1, <1>8
    <3> QED
      BY <3>2, <3>3
  <2> HIDE DEF B
  <2> QED
    BY <2>2, <2>3, <2>4 DEF Tiled
<1>10. \A r \in Q : r = x \/ (r # x /\ r \in R /\ r # y /\ m2[r] = m[r])
  BY <1>7
<1>11. ASSUME NEW r \in Q PROVE m2[r] \in Headers /\ m2[r].ptr \in Q /\ (m2[r].size = 0 <=> r = 0)
  <2>1. CASE r = x
    BY <2>1, <1>3, <1>4, <1>5, <1>6
  <2>2. CASE r # x
    <3>1. r \in R /\ r # y /\ m2[r] = m[r] /\ Follows(m, R, T, r) /\ r \in Nat
      BY <2>2, <1>1, <1>2, <1>10
    <3>2. m[r].ptr # y
      <4> SUFFICES ASSUME m[r].ptr = y PROVE FALSE
        OBVIOUS
      <4>1. r < y /\ (x <= r \/ x >= y)
        BY <3>1, <1>1, <1>3 DEF Follows
      <4>2. x < r
        BY <4>1, <1>3, <2>2, <3>1
      <4>3. Follows(m, R, T, x) /\ r \in R
        BY <1>2, <3>1
      <4>4. r <= x \/ r >= y
        BY <4>3, <1>3 DEF Follows
      <4> QED
        BY <4>1, <4>2, <4>4, <1>3, <3>1
    <3> QED
      BY <1>1, <3>1, <3>2
  <2> QED
    BY <2>1, <2>2
<1>12. ASSUME NEW r \in Q PROVE Follows(m2, Q, T \ {x}, r)
  <2>1. CASE r = x
    <3>1. Follows(m, R, T, x) /\ Follows(m, R, T, y)
      BY <1>2, <1>3
    <3>2. \A q \in R : q <= x \/ q >= y
      BY <3>1, <1>3 DEF Follows
    <3>3. CASE z = 0
      <4>1. \A q \in R : q <= y
        BY <3>1, <3>3 DEF Follows
      <4>2. ASSUME NEW q \in Q PROVE q <= x
        <5>1. q \in Nat /\ q # y /\ q <= y /\ (q <= x \/ q >= y)
          BY <4>1, <3>2, <1>1
        <5> QED
          BY <5>1, <1>3
      <4> QED
        BY <2>1, <3>3, <4>2, <1>6 DEF Follows
    <3>4. CASE z # 0
      <4>1. z > y + sy /\ \A q \in R : q <= y \/ q >= z
        BY <3>1, <3>4 DEF Follows
      <4>2. ASSUME NEW q \in Q PROVE q <= x \/ q >= z
        <5>1. q \in Nat /\ q # y /\ (q <= y \/ q >= z) /\ (q <= x \/ q >= y)
          BY <4>1, <3>2, <1>1
        <5> QED
          BY <5>1, <1>3
      <4>3. z > x + (sx + sy)
        BY <4>1, <1>3, <1>4
      <4> QED
        BY <2>1, <3>4, <4>2, <4>3, <1>6 DEF Follows
    <3> QED
      BY <3>3, <3>4
  <2>2. CASE r # x
    <3>1. r \in R /\ m2[r] = m[r] /\ Follows(m, R, T, r) /\ \A q \in Q : q \in R
      BY <2>2, <1>2, <1>10
    <3> QED
      BY <2>2, <3>1 DEF Follows
  <2> QED
    BY <2>1, <2>2
<1>13. Ring(m2, Q, T \ {x})
  <2>1. Q \subseteq 0 .. Top
    BY <1>1
  <2> QED
    BY <1>3, <1>11, <1>12, <2>1 DEF Ring
<1>14. DOMAIN m2 = 0 .. Top /\ U \cap Q = {}
  BY <1>2 DEF SameBut
<1> QED
  BY <1>2, <1>9, <1>13, <1>14 DEF Laid

(* The block after p is taken out of the ring.                             *)
LEMMA Removed ==
  ASSUME NEW m, NEW m2, NEW R, NEW T, NEW U, NEW E, Laid(m, R, T, U, E),
         NEW p \in R, NEW c, c = m[p].ptr, c # 0, T \subseteq {c},
         m2[p] = Hdr(m[c].ptr, m[p].size), m2[c] \in Headers, m2[c].size = m[c].size,
         SameBut(m, m2, {p, c})
  PROVE  Laid(m2, R \ {c}, {}, U \cup {c}, E)
<1> USE DEF Blocks
<1> DEFINE Q == R \ {c}
           A == (R \ {0}) \cup U
<1>1. Blocks(m, R, U, E)
  BY BlockFacts
<1>2. DOMAIN m = 0 .. Top /\ E \in START .. Top /\ U \cap R = {} /\ Tiled(m, A, E) /\ Top \in Nat
      /\ \A r \in R : Follows(m, R, T, r)
  BY Sizes DEF Laid, Ring
<1>3. c \in R /\ c \in Nat /\ c \in A /\ p \in Nat /\ 0 \in Q /\ (Q \ {0}) \cup (U \cup {c}) = A
  BY <1>1
<1>4. p < c /\ \A q \in R : q <= p \/ q >= c
  <2>1. Follows(m, R, T, p)
    BY <1>2
  <2>2. \A q \in R : q <= p \/ q >= c
    BY <2>1 DEF Follows
  <2>3. m[p].size \in Nat
    BY <1>1
  <2>4. c > p + m[p].size \/ (p = c /\ c = p + m[p].size)
    BY <2>1 DEF Follows
  <2>5. c = p => m[p].size # 0
    BY <1>1
  <2> QED
    BY <1>3, <2>2, <2>3, <2>4, <2>5
<1> DEFINE z == m[c].ptr
<1>5. z \in R /\ z \in Nat /\ m[p].size \in Nat /\ m[c].size \in Nat /\ m[c].size > 0
  BY <1>1, <1>3
<1>6. m2[p].ptr = z /\ m2[p].size = m[p].size /\ m2[p] \in Headers
  BY <1>5 DEF Hdr, Headers
<1>7. \A r \in (R \cup U) \ {p, c} : m2[r] = m[r]
  <2>1. \A r \in R \cup U : r \in 0 .. Top
    BY <1>1
  <2> QED
    BY <1>2, <2>1 DEF SameBut
<1>8. Tiled(m2, A, E)
  <2>1. \A x \in A : m2[x] \in Headers /\ m2[x].size = m[x].size
    BY <1>1, <1>6, <1>7
  <2> HIDE DEF A
  <2> QED
    BY <1>2, <2>1, SameSizes
<1>9. \A r \in Q : r = p \/ (r # p /\ r \in R /\ r # c /\ m2[r] = m[r])
  BY <1>7
<1>10. Follows(m, R, T, c)
  BY <1>2, <1>3
<1>11. z # c
  <2>1. c \in Nat /\ m[c].size \in Nat /\ m[c].size > 0 /\ (z = 0 \/ z > c + m[c].size \/ z = c + m[c].size)
    BY <1>3, <1>5, <1>10 DEF Follows
  <2> QED
    BY <2>1, <1>3, <1>5
<1>12. ASSUME NEW r \in Q PROVE m2[r] \in Headers /\ m2[r].ptr \in Q /\ (m2[r].size = 0 <=> r = 0)
  <2>1. CASE r = p
    BY <2>1, <1>1, <1>5, <1>6, <1>11
  <2>2. CASE r # p
    <3>1. r \in R /\ r # c /\ m2[r] = m[r] /\ Follows(m, R, T, r) /\ r \in Nat
      BY <2>2, <1>1, <1>2, <1>9
    <3>2. m[r].ptr # c
      <4> SUFFICES ASSUME m[r].ptr = c PROVE FALSE
        OBVIOUS
      <4>1. c > r /\ (p <= r \/ p >= c)
        <5>1. m[r].size \in Nat
          BY <3>1, <1>1
        <5>2. c > r + m[r].size \/ c = r + m[r].size
          BY <3>1 DEF Follows
        <5>3. c # r
          BY <3>1
        <5>4. p <= r \/ p >= c
          BY <3>1 DEF Follows
        <5> QED
          BY <5>1, <5>2, <5>3, <5>4, <3>1, <1>3
      <4>2. r <= p \/ r >= c
        BY <1>4, <3>1
      <4> QED
        BY <4>1, <4>2, <1>3, <1>4, <2>2, <3>1
    <3> QED
      BY <1>1, <3>1, <3>2
  <2> QED
    BY <2>1, <2>2
<1>13. ASSUME NEW r \in Q PROVE Follows(m2, Q, {}, r)
  <2>1. CASE r = p
    <3>1. CASE z = 0
      <4>1. ASSUME NEW q \in Q PROVE q <= p
        <5>1. q \in Nat /\ q # c /\ q <= c /\ (q <= p \/ q >= c)
          BY <1>1, <1>4, <1>10, <3>1 DEF Follows
        <5> QED
          BY <5>1, <1>3
      <4> QED
        BY <2>1, <3>1, <4>1, <1>6 DEF Follows
    <3>2. CASE z # 0
      <4>1. ASSUME NEW q \in Q PROVE q <= p \/ q >= z
        <5>1. q \in Nat /\ q # c /\ (q <= c \/ q >= z) /\ (q <= p \/ q >= c)
          BY <1>1, <1>4, <1>10, <3>2 DEF Follows
        <5> QED
          BY <5>1, <1>3
      <4>2. c < z
        <5>1. z > c + m[c].size \/ z = c + m[c].size
          BY <1>10, <3>2 DEF Follows
        <5> QED
          BY <5>1, <1>3, <1>5
      <4>3. p + m[p].size <= c
        <5>1. CASE p = 0
          <6>1. m[p].size = 0
            BY <1>1, <5>1
          <6> QED
            BY <5>1, <6>1, <1>3
        <5>2. CASE p # 0
          BY <1>1, <1>3, <1>4, <5>2
        <5> QED
          BY <5>1, <5>2
      <4>4. z > p + m[p].size
        BY <4>2, <4>3, <1>3, <1>5
      <4> QED
        BY <2>1, <3>2, <4>1, <4>4, <1>6 DEF Follows
    <3> QED
      BY <3>1, <3>2
  <2>2. CASE r # p
    <3>1. r \in R /\ r # c /\ r \notin T /\ m2[r] = m[r] /\ Follows(m, R, T, r) /\ \A q \in Q : q \in R
      BY <2>2, <1>2, <1>9
    <3> QED
      BY <2>2, <3>1 DEF Follows
  <2> QED
    BY <2>1, <2>2
<1>14. Ring(m2, Q, {})
  <2>1. Q \subseteq 0 .. Top
    BY <1>1
  <2> QED
    BY <1>3, <1>12, <1>13, <2>1 DEF Ring
<1>15. DOMAIN m2 = 0 .. Top /\ (U \cup {c}) \cap Q = {}
  BY <1>2 DEF SameBut
<1> QED
  BY <1>2, <1>3, <1>8, <1>14, <1>15 DEF Laid

(* A free block is cut in two.                                             *)
LEMMA Split ==
  ASSUME NEW m, NEW m2, NEW R, NEW U, NEW E, Laid(m, R, {}, U, E),
         NEW c \in R, c # 0, NEW k \in Nat, 0 < k, k < m[c].size,
         m2[c + k] = Hdr(m[c].ptr, m[c].size - k), m2[c] = Hdr(c + k, k), SameBut(m, m2, {c, c + k})
  PROVE  Laid(m2, R \cup {c + k}, {c}, U, E)
<1> USE DEF Blocks
<1> DEFINE q == c + k
           Q == R \cup {q}
           A == (R \ {0}) \cup U
           B == (Q \ {0}) \cup U
<1>1. Blocks(m, R, U, E)
  BY BlockFacts
<1>2. DOMAIN m = 0 .. Top /\ E \in START .. Top /\ U \cap R = {} /\ Tiled(m, A, E) /\ Top \in Nat
      /\ START \in Nat /\ \A r \in R : Follows(m, R, {}, r)
  BY Sizes DEF Laid, Ring
<1> DEFINE s == m[c].size
           z == m[c].ptr
<1>3. c \in Nat /\ c \in A /\ s \in Nat /\ z \in Nat /\ z \in R /\ START <= c /\ c + s <= E
  BY <1>1
<1>4. q \in Nat /\ c < q /\ q < c + s /\ q <= E /\ START <= q /\ q # 0 /\ q \in 0 .. Top /\ c + k + (s - k) = c + s
  <2>1. E \in Nat /\ E <= Top /\ START \in Nat /\ Top \in Nat
    BY <1>2
  <2>2. k \in Nat /\ k > 0 /\ k < s
    OBVIOUS
  <2> HIDE DEF s, z
  <2> QED
    BY <2>1, <2>2, <1>3
<1>5. q \notin A /\ q \notin R
  <2>1. q \notin A
    <3> SUFFICES ASSUME q \in A PROVE FALSE
      OBVIOUS
    <3>1. c + s <= q
      BY <1>1, <1>3, <1>4
    <3> QED
      BY <3>1, <1>3, <1>4
  <2> QED
    BY <2>1, <1>4
<1>6. /\ m2[q].ptr = z /\ m2[q].size = s - k /\ m2[q] \in Headers /\ m2[q].size > 0
      /\ m2[c].ptr = q /\ m2[c].size = k /\ m2[c] \in Headers
  <2>1. s - k \in Nat /\ s - k > 0
    BY <1>3
  <2> QED
    BY <1>3, <1>4, <2>1 DEF Hdr, Headers
<1>7. \A r \in (R \cup U) \ {c} : m2[r] = m[r]
  <2>1. \A r \in R \cup U : r \in 0 .. Top /\ r # q
    BY <1>1, <1>5, <1>4
  <2> QED
    BY <1>2, <2>1 DEF SameBut
<1>8. \A r \in B : r = q \/ r = c \/ (r # q /\ r # c /\ r \in A /\ m2[r] = m[r])
  BY <1>7
<1>9. ASSUME NEW x \in A, x # c PROVE x \in Nat /\ m[x].size \in Nat /\ (x + m[x].size <= c \/ c + s <= x)
  <2>1. x \in Nat /\ m[x].size \in Nat
    BY <1>1
  <2>2. x < c \/ c < x
    BY <1>3, <1>9, <2>1
  <2> QED
    BY <1>1, <1>3, <2>1, <2>2
<1>10. Tiled(m2, B, E)
  <2>1. ASSUME NEW b \in B
        PROVE  /\ b \in Nat /\ START <= b /\ m2[b] \in Headers
               /\ m2[b].size > 0 /\ b + m2[b].size <= E
    <3>1. CASE b = q
      <4>1. q + (s - k) <= E
        BY <1>2, <1>3, <1>4
      <4> QED
        BY <3>1, <4>1, <1>4, <1>6
    <3>2. CASE b = c
      <4>1. c + k <= E
        BY <1>4
      <4> QED
        BY <3>2, <4>1, <1>3, <1>6
    <3>3. CASE b # q /\ b # c
      BY <3>3, <1>1, <1>8
    <3> QED
      BY <3>1, <3>2, <3>3
  <2>2. ASSUME NEW b \in B, NEW d \in B, b < d PROVE b + m2[b].size <= d
    <3>1. CASE b = c
      <4>1. d = q \/ (d \in A /\ d # c)
        BY <1>3, <1>8, <2>2, <3>1
      <4>2. CASE d = q
        BY <3>1, <4>2, <1>6, <1>4
      <4>3. CASE d \in A /\ d # c
        <5>1. d \in Nat /\ m[d].size \in Nat /\ (d + m[d].size <= c \/ c + s <= d)
          BY <4>3, <1>9
        <5> QED
          BY <5>1, <2>2, <3>1, <1>3, <1>6
      <4> QED
        BY <4>1, <4>2, <4>3
    <3>2. CASE b = q
      <4>1. d \in A /\ d # c
        BY <1>3, <1>4, <1>8, <2>2, <3>2
      <4>2. d \in Nat /\ m[d].size \in Nat /\ (d + m[d].size <= c \/ c + s <= d)
        BY <4>1, <1>9
      <4>3. q + (s - k) <= d
        BY <4>2, <2>2, <3>2, <1>3, <1>4
      <4> QED
        BY <4>3, <3>2, <1>6
    <3>3. CASE b # q /\ b # c
      <4>1. b \in A /\ m2[b] = m[b] /\ b \in Nat /\ m[b].size \in Nat /\ (b + m[b].size <= c \/ c + s <= b)
        BY <3>3, <1>8, <1>9
      <4>2. CASE d = q
        BY <4>1, <4>2, <2>2, <1>3, <1>4
      <4>3. CASE d # q
        <5>1. d \in A
          BY <4>3, <1>3, <1>8
        <5> QED
          BY <4>1, <5>1, <1>1, <2>2
      <4> QED
        BY <4>2, <4>3
    <3> QED
      BY <3>1, <3>2, <3>3
  <2>3. ASSUME NEW x \in START .. E - 1
        PROVE  \E b \in B : b <= x /\ x < b + m2[b].size
    <3>1. PICK a \in A : a <= x /\ x < a + m[a].size
      BY <1>2 DEF Tiled
    <3>2. x \in Int
      BY <1>2
    <3>3. CASE a = c
      <4>1. CASE x < q
        <5>1. c \in B /\ c <= x /\ x < c + k
          BY <3>1, <3>3, <4>1, <1>3
        <5> QED
          BY <5>1, <1>6
      <4>2. CASE ~ (x < q)
        <5>1. q \in B
          BY <1>4
        <5>2. q <= x /\ x < q + (s - k)
          BY <3>1, <3>2, <3>3, <4>2, <1>3, <1>4
        <5> QED
          BY <5>1, <5>2, <1>6
      <4> QED
        BY <4>1, <4>2
    <3>4. CASE a # c
      <4>1. a \in B /\ m2[a] = m[a]
        BY <3>4, <1>5, <1>8
      <4> QED
        BY <3>1, <4>1
    <3> QED
      BY <3>3, <3>4
  <2> HIDE DEF B
  <2> QED
    BY <2>1, <2>2, <2>3 DEF Tiled
<1>11. \A r \in Q : r = q \/ r = c \/ (r # q /\ r # c /\ r \in R /\ m2[r] = m[r])
  BY <1>7
<1>12. Follows(m, R, {}, c)
  BY <1>2
<1>13. ASSUME NEW r \in Q PROVE m2[r] \in Headers /\ m2[r].ptr \in Q /\ (m2[r].size = 0 <=> r = 0)
  BY <1>1, <1>3, <1>4, <1>6, <1>11
<1>14. ASSUME NEW r \in Q PROVE Follows(m2, Q, {c}, r)
  <2>1. CASE r = c
    <3>1. ASSUME NEW x \in Q PROVE x <= c \/ x >= q
      <4>1. CASE x = q
        BY <4>1, <1>4
      <4>2. CASE x # q
        <5>1. x \in R /\ x \in Nat /\ (z = 0 => x <= c) /\ (z # 0 => (x <= c \/ x >= z) /\ z > c + s)
          BY <4>2, <1>1, <1>12 DEF Follows
        <5> QED
          BY <5>1, <1>3, <1>4
      <4> QED
        BY <4>1, <4>2
    <3>2. q # 0 /\ q = c + k
      BY <1>4
    <3> QED
      BY <2>1, <3>1, <3>2, <1>6 DEF Follows
  <2>2. CASE r = q
    <3>1. CASE z = 0
      <4>1. ASSUME NEW x \in Q PROVE x <= q
        <5>1. CASE x = q
          BY <5>1, <1>4
        <5>2. CASE x # q
          <6>1. x \in Nat /\ x <= c
            BY <5>2, <3>1, <1>1, <1>12 DEF Follows
          <6> QED
            BY <6>1, <1>3, <1>4
        <5> QED
          BY <5>1, <5>2
      <4> QED
        BY <2>2, <3>1, <4>1, <1>6 DEF Follows
    <3>2. CASE z # 0
      <4>1. z > c + s /\ \A x \in R : x <= c \/ x >= z
        BY <3>2, <1>12 DEF Follows
      <4>2. ASSUME NEW x \in Q PROVE x <= q \/ x >= z
        <5>1. CASE x = q
          BY <5>1, <1>4
        <5>2. CASE x # q
          <6>1. x \in Nat /\ (x <= c \/ x >= z)
            BY <5>2, <4>1, <1>1
          <6> QED
            BY <6>1, <1>3, <1>4
        <5> QED
          BY <5>1, <5>2
      <4>3. z > q + (s - k)
        BY <4>1, <1>3, <1>4
      <4> QED
        BY <2>2, <3>2, <4>2, <4>3, <1>6 DEF Follows
    <3> QED
      BY <3>1, <3>2
  <2>3. CASE r # c /\ r # q
    <3>1. r \in R /\ m2[r] = m[r] /\ Follows(m, R, {}, r) /\ r \in Nat
      BY <2>3, <1>1, <1>2, <1>11
    <3>2. CASE m[r].ptr = 0
      <4>1. \A x \in R : x <= r
        BY <3>1, <3>2 DEF Follows
      <4>2. c < r
        BY <4>1, <2>3, <3>1, <1>3
      <4>3. q <= r
        <5>1. r \in A
          BY <3>1, <4>2, <1>3
        <5>2. c + s <= r
          BY <1>1, <1>3, <4>2, <5>1
        <5> QED
          BY <5>2, <1>3, <1>4, <3>1
      <4>4. \A x \in Q : x <= r
        BY <4>1, <4>3
      <4> QED
        BY <3>1, <3>2, <4>4 DEF Follows
    <3>3. CASE m[r].ptr # 0
      <4>1. m[r].ptr > r + m[r].size /\ \A x \in R : x <= r \/ x >= m[r].ptr
        BY <3>1, <3>3 DEF Follows
      <4>2. q <= r \/ q >= m[r].ptr
        <5>1. CASE c <= r
          <6>1. c < r
            BY <2>3, <3>1, <5>1, <1>3
          <6>2. r \in A
            BY <3>1, <6>1, <1>3
          <6>3. c + s <= r
            BY <1>1, <1>3, <6>1, <6>2
          <6> QED
            BY <6>3, <1>3, <1>4, <3>1
        <5>2. CASE c >= m[r].ptr
          <6>1. m[r].ptr \in Nat
            BY <1>1, <3>1
          <6> QED
            BY <5>2, <6>1, <1>3, <1>4
        <5> QED
          BY <4>1, <5>1, <5>2
      <4>3. \A x \in Q : x <= r \/ x >= m[r].ptr
        BY <4>1, <4>2
      <4> QED
        BY <3>1, <3>3, <4>1, <4>3 DEF Follows
    <3> QED
      BY <3>2, <3>3
  <2> QED
    BY <2>1, <2>2, <2>3
<1>15. Ring(m2, Q, {c})
  <2>1. Q \subseteq 0 .. Top
    BY <1>1, <1>4
  <2> QED
    BY <1>1, <1>13, <1>14, <2>1 DEF Ring
<1>16. DOMAIN m2 = 0 .. Top /\ U \cap Q = {}
  <2>1. q \notin U
    BY <1>5
  <2> QED
    BY <1>2, <2>1 DEF SameBut
<1> QED
  BY <1>2, <1>10, <1>15, <1>16 DEF Laid

(* What the program writes does not matter, as long as it keeps away from  *)
(* the headers.                                                            *)
LEMMA Written ==
  ASSUME NEW m, NEW m2, NEW R, NEW T, NEW U, NEW E, Laid(m, R, T, U, E),
         DOMAIN m2 = DOMAIN m, \A c \in R \cup U : m2[c] = m[c]
  PROVE  Laid(m2, R, T, U, E)
<1>1. Ring(m, R, T) /\ Tiled(m, (R \ {0}) \cup U, E)
  BY DEF Laid
<1>2. \A x \in (R \ {0}) \cup U : m2[x] \in Headers /\ m2[x].size = m[x].size
  BY <1>1 DEF Tiled
<1>3. Tiled(m2, (R \ {0}) \cup U, E)
  BY <1>1, <1>2, SameSizes
<1>4. Ring(m2, R, T)
  <2>1. \A r \in R : m2[r] = m[r]
    OBVIOUS
  <2>2. \A r \in R : Follows(m2, R, T, r)
    BY <1>1, <2>1 DEF Ring, Follows
  <2> QED
    BY <1>1, <2>1, <2>2 DEF Ring
<1> QED
  BY <1>3, <1>4 DEF Laid

(* No header lies inside a block.                                          *)
LEMMA NoneInside ==
  ASSUME NEW m, NEW R, NEW T, NEW U, NEW E, Laid(m, R, T, U, E),
         NEW x \in (R \ {0}) \cup U, NEW c \in Int, x < c, c < x + m[x].size
  PROVE  c \notin R \cup U /\ c \in 0 .. Top
<1> USE DEF Blocks
<1>1. Blocks(m, R, U, E) /\ E <= Top /\ E \in Nat /\ Top \in Nat
  <2>1. Blocks(m, R, U, E)
    BY BlockFacts
  <2>2. E \in START .. Top
    BY DEF Laid
  <2> QED
    BY <2>1, <2>2, Sizes
<1>2. x \in Nat /\ m[x].size \in Nat /\ x + m[x].size <= E
  BY <1>1
<1>3. c # 0 /\ c \in 0 .. Top
  BY <1>1, <1>2
<1>4. c \notin (R \ {0}) \cup U
  <2> SUFFICES ASSUME c \in (R \ {0}) \cup U PROVE FALSE
    OBVIOUS
  <2>1. x + m[x].size <= c
    BY <1>1
  <2> QED
    BY <1>2, <2>1
<1> QED
  BY <1>3, <1>4

(* The break moves up: there is one more block.                            *)
LEMMA Grown ==
  ASSUME NEW m, NEW m2, NEW R, NEW U, NEW E, Laid(m, R, {}, U, E),
         NEW k \in Nat, k > 0, E + k <= Top,
         DOMAIN m2 = DOMAIN m, m2[E] = Hdr(0, k), \A c \in DOMAIN m : c < E => m2[c] = m[c]
  PROVE  Laid(m2, R, {}, U \cup {E}, E + k)
<1> USE DEF Blocks
<1> DEFINE A == (R \ {0}) \cup U
           B == (R \ {0}) \cup (U \cup {E})
<1>1. Blocks(m, R, U, E)
  BY BlockFacts
<1>2. DOMAIN m = 0 .. Top /\ E \in START .. Top /\ U \cap R = {} /\ Tiled(m, A, E) /\ Top \in Nat
      /\ START \in Nat /\ START > 1 /\ E \in Nat /\ START <= E /\ Ring(m, R, {})
  BY Sizes DEF Laid
<1>3. \A x \in R \cup U : x < E /\ m2[x] = m[x]
  <2>1. ASSUME NEW x \in R \cup U PROVE x < E
    <3>1. CASE x = 0
      BY <3>1, <1>2
    <3>2. CASE x # 0
      <4>1. x \in A
        BY <3>2
      <4>2. x \in Nat /\ m[x].size \in Nat /\ m[x].size > 0 /\ x + m[x].size <= E
        BY <1>1, <4>1
      <4> QED
        BY <1>2, <4>2
    <3> QED
      BY <3>1, <3>2
  <2>2. \A x \in R \cup U : x \in 0 .. Top
    BY <1>1
  <2> QED
    BY <1>2, <2>1, <2>2
<1>4. E \notin R /\ E \notin U
  BY <1>2, <1>3
<1>5. Ring(m2, R, {})
  <2>1. \A r \in R : m2[r] = m[r]
    BY <1>3
  <2>2. \A r \in R : Follows(m2, R, {}, r)
    BY <1>2, <2>1 DEF Ring, Follows
  <2> QED
    BY <1>2, <2>1, <2>2 DEF Ring
<1>6. m2[E] \in Headers /\ m2[E].size = k
  BY DEF Hdr, Headers
<1>7. Tiled(m2, B, E + k)
  <2>1. \A b \in B : b = E \/ (b # E /\ b \in A /\ m2[b] = m[b] /\ b < E)
    BY <1>3, <1>4
  <2>2. ASSUME NEW b \in B
        PROVE  /\ b \in Nat /\ START <= b /\ m2[b] \in Headers
               /\ m2[b].size > 0 /\ b + m2[b].size <= E + k
    <3>1. CASE b = E
      BY <3>1, <1>2, <1>6
    <3>2. CASE b # E
      <4>1. b \in A /\ m2[b] = m[b]
        BY <2>1, <3>2
      <4>2. b \in Nat /\ START <= b /\ m[b] \in Headers /\ m[b].size \in Nat /\ m[b].size > 0 /\ b + m[b].size <= E
        BY <1>1, <4>1
      <4> QED
        BY <4>1, <4>2, <1>2
    <3> QED
      BY <3>1, <3>2
  <2>3. ASSUME NEW b \in B, NEW d \in B, b < d PROVE b + m2[b].size <= d
    <3>1. b # E
      <4> SUFFICES ASSUME b = E PROVE FALSE
        OBVIOUS
      <4>1. d \in A /\ d < E
        BY <2>1, <2>3, <1>2
      <4>2. d \in Nat
        BY <1>1, <4>1
      <4> QED
        BY <2>3, <4>1, <4>2, <1>2
    <3>2. b \in A /\ m2[b] = m[b]
      BY <2>1, <3>1
    <3>3. CASE d = E
      BY <1>1, <3>2, <3>3
    <3>4. CASE d # E
      <4>1. d \in A
        BY <2>1, <3>4
      <4> QED
        BY <1>1, <2>3, <3>2, <4>1
    <3> QED
      BY <3>3, <3>4
  <2>4. ASSUME NEW x \in START .. (E + k) - 1
        PROVE  \E b \in B : b <= x /\ x < b + m2[b].size
    <3>1. CASE x < E
      <4>1. x \in START .. E - 1
        BY <3>1, <1>2
      <4>2. PICK a \in A : a <= x /\ x < a + m[a].size
        BY <1>2, <4>1 DEF Tiled
      <4>3. a \in B /\ m2[a] = m[a]
        BY <1>3
      <4> QED
        BY <4>2, <4>3
    <3>2. CASE ~ (x < E)
      <4>1. E \in B /\ E <= x /\ x < E + k
        BY <3>2, <1>2
      <4> QED
        BY <4>1, <1>6
    <3> QED
      BY <3>1, <3>2
  <2> DEFINE F == E + k
  <2>5. \A x \in START .. F - 1 : \E b \in B : b <= x /\ x < b + m2[b].size
    BY <2>4
  <2>6. \A b \in B : /\ b \in Nat /\ START <= b /\ m2[b] \in Headers
                    /\ m2[b].size > 0 /\ b + m2[b].size <= F
    BY <2>2
  <2> HIDE DEF B, F
  <2>7. Tiled(m2, B, F)
    BY <2>3, <2>5, <2>6 DEF Tiled
  <2> QED
    BY <2>7 DEF F
<1>8. E + k \in START .. Top /\ (U \cup {E}) \cap R = {}
  BY <1>2, <1>4
<1> QED
  BY <1>2, <1>5, <1>7, <1>8 DEF Laid

-----------------------------------------------------------------------------
(* The walk along the ring.                                                *)
Steps(w, n, m, l) == w = [i \in 0 .. n |-> IF i = 0 THEN l ELSE m[w[i - 1]].ptr]

LEMMA WalkExists ==
  ASSUME NEW m, NEW l, NEW n \in Nat
  PROVE  \E w : Steps(w, n, m, l)
<1> DEFINE T == {k \in Nat : \E w : Steps(w, k, m, l)}
<1>1. 0 \in T
  <2> DEFINE w == [i \in 0 .. 0 |-> l]
  <2>1. w = [i \in 0 .. 0 |-> IF i = 0 THEN l ELSE m[w[i - 1]].ptr]
    OBVIOUS
  <2> HIDE DEF w
  <2> QED
    BY <2>1 DEF Steps
<1>2. ASSUME NEW k \in Nat, k \in T PROVE k + 1 \in T
  <2>1. PICK w : Steps(w, k, m, l)
    BY <1>2
  <2> DEFINE new == m[w[k]].ptr
             q == [i \in 0 .. k + 1 |-> IF i = k + 1 THEN new ELSE w[i]]
  <2>2. ASSUME NEW i \in 0 .. k + 1
        PROVE  q[i] = IF i = 0 THEN l ELSE m[q[i - 1]].ptr
    <3>1. CASE i = k + 1
      <4>1. q[i] = new /\ q[i - 1] = w[k] /\ i # 0
        <5> HIDE DEF new
        <5> QED
          BY <3>1
      <4> QED
        BY <3>1, <4>1
    <3>2. CASE i # k + 1
      <4>1. i \in 0 .. k /\ q[i] = w[i] /\ (i # 0 => q[i - 1] = w[i - 1])
        <5> HIDE DEF new
        <5> QED
          BY <3>2
      <4>2. w[i] = IF i = 0 THEN l ELSE m[w[i - 1]].ptr
        BY <2>1, <4>1 DEF Steps
      <4> QED
        BY <4>1, <4>2
    <3> QED
      BY <3>1, <3>2
  <2>3. q = [i \in 0 .. k + 1 |-> q[i]]
    OBVIOUS
  <2> HIDE DEF q
  <2>4. Steps(q, k + 1, m, l)
    BY <2>2, <2>3 DEF Steps
  <2> QED
    BY <2>4
<1>3. Nat \subseteq T
  <2> HIDE DEF T
  <2> QED
    BY <1>1, <1>2, NatSetInduction
<1> QED
  BY <1>3

Valids(h) == {a \in DOMAIN h.mem : Valid(h.mem, a)}
LEMMA WalkSteps ==
  ASSUME NEW h, Cardinality(Valids(h)) \in Nat
  PROVE  Steps(Walk(h), Cardinality(Valids(h)), h.mem, h.list)
<1>1. \E w : Steps(w, Cardinality(Valids(h)), h.mem, h.list)
  BY WalkExists
<1> QED
  BY <1>1 DEF Walk, Steps, Valids

(* It takes in the whole ring, and comes back to where it began.           *)
Rounds(w, N, m, l, R) ==
  /\ DOMAIN w = 0 .. N /\ w[0] = l
  /\ \A i \in 0 .. N : w[i] \in R
  /\ \A i \in 1 .. N : w[i] = m[w[i - 1]].ptr
  /\ \A r \in R : \E i \in 1 .. N : w[i] = r

LEMMA WalkRounds ==
  ASSUME NEW h, NEW R, DOMAIN h.mem = 0 .. Top, Ring(h.mem, R, {}), h.list \in R
  PROVE  \E N \in Nat : Rounds(Walk(h), N, h.mem, h.list, R)
<1> DEFINE m == h.mem
           w == Walk(h)
           N == Cardinality(Valids(h))
           K == Cardinality(R)
<1>1. R \subseteq 0 .. Top /\ \A r \in R : m[r] \in Headers /\ m[r].ptr \in R
  BY DEF Ring
<1>2. IsFiniteSet(Valids(h)) /\ N \in Nat /\ R \in SUBSET Valids(h)
  <2>1. IsFiniteSet(0 .. Top)
    BY Sizes, FS_Interval
  <2>2. Valids(h) \in SUBSET (0 .. Top)
    BY DEF Valids
  <2>3. IsFiniteSet(Valids(h))
    BY <2>1, <2>2, FS_Subset
  <2>4. \A g \in Headers : "ptr" \in DOMAIN g
    BY DEF Headers
  <2>5. R \subseteq Valids(h)
    BY <1>1, <2>4 DEF Valids, Valid
  <2> QED
    BY <2>3, <2>5, FS_CardinalityType
<1>3. IsFiniteSet(R) /\ K \in Nat /\ K <= N
  BY <1>2, FS_Subset, FS_CardinalityType
<1>4. Steps(w, N, m, h.list)
  BY <1>2, WalkSteps
<1> HIDE DEF w, N, K, m
<1>5. DOMAIN w = 0 .. N /\ w[0] = h.list /\ \A i \in 1 .. N : w[i] = m[w[i - 1]].ptr
  BY <1>2, <1>4 DEF Steps
<1>6. \A i \in 0 .. N : w[i] \in R
  <2> DEFINE S == {i \in Nat : i <= N => w[i] \in R}
  <2>1. 0 \in S
    BY <1>5
  <2>2. \A i \in Nat : i \in S => i + 1 \in S
    <3> SUFFICES ASSUME NEW i \in Nat, i \in S, i + 1 <= N PROVE w[i + 1] \in R
      OBVIOUS
    <3>1. w[i] \in R
      BY <1>2
    <3>2. i + 1 \in 1 .. N /\ (i + 1) - 1 = i
      BY <1>2
    <3>3. w[i + 1] = m[w[i]].ptr
      BY <1>5, <3>2
    <3> QED
      BY <1>1, <3>1, <3>3
  <2>3. Nat \subseteq S
    <3> HIDE DEF S
    <3> QED
      BY <2>1, <2>2, NatSetInduction
  <2> QED
    BY <2>3, <1>2
<1>7. \E i, j \in 0 .. K : i < j /\ w[i] = w[j]
  <2> DEFINE f == [i \in 0 .. K |-> w[i]]
  <2>1. IsFiniteSet(0 .. K) /\ Cardinality(0 .. K) = K + 1
    BY <1>3, FS_Interval
  <2>2. f \in [0 .. K -> R]
    BY <1>2, <1>3, <1>6
  <2>3. K < Cardinality(0 .. K)
    BY <1>3, <2>1
  <2>4. \E x, y \in 0 .. K : x # y /\ f[x] = f[y]
    <3> HIDE DEF f
    <3> QED
      BY <1>3, <2>1, <2>2, <2>3, FS_PigeonHole DEF K
  <2>5. PICK x \in 0 .. K, y \in 0 .. K : x # y /\ f[x] = f[y]
    BY <2>4
  <2>6. w[x] = w[y] /\ (x < y \/ y < x)
    BY <2>5, <1>3
  <2> QED
    BY <2>6
<1>8. PICK i \in 0 .. K, j \in 0 .. K : i < j /\ w[i] = w[j]
  BY <1>7
<1>9. i \in Nat /\ j \in Nat /\ j <= N /\ 1 <= j /\ i + 1 \in 1 .. j
  BY <1>2, <1>3, <1>8
<1> DEFINE V == {w[k] : k \in 1 .. j}
<1>10. V = R
  <2>1. V \in SUBSET R
    BY <1>2, <1>6, <1>9
  <2>2. w[j] \in V
    BY <1>9
  <2>3. ASSUME NEW v \in V PROVE m[v].ptr \in V
    <3>1. PICK k \in 1 .. j : v = w[k]
      OBVIOUS
    <3>2. CASE k = j
      <4>1. i + 1 \in 1 .. N /\ (i + 1) - 1 = i
        BY <1>2, <1>9
      <4>2. w[i + 1] = m[w[i]].ptr
        BY <1>5, <4>1
      <4>3. w[i + 1] = m[v].ptr
        BY <4>2, <3>1, <3>2, <1>8
      <4> QED
        BY <4>3, <1>9
    <3>3. CASE k # j
      <4>1. k + 1 \in 1 .. N /\ (k + 1) - 1 = k /\ k + 1 \in 1 .. j
        BY <3>3, <1>2, <1>9
      <4>2. w[k + 1] = m[w[k]].ptr
        BY <1>5, <4>1
      <4> QED
        BY <4>1, <4>2, <3>1
    <3> QED
      BY <3>2, <3>3
  <2> HIDE DEF V
  <2> QED
    BY <2>1, <2>2, <2>3, ClosedIsAll DEF m
<1>11. \A r \in R : \E k \in 1 .. N : w[k] = r
  <2>1. 1 .. j \subseteq 1 .. N
    BY <1>2, <1>9
  <2> QED
    BY <1>10, <2>1
<1>12. Rounds(w, N, m, h.list, R)
  BY <1>5, <1>6, <1>11 DEF Rounds
<1> QED
  BY <1>2, <1>12 DEF w, m

LEMMA FirstIs ==
  ASSUME NEW S \in SUBSET Nat, S # {}
  PROVE  First(S) \in S
<1>1. \E i \in S : \A j \in S : i <= j
  BY NatMin
<1> QED
  BY <1>1 DEF First
-----------------------------------------------------------------------------
(* free().                                                                 *)
Sound(h, R, U, E) ==
  /\ Laid(h.mem, R, {}, U, E) /\ h.list \in R
  /\ h.brk = Addr(E) /\ h.brk <= SP
Between(m, p, c) == p <= c /\ (m[p].ptr = 0 \/ c < m[p].ptr)

LEMMA PlaceIs ==
  ASSUME NEW m, NEW R, Ring(m, R, {}), NEW c \in Nat, c > 0
  PROVE  /\ \A p \in R : InPlace(m, p, c) <=> Between(m, p, c)
         /\ \E p \in R : Between(m, p, c)
<1>1. /\ R \subseteq Nat /\ 0 \in R
      /\ \A r \in R : m[r].ptr \in R /\ m[r].ptr \in Nat /\ m[r].size \in Nat /\ Follows(m, R, {}, r)
  BY Sizes DEF Ring, Headers
<1>2. ASSUME NEW p \in R PROVE InPlace(m, p, c) <=> Between(m, p, c)
  <2>1. p \in Nat /\ m[p].ptr \in Nat /\ m[p].size \in Nat
    BY <1>1
  <2>2. m[p].ptr # 0 => m[p].ptr > p + m[p].size
    BY <1>1 DEF Follows
  <2>3. m[p].ptr # 0 => ~ (p >= m[p].ptr)
    BY <2>1, <2>2
  <2>4. CASE m[p].ptr = 0
    BY <2>1, <2>4 DEF InPlace, Between
  <2>5. CASE m[p].ptr # 0
    BY <2>1, <2>3, <2>5 DEF InPlace, Between
  <2> QED
    BY <2>4, <2>5
<1>3. \E p \in R : Between(m, p, c)
  <2> DEFINE S == {r \in R : r <= c}
  <2>1. S \in SUBSET Nat /\ S # {} /\ \A r \in S : r <= c
    BY <1>1
  <2>2. \E p \in S : \A r \in S : r <= p
    <3> HIDE DEF S
    <3> QED
      BY <2>1, NatMax
  <2>3. PICK p \in S : \A r \in S : r <= p
    BY <2>2
  <2>4. p \in R /\ p <= c /\ p \in Nat /\ m[p].ptr \in R /\ m[p].ptr \in Nat /\ m[p].size \in Nat
    BY <1>1, <2>3
  <2>5. m[p].ptr # 0 => m[p].ptr > p
    BY <1>1, <2>4 DEF Follows
  <2>6. m[p].ptr = 0 \/ c < m[p].ptr
    BY <2>3, <2>4, <2>5
  <2> QED
    BY <2>4, <2>6 DEF Between
<1> QED
  BY <1>2, <1>3

Put(h, p, c) ==
  IF c + h.mem[c].size <= p + h.mem[p].size THEN HeapOf(h.mem, p, h.brk)
  ELSE HeapOf(Join(Link(h.mem, c, h.mem[p].ptr), p, c), p, h.brk)

LEMMA FreedIs ==
  ASSUME NEW h, NEW R, DOMAIN h.mem = 0 .. Top, Ring(h.mem, R, {}), h.list \in R,
         NEW c \in Nat, c > 0, Valid(h.mem, c)
  PROVE  \E p \in R : Between(h.mem, p, c) /\ Freed(h, c + 1) = Put(h, p, c)
<1> DEFINE m == h.mem
           w == Walk(h)
           S == {i \in DOMAIN w : InPlace(m, w[i], c)}
           p == w[First(S)]
<1>1. \A q \in R : InPlace(m, q, c) <=> Between(m, q, c)
  BY PlaceIs
<1>2. \E q \in R : Between(m, q, c)
  BY PlaceIs
<1>3. PICK N \in Nat : Rounds(w, N, m, h.list, R)
  BY WalkRounds
<1>4. S \in SUBSET Nat /\ S # {}
  <2>1. PICK q \in R : Between(m, q, c)
    BY <1>2
  <2>2. PICK i \in 1 .. N : w[i] = q
    BY <1>3 DEF Rounds
  <2>3. DOMAIN w = 0 .. N
    BY <1>3 DEF Rounds
  <2>4. i \in DOMAIN w /\ InPlace(m, w[i], c)
    <3> HIDE DEF w, m
    <3> QED
      BY <1>1, <2>1, <2>2, <2>3
  <2> HIDE DEF w, m
  <2> QED
    BY <2>3, <2>4
<1>5. First(S) \in S
  <2> HIDE DEF S
  <2> QED
    BY <1>4, FirstIs
<1>6. p \in R /\ Between(m, p, c)
  <2>1. First(S) \in DOMAIN w /\ InPlace(m, p, c)
    BY <1>5
  <2>2. p \in R
    BY <1>3, <2>1 DEF Rounds
  <2> HIDE DEF p, m
  <2> QED
    BY <1>1, <2>1, <2>2
<1>7. (c + 1) - 1 = c /\ p <= c /\ p \in Nat
  <2> HIDE DEF p
  <2>1. R \subseteq Nat
    BY Sizes DEF Ring
  <2> QED
    BY <1>6, <2>1 DEF Between
<1>8. Freed(h, c + 1) = Put(h, p, c)
  <2>1. Freed(h, c + 1) =
          IF c >= p /\ c + m[c].size <= p + m[p].size THEN HeapOf(m, p, h.brk)
          ELSE HeapOf(Join(Link(m, c, m[p].ptr), p, c), p, h.brk)
    BY <1>7 DEF Freed
  <2>2. c >= p
    BY <1>7
  <2> HIDE DEF p, m
  <2> QED
    BY <2>1, <2>2 DEF Put, m
<1> QED
  BY <1>6, <1>8

LEMMA Untouched ==
  ASSUME NEW m, NEW R, NEW T, NEW U, NEW E, Laid(m, R, T, U, E),
         NEW x \in R, m[x].ptr # x + m[x].size
  PROVE  Laid(m, R, T \ {x}, U, E)
<1>1. Ring(m, R, T)
  BY DEF Laid
<1>2. \A r \in R : Follows(m, R, T, r) => Follows(m, R, T \ {x}, r)
  BY DEF Follows
<1>3. Ring(m, R, T \ {x})
  BY <1>1, <1>2 DEF Ring
<1> QED
  BY <1>3 DEF Laid

(* What was free is still free, as part of the same or of a larger block.  *)
Within(m, f, m2, q) == q <= f /\ f + m[f].size <= q + m2[q].size
StillFree(m, F, m2, Q) ==
  \A f \in F : \E q \in Q \ {0} : Within(m, f, m2, q) /\ Within(m2, f, m2, q)

LEMMA MergedFree ==
  ASSUME NEW m, NEW m2, NEW R, NEW T, NEW U, NEW E, Laid(m, R, T, U, E),
         NEW x \in R, NEW y, y = m[x].ptr, y # 0, y = x + m[x].size,
         m2[x] = Hdr(m[y].ptr, m[x].size + m[y].size), SameBut(m, m2, {x})
  PROVE  StillFree(m, R \ {0}, m2, R \ {y})
<1> USE DEF Blocks
<1>1. Blocks(m, R, U, E)
  BY BlockFacts
<1>2. x \in Nat /\ x # 0 /\ m[x].size \in Nat /\ y \in R /\ y \in Nat /\ m[y].size \in Nat /\ x # y
  <2>1. x \in Nat /\ m[x].size \in Nat /\ y \in R /\ y \in Nat /\ m[y].size \in Nat
    BY <1>1
  <2>2. x = 0 <=> m[x].size = 0
    BY <1>1
  <2> QED
    BY <2>1, <2>2
<1>3. m2[x].size = m[x].size + m[y].size
  BY DEF Hdr
<1>4. \A r \in R \ {x} : m2[r] = m[r]
  <2>1. DOMAIN m = 0 .. Top /\ R \subseteq 0 .. Top
    BY <1>1 DEF Laid
  <2> QED
    BY <2>1 DEF SameBut
<1> SUFFICES ASSUME NEW f \in R \ {0}
             PROVE  \E q \in (R \ {y}) \ {0} : Within(m, f, m2, q) /\ Within(m2, f, m2, q)
  BY DEF StillFree
<1>5. f \in Nat /\ m[f].size \in Nat
  BY <1>1
<1>6. CASE f = y
  <2>1. x \in (R \ {y}) \ {0} /\ m2[y] = m[y]
    BY <1>2, <1>4
  <2>2. x <= y /\ y + m[y].size <= x + m2[x].size
    BY <1>2, <1>3
  <2> QED
    BY <1>6, <2>1, <2>2 DEF Within
<1>7. CASE f # y
  <2>1. f \in (R \ {y}) \ {0}
    BY <1>7
  <2>2. m2[f].size \in Nat /\ m[f].size <= m2[f].size
    <3>1. CASE f = x
      BY <3>1, <1>2, <1>3
    <3>2. CASE f # x
      BY <3>2, <1>4, <1>5
    <3> QED
      BY <3>1, <3>2
  <2>3. f <= f /\ f + m[f].size <= f + m2[f].size /\ f + m2[f].size <= f + m2[f].size
    BY <1>5, <2>2
  <2> QED
    BY <2>1, <2>3 DEF Within
<1> QED
  BY <1>6, <1>7

(* What free() does to the memory m, from which it makes m2.               *)
Frees(m, R, u, m2, Q) ==
  /\ Q \subseteq R \cup {u}
  /\ \A c \in DOMAIN m \ (R \cup {u}) : m2[c] = m[c]
  /\ \A c \in R \cup {u} : m2[c] \in Headers
  /\ StillFree(m, (R \ {0}) \cup {u}, m2, Q)

(* First the block is put into the ring and, if it touches the next,       *)
(* merged with that.                                                       *)
Linked(m, u, p) == [Link(m, u, m[p].ptr) EXCEPT ![p] = Hdr(u, m[p].size)]
InRing(m, k, R, U, E, u, p) ==
  \E Q : /\ Laid(k, Q, {p}, U \ {u}, E) /\ u \in Q /\ p \in Q
         /\ Frees(m, R, u, k, Q)
         /\ \A f \in (R \ {0}) \ Q : k[f] = m[f]

LEMMA LinkSound ==
  ASSUME NEW m, NEW k, NEW R, NEW U, NEW E, Laid(m, R, {}, U, E),
         NEW u \in U, NEW p \in R, Between(m, p, u),
         k = Linked(m, u, p)
  PROVE  InRing(m, k, R, U, E, u, p)
<1> USE DEF Blocks
<1> DEFINE n == m[p].ptr
           m1 == [m EXCEPT ![u] = Hdr(n, m[u].size), ![p] = Hdr(u, m[p].size)]
           P == R \cup {u}
<1>1. Blocks(m, R, U, E)
  BY BlockFacts
<1>2. DOMAIN m = 0 .. Top /\ U \cap R = {}
  BY DEF Laid
<1>3. /\ u \in 0 .. Top /\ p \in 0 .. Top /\ u \in Nat /\ p \in Nat /\ u # 0 /\ u \notin R /\ u # p
      /\ m[u].size \in Nat /\ m[u].size > 0 /\ m[p].size \in Nat /\ n \in R /\ n \in Nat
      /\ n # u
  BY <1>1, <1>2
<1>4. p < u /\ (n = 0 \/ u < n)
  BY <1>3 DEF Between
<1>5. /\ m1[u] = Hdr(n, m[u].size) /\ m1[p] = Hdr(u, m[p].size) /\ DOMAIN m1 = DOMAIN m
      /\ SameBut(m, m1, {u, p}) /\ \A c \in DOMAIN m \ {u, p} : m1[c] = m[c]
  BY <1>2, <1>3 DEF SameBut
<1> HIDE DEF m1
<1>6. Laid(m1, P, {u, p}, U \ {u}, E)
  BY <1>3, <1>4, <1>5, Inserted
<1>7. /\ m1[u].ptr = n /\ m1[u].size = m[u].size /\ m1[p].size = m[p].size
      /\ m1[u] \in Headers /\ m1[p] \in Headers
  BY <1>3, <1>5 DEF Hdr, Headers
<1>8. \A c \in P : m1[c] \in Headers /\ m1[c].size = m[c].size /\ (c # u /\ c # p => m1[c] = m[c])
  BY <1>1, <1>2, <1>3, <1>5, <1>7
<1>9. \A c \in P : c \in Nat /\ m[c].size \in Nat
  BY <1>1, <1>3
<1>10. CASE u + m[u].size = n
  <2>1. n # 0 /\ n # p /\ n \in P
    BY <1>3, <1>4, <1>10
  <2>2. m1[n] = m[n]
    BY <1>8, <2>1, <1>3
  <2>3. k = [[m EXCEPT ![u] = Hdr(m[n].ptr, m[u].size + m[n].size)] EXCEPT ![p] = Hdr(u, m[p].size)]
    BY <1>10 DEF Link, Linked
  <2>4. /\ k[u] = Hdr(m1[n].ptr, m1[u].size + m1[n].size) /\ SameBut(m1, k, {u}) /\ k[p] = m1[p]
        /\ DOMAIN k = DOMAIN m /\ \A c \in DOMAIN m \ {u} : k[c] = m1[c]
    <3>1. k[u] = Hdr(m[n].ptr, m[u].size + m[n].size) /\ k[p] = Hdr(u, m[p].size) /\ DOMAIN k = DOMAIN m
      BY <2>3, <1>2, <1>3
    <3>2. \A c \in DOMAIN m \ {u, p} : k[c] = m[c]
      BY <2>3
    <3>3. \A c \in DOMAIN m \ {u} : k[c] = m1[c]
      BY <3>1, <3>2, <1>5
    <3> QED
      BY <3>1, <3>3, <2>2, <1>5, <1>7 DEF SameBut
  <2>5. m1[u].ptr # 0 /\ m1[u].ptr = u + m1[u].size /\ n \notin {u, p}
    BY <2>1, <1>3, <1>7, <1>10
  <2>6. Laid(k, P \ {n}, {u, p} \ {u}, U \ {u}, E)
    BY <1>6, <1>7, <2>4, <2>5, Merged
  <2>7. StillFree(m1, P \ {0}, k, P \ {n})
    BY <1>6, <1>7, <2>4, <2>5, MergedFree
  <2>8. Laid(k, P \ {n}, {p}, U \ {u}, E) /\ u \in P \ {n} /\ p \in P \ {n}
    <3>1. {u, p} \ {u} = {p}
      BY <1>3
    <3> QED
      BY <2>1, <2>6, <3>1, <1>3
  <2>9. StillFree(m, (R \ {0}) \cup {u}, k, P \ {n})
    <3>1. (R \ {0}) \cup {u} = P \ {0}
      BY <1>3
    <3>2. \A f \in P : \A q : Within(m1, f, k, q) <=> Within(m, f, k, q)
      BY <1>8 DEF Within
    <3> QED
      BY <2>7, <3>1, <3>2 DEF StillFree
  <2>10. \A c \in P : k[c] \in Headers
    <3>1. m[u].size + m[n].size \in Nat /\ m[n].ptr \in Nat
      BY <1>1, <1>3
    <3>2. k[u] \in Headers
      BY <2>2, <2>4, <3>1, <1>7 DEF Hdr, Headers
    <3>3. P \subseteq DOMAIN m
      BY <1>1, <1>2
    <3> QED
      BY <1>8, <2>4, <3>2, <3>3
  <2>11. \A c \in DOMAIN m \ P : k[c] = m[c]
    BY <1>5, <2>4
  <2>12. \A f \in (R \ {0}) \ (P \ {n}) : k[f] = m[f]
    <3>1. k[n] = m[n]
      <4>1. n \in DOMAIN m \ {u}
        BY <1>1, <1>2, <1>3
      <4> QED
        BY <4>1, <2>2, <2>4
    <3>2. \A f \in R \ (P \ {n}) : f = n
      OBVIOUS
    <3> QED
      BY <3>1, <3>2
  <2>13. Frees(m, R, u, k, P \ {n})
    BY <2>9, <2>10, <2>11 DEF Frees
  <2> QED
    BY <2>8, <2>12, <2>13 DEF InRing
<1>11. CASE u + m[u].size # n
  <2>1. k = [[m EXCEPT ![u] = Hdr(n, m[u].size)] EXCEPT ![p] = Hdr(u, m[p].size)]
    BY <1>11 DEF Link, Linked
  <2>2. k = m1
    BY <2>1 DEF m1
  <2>3. Laid(k, P, {u, p} \ {u}, U \ {u}, E)
    BY <1>6, <1>7, <1>11, <2>2, Untouched
  <2>4. Laid(k, P, {p}, U \ {u}, E)
    <3>1. {u, p} \ {u} = {p}
      BY <1>3
    <3> QED
      BY <2>3, <3>1
  <2>5. StillFree(m, (R \ {0}) \cup {u}, k, P)
    <3> SUFFICES ASSUME NEW f \in (R \ {0}) \cup {u}
                 PROVE  f \in P \ {0} /\ Within(m, f, k, f) /\ Within(k, f, k, f)
      BY DEF StillFree
    <3>1. f \in P \ {0} /\ f \in Nat /\ m[f].size \in Nat /\ k[f].size = m[f].size
      BY <1>3, <1>8, <1>9, <2>2
    <3>2. f <= f /\ f + m[f].size <= f + k[f].size /\ f + k[f].size <= f + k[f].size
      BY <3>1
    <3> QED
      BY <3>1, <3>2 DEF Within
  <2>6. Frees(m, R, u, k, P)
    BY <1>5, <1>8, <2>2, <2>5 DEF Frees
  <2>7. \A f \in (R \ {0}) \ P : k[f] = m[f]
    OBVIOUS
  <2>8. u \in P /\ p \in P
    OBVIOUS
  <2> HIDE DEF P
  <2> QED
    BY <2>4, <2>6, <2>7, <2>8 DEF InRing
<1> QED
  BY <1>10, <1>11

(* Then the block before it is, if it touches that.                        *)
LEMMA FreedSound ==
  ASSUME NEW h, NEW R, NEW U, NEW E, Sound(h, R, U, E), NEW u \in U
  PROVE  \E Q : /\ Sound(Freed(h, u + 1), Q, U \ {u}, E)
                /\ Frees(h.mem, R, u, Freed(h, u + 1).mem, Q)
<1> USE DEF Blocks
<1> DEFINE m == h.mem
<1>1. Laid(m, R, {}, U, E) /\ h.list \in R /\ h.brk = Addr(E) /\ h.brk <= SP
  BY DEF Sound
<1>2. Blocks(m, R, U, E)
  BY <1>1, BlockFacts
<1>3. DOMAIN m = 0 .. Top /\ U \cap R = {} /\ Ring(m, R, {})
  BY <1>1 DEF Laid
<1>4. u \in Nat /\ u > 0 /\ u \in 0 .. Top /\ u # 0 /\ u \notin R /\ m[u].size \in Nat /\ m[u].size > 0 /\ Valid(m, u)
  <2>1. m[u] \in Headers /\ u \in Nat /\ u > 1 /\ u \in 0 .. Top /\ m[u].size \in Nat /\ m[u].size > 0
    BY <1>2
  <2>2. Valid(m, u)
    BY <2>1 DEF Valid, Headers
  <2> QED
    BY <2>1, <2>2, <1>3
<1>5. \E p \in R : Between(m, p, u) /\ Freed(h, u + 1) = Put(h, p, u)
  BY <1>1, <1>3, <1>4, FreedIs
<1>6. PICK p \in R : Between(m, p, u) /\ Freed(h, u + 1) = Put(h, p, u)
  BY <1>5
<1>7. p \in Nat /\ m[p].size \in Nat /\ p < u /\ p \in 0 .. Top /\ p # u
  BY <1>2, <1>4, <1>6 DEF Between
<1>8. ~ (u + m[u].size <= p + m[p].size)
  <2>1. p + m[p].size <= u
    <3>1. CASE p = 0
      <4>1. m[p].size = 0
        BY <3>1, <1>2
      <4> QED
        BY <3>1, <4>1, <1>4
    <3>2. CASE p # 0
      BY <3>2, <1>2, <1>4, <1>7
    <3> QED
      BY <3>1, <3>2
  <2> QED
    BY <2>1, <1>4, <1>7
<1> DEFINE l == Link(m, u, m[p].ptr)
           k == [l EXCEPT ![p] = Hdr(u, m[p].size)]
           j == Join(l, p, u)
<1>9. Freed(h, u + 1) = HeapOf(j, p, h.brk)
  BY <1>6, <1>8 DEF Put
<1>10. DOMAIN l = DOMAIN m /\ l[p] = m[p] /\ DOMAIN k = DOMAIN m
  BY <1>7 DEF Link
<1>11. k[p] = Hdr(u, m[p].size) /\ k[p].ptr = u /\ k[p].size = m[p].size /\ \A c \in DOMAIN m \ {p} : k[c] = l[c]
  BY <1>3, <1>7, <1>10 DEF Hdr
<1>12. InRing(m, k, R, U, E, u, p)
  <2>1. k = Linked(m, u, p)
    BY DEF Linked
  <2>2. Between(m, p, u)
    BY <1>6
  <2> HIDE DEF k, m
  <2> QED
    BY <1>1, <2>1, <2>2, LinkSound
<1> HIDE DEF k
<1>13. PICK P : /\ Laid(k, P, {p}, U \ {u}, E) /\ u \in P /\ p \in P
                /\ Frees(m, R, u, k, P)
                /\ \A f \in (R \ {0}) \ P : k[f] = m[f]
  BY <1>12 DEF InRing
<1>14. Blocks(k, P, U \ {u}, E)
  BY <1>13, BlockFacts
<1> SUFFICES \E Q : p \in Q /\ Laid(j, Q, {}, U \ {u}, E) /\ Frees(m, R, u, j, Q)
  BY <1>1, <1>9 DEF Sound, HeapOf
<1>15. P \subseteq R \cup {u} /\ (R \cup {u}) \subseteq DOMAIN m
  BY <1>2, <1>3, <1>4, <1>13 DEF Frees
<1>16. CASE p + m[p].size = u
  <2>1. j = [l EXCEPT ![p] = Hdr(l[u].ptr, l[p].size + l[u].size)]
    BY <1>10, <1>16 DEF Join
  <2>2. l[u] = k[u]
    BY <1>3, <1>4, <1>7, <1>11
  <2> HIDE DEF l, j
  <2>3. j[p] = Hdr(k[u].ptr, k[p].size + k[u].size) /\ DOMAIN j = DOMAIN m /\ \A c \in DOMAIN m \ {p} : j[c] = l[c]
    BY <2>1, <2>2, <1>3, <1>7, <1>10, <1>11
  <2>4. \A c \in DOMAIN m \ {p} : j[c] = k[c]
    BY <2>3, <1>11
  <2>5. SameBut(k, j, {p})
    BY <2>3, <2>4, <1>10 DEF SameBut
  <2>6. k[p].ptr = u /\ u = p + k[p].size /\ u \notin {p}
    BY <1>7, <1>11, <1>16
  <2>7. Laid(j, P \ {u}, {p} \ {p}, U \ {u}, E)
    BY <1>4, <1>13, <2>3, <2>5, <2>6, Merged
  <2>8. StillFree(k, P \ {0}, j, P \ {u})
    BY <1>4, <1>13, <2>3, <2>5, <2>6, MergedFree
  <2>9. StillFree(m, (R \ {0}) \cup {u}, j, P \ {u})
    <3> SUFFICES ASSUME NEW f \in (R \ {0}) \cup {u}
                 PROVE  \E q \in (P \ {u}) \ {0} : Within(m, f, j, q) /\ Within(j, f, j, q)
      BY DEF StillFree
    <3>1. \E g \in P \ {0} : Within(m, f, k, g) /\ Within(k, f, k, g)
      BY <1>13 DEF Frees, StillFree
    <3>2. PICK g \in P \ {0} : Within(m, f, k, g) /\ Within(k, f, k, g) /\ (f \in P => TRUE)
      BY <3>1
    <3>3. \E q \in (P \ {u}) \ {0} : Within(k, g, j, q) /\ Within(j, g, j, q)
      BY <2>8 DEF StillFree
    <3>4. PICK q \in (P \ {u}) \ {0} : Within(k, g, j, q)
      BY <3>3
    <3>5. /\ f \in Nat /\ g \in Nat /\ q \in Nat /\ m[f].size \in Nat /\ k[g].size \in Nat
          /\ k[f].size \in Nat /\ j[q].size \in Nat /\ j[f].size \in Nat
      <4>1. /\ f \in Nat /\ g \in Nat /\ q \in Nat /\ m[f].size \in Nat /\ k[g].size \in Nat
        BY <1>2, <1>4, <1>14
      <4>2. k[f] \in Headers
        BY <1>13 DEF Frees
      <4>3. j[q].size \in Nat
        <5>1. Blocks(j, P \ {u}, U \ {u}, E)
          BY <2>7, BlockFacts
        <5> QED
          BY <5>1
      <4>4. j[f] \in Headers
        <5>1. CASE f = p
          <6>1. k[u].ptr \in Nat /\ k[p].size + k[u].size \in Nat
            BY <1>13, <1>14
          <6> QED
            BY <5>1, <6>1, <2>3 DEF Hdr, Headers
        <5>2. CASE f # p
          BY <5>2, <4>2, <2>4, <1>15
        <5> QED
          BY <5>1, <5>2
      <4> QED
        BY <4>1, <4>2, <4>3, <4>4 DEF Headers
    <3>6. Within(m, f, j, q)
      BY <3>2, <3>4, <3>5 DEF Within
    <3>7. CASE f = p
      <4>1. p \in P \ {u} /\ p # 0
        BY <1>7, <1>13, <3>7, <1>4
      <4>2. Within(m, p, j, p) /\ Within(j, p, j, p)
        <5>1. j[p].size = k[p].size + k[u].size /\ k[p].size = m[p].size /\ k[u].size \in Nat
          BY <2>3, <1>11, <1>13, <1>14 DEF Hdr
        <5>2. p <= p /\ p + m[p].size <= p + j[p].size /\ p + j[p].size <= p + j[p].size
          BY <5>1, <1>7
        <5> QED
          BY <5>2 DEF Within
      <4> QED
        BY <3>7, <4>1, <4>2
    <3>8. CASE f # p
      <4>1. j[f] = k[f]
        BY <3>8, <2>4, <1>15
      <4>2. Within(j, f, j, q)
        BY <4>1, <3>2, <3>4, <3>5 DEF Within
      <4> QED
        BY <4>2, <3>6
    <3> QED
      BY <3>7, <3>8
  <2>10. \A c \in R \cup {u} : j[c] \in Headers
    <3>1. k[u].ptr \in Nat /\ k[p].size + k[u].size \in Nat
      BY <1>13, <1>14
    <3>2. j[p] \in Headers
      BY <3>1, <2>3 DEF Hdr, Headers
    <3>3. \A c \in R \cup {u} : k[c] \in Headers
      BY <1>13 DEF Frees
    <3> QED
      BY <3>2, <3>3, <2>4, <1>15
  <2>11. \A c \in DOMAIN m \ (R \cup {u}) : j[c] = m[c]
    BY <2>4, <1>6, <1>13 DEF Frees
  <2>12. Frees(m, R, u, j, P \ {u})
    BY <2>9, <2>10, <2>11, <1>15 DEF Frees
  <2>13. {p} \ {p} = {} /\ p \in P \ {u}
    BY <1>7, <1>13
  <2>14. Laid(j, P \ {u}, {}, U \ {u}, E)
    BY <2>7, <2>13
  <2> QED
    BY <2>12, <2>13, <2>14
<1>17. CASE p + m[p].size # u
  <2>1. j = k
    BY <1>10, <1>17 DEF Join, k
  <2>2. Laid(k, P, {p} \ {p}, U \ {u}, E)
    <3>1. k[p].ptr # p + k[p].size
      BY <1>11, <1>17
    <3> QED
      BY <3>1, <1>13, Untouched
  <2>3. {p} \ {p} = {}
    OBVIOUS
  <2>4. Laid(k, P, {}, U \ {u}, E)
    BY <2>2, <2>3
  <2> HIDE DEF j
  <2> QED
    BY <1>13, <2>1, <2>4
<1> QED
  BY <1>16, <1>17

(* A block that lies in a free one is not freed again.                     *)
LEMMA FreedAgain ==
  ASSUME NEW h, NEW R, NEW U, NEW E, Sound(h, R, U, E),
         NEW c \in Nat, h.mem[c] \in Headers, NEW f \in R \ {0}, Within(h.mem, c, h.mem, f)
  PROVE  Sound(Freed(h, c + 1), R, U, E) /\ Freed(h, c + 1).mem = h.mem
<1> USE DEF Blocks
<1> DEFINE m == h.mem
<1>1. Laid(m, R, {}, U, E) /\ h.list \in R /\ h.brk = Addr(E) /\ h.brk <= SP
  BY DEF Sound
<1>2. Blocks(m, R, U, E)
  BY <1>1, BlockFacts
<1>3. DOMAIN m = 0 .. Top /\ Ring(m, R, {})
  BY <1>1 DEF Laid
<1>4. f \in Nat /\ f > 1 /\ f <= c /\ c + m[c].size <= f + m[f].size /\ m[c].size \in Nat /\ m[f].size \in Nat
  BY <1>2 DEF Within, Headers
<1>5. c > 0 /\ Valid(m, c)
  BY <1>4 DEF Valid, Headers
<1>6. \E p \in R : Between(m, p, c) /\ Freed(h, c + 1) = Put(h, p, c)
  BY <1>1, <1>3, <1>5, FreedIs
<1>7. PICK p \in R : Between(m, p, c) /\ Freed(h, c + 1) = Put(h, p, c)
  BY <1>6
<1>8. p \in Nat /\ p <= c /\ m[p].size \in Nat /\ m[p].ptr \in Nat
  BY <1>2, <1>7 DEF Between
<1>9. f <= p
  <2>1. Follows(m, R, {}, p)
    BY <1>3 DEF Ring
  <2>2. f <= p \/ (m[p].ptr # 0 /\ f >= m[p].ptr)
    BY <2>1 DEF Follows
  <2>3. m[p].ptr = 0 \/ c < m[p].ptr
    BY <1>7 DEF Between
  <2> QED
    BY <2>2, <2>3, <1>4, <1>8
<1>10. c + m[c].size <= p + m[p].size
  <2>1. CASE f = p
    BY <2>1, <1>4
  <2>2. CASE f # p
    <3>1. f < p /\ p # 0
      BY <2>2, <1>4, <1>8, <1>9
    <3>2. f + m[f].size <= p
      BY <3>1, <1>2
    <3> QED
      BY <3>2, <1>4, <1>8
  <2> QED
    BY <2>1, <2>2
<1>11. Freed(h, c + 1) = HeapOf(m, p, h.brk)
  BY <1>7, <1>10 DEF Put
<1> QED
  BY <1>1, <1>11 DEF Sound, HeapOf

(* The pointers that were freed point into free blocks.                    *)
StaleIn(m, R, S) ==
  \A a \in S : /\ a \in Int /\ a - 1 \in 0 .. Top /\ m[a - 1] \in Headers
              /\ \E f \in R \ {0} : Within(m, a - 1, m, f)

LEMMA StaleKept ==
  ASSUME NEW m, NEW R, NEW u, NEW m2, NEW Q, NEW S, Frees(m, R, u, m2, Q), StaleIn(m, R, S),
         DOMAIN m = 0 .. Top, u \in 0 .. Top, u # 0, R \subseteq 0 .. Top, 
         \A c \in R \cup {u} : m[c] \in Headers
  PROVE  StaleIn(m2, Q, S \cup {u + 1})
<1>1. /\ Q \subseteq R \cup {u} /\ \A c \in DOMAIN m \ (R \cup {u}) : m2[c] = m[c]
      /\ \A c \in R \cup {u} : m2[c] \in Headers
      /\ StillFree(m, (R \ {0}) \cup {u}, m2, Q)
  BY DEF Frees
<1>2. R \subseteq Nat /\ u \in Nat
  BY Sizes
<1>3. ASSUME NEW c \in (R \ {0}) \cup {u} PROVE \E q \in Q \ {0} : Within(m2, c, m2, q)
  BY <1>1 DEF StillFree
<1>4. ASSUME NEW a \in S PROVE m2[a - 1] \in Headers /\ \E q \in Q \ {0} : Within(m2, a - 1, m2, q)
  <2> DEFINE c == a - 1
  <2>1. a \in Int /\ c \in 0 .. Top /\ m[c] \in Headers /\ \E f \in R \ {0} : Within(m, c, m, f)
    BY DEF StaleIn
  <2>2. PICK f \in R \ {0} : Within(m, c, m, f)
    BY <2>1
  <2> HIDE DEF c
  <2>3. CASE c \in R \cup {u}
    <3>1. m2[c] \in Headers
      BY <1>1, <2>3
    <3>2. c # 0
      <4>1. f \in Nat /\ f # 0 /\ f <= c /\ c \in Int
        BY <1>2, <2>1, <2>2, Sizes DEF Within
      <4> QED
        BY <4>1
    <3>3. \E q \in Q \ {0} : Within(m2, c, m2, q)
      BY <1>3, <2>3, <3>2
    <3> QED
      BY <3>1, <3>3 DEF c
  <2>4. CASE c \notin R \cup {u}
    <3>1. m2[c] = m[c]
      BY <1>1, <2>1, <2>4
    <3>2. \E q \in Q \ {0} : Within(m, f, m2, q)
      BY <1>1 DEF StillFree
    <3>3. PICK q \in Q \ {0} : Within(m, f, m2, q)
      BY <3>2
    <3>4. /\ c \in Int /\ f \in Nat /\ q \in Nat
          /\ m[c].size \in Nat /\ m[f].size \in Nat /\ m2[q].size \in Nat
      BY <1>1, <1>2, <2>1, Sizes DEF Headers
    <3>5. Within(m2, c, m2, q)
      <4>1. f <= c /\ c + m[c].size <= f + m[f].size /\ q <= f /\ f + m[f].size <= q + m2[q].size
        BY <2>2, <3>3 DEF Within
      <4>2. q <= c /\ c + m[c].size <= q + m2[q].size
        <5>1. \A x, y, z, sx, sy, sz \in Int :
                y <= x /\ x + sx <= y + sy /\ z <= y /\ y + sy <= z + sz => z <= x /\ x + sx <= z + sz
          OBVIOUS
        <5>2. /\ c \in Int /\ f \in Int /\ q \in Int
              /\ m[c].size \in Int /\ m[f].size \in Int /\ m2[q].size \in Int
          BY <3>4
        <5> QED
          BY <4>1, <5>1, <5>2, Zenon
      <4> QED
        BY <3>1, <4>2 DEF Within
    <3> QED
      BY <2>1, <3>1, <3>5 DEF c
  <2> QED
    BY <2>3, <2>4
<1>5. ASSUME NEW a \in S PROVE a \in Int /\ a - 1 \in 0 .. Top
  BY DEF StaleIn
<1>6. m2[u] \in Headers /\ (u + 1) - 1 = u /\ u + 1 \in Int
  BY <1>1, <1>2
<1>7. \E q \in Q \ {0} : Within(m2, u, m2, q)
  BY <1>3
<1> QED
  BY <1>4, <1>5, <1>6, <1>7 DEF StaleIn
-----------------------------------------------------------------------------
(* getmemory() and the search.                                             *)

(* What a call for n bytes may compute without wrapping around.            *)
Fits(b, n) ==
  /\ n + HDR - 1 < W
  /\ BrkOK(Moved(b, Asked(Nmults(n)))) => b + ToGet(Nmults(n)) * HDR + SAFETY < W

LEMMA ModSmall ==
  ASSUME NEW x \in Nat, NEW b \in Nat \ {0}, x < b
  PROVE  x % b = x
OBVIOUS

LEMMA EvenTimes ==
  ASSUME NEW a \in Nat, NEW b \in Nat, b % 2 = 0
  PROVE  (a * b) % 2 = 0
<1>1. PICK q \in Nat : b = 2 * q
  OBVIOUS
<1> DEFINE y == a * q
<1>2. a * b = 2 * y /\ y \in Nat
  BY <1>1
<1> HIDE DEF y
<1>3. (2 * y) % 2 = 0
  BY <1>2
<1> QED
  BY <1>2, <1>3

LEMMA Amounts ==
  ASSUME NEW u \in Nat, u > 0
  PROVE  /\ ToGet(u) \in Nat /\ ToGet(u) > 0 /\ (ToGet(u) * HDR) % 2 = 0
         /\ ToGet(u) * HDR \in Nat
<1> DEFINE q == (u + ACHUNKS - 1) \div ACHUNKS
<1>1. ACHUNKS \in Nat \ {0} /\ HDR \in Nat \ {0} /\ (ACHUNKS * HDR) % 2 = 0 /\ ACHUNKS * HDR \in Nat
  BY HeapAssumption, Sizes
<1>2. u + ACHUNKS - 1 \in Nat
  BY <1>1
<1>3. q \in Nat /\ u + ACHUNKS - 1 < q * ACHUNKS + ACHUNKS
  BY <1>1, <1>2, Divides
<1> HIDE DEF q
<1>4. ToGet(u) = q * ACHUNKS /\ q * ACHUNKS \in Nat
  BY <1>1, <1>3, Multiples DEF ToGet, q
<1>5. q * ACHUNKS > 0
  BY <1>1, <1>3, <1>4
<1>6. (q * ACHUNKS) * HDR = q * (ACHUNKS * HDR)
  BY <1>1, <1>3
<1>7. (q * (ACHUNKS * HDR)) % 2 = 0
  BY <1>1, <1>3, EvenTimes
<1>8. (q * ACHUNKS) * HDR \in Nat
  BY <1>1, <1>4
<1> QED
  BY <1>4, <1>5, <1>6, <1>7, <1>8

LEMMA CellsAsked ==
  ASSUME NEW n \in Nat, n + HDR - 1 < W
  PROVE  InCells(n) \in Nat /\ Nmults(n) = InCells(n) + 1
<1>1. n + HDR - 1 \in Nat /\ W \in Nat \ {0} /\ HDR \in Nat \ {0}
  BY Sizes
<1>2. (n + HDR - 1) % W = n + HDR - 1
  BY <1>1, ModSmall
<1>3. (n + HDR - 1) \div HDR \in Nat
  BY <1>1, Divides
<1> QED
  BY <1>2, <1>3 DEF InCells, Nmults

(* The heap grows by a block that is free.                                 *)
LEMMA GetMemorySound ==
  ASSUME NEW h, NEW R, NEW U, NEW E, Sound(h, R, U, E),
         NEW u \in Nat, u > 0, CanGet(h, u), h.brk + ToGet(u) * HDR + SAFETY < W
  PROVE  \E Q, F : /\ Sound(GetMemory(h, u), Q, U, F)
                   /\ \A c \in 0 .. Top : c \notin R /\ c < E => GetMemory(h, u).mem[c] = h.mem[c]
<1> USE DEF Blocks
<1> DEFINE m == h.mem
           k == ToGet(u)
           g == Extended(h, u)
<1>1. Laid(m, R, {}, U, E) /\ h.list \in R /\ h.brk = Addr(E) /\ h.brk <= SP
  BY DEF Sound
<1>2. Blocks(m, R, U, E)
  BY <1>1, BlockFacts
<1>3. DOMAIN m = 0 .. Top /\ E \in Nat /\ E \in 0 .. Top
  BY <1>1, <1>2, Sizes DEF Laid
<1>4. k \in Nat /\ k > 0 /\ (k * HDR) % 2 = 0 /\ k * HDR \in Nat
  BY Amounts
<1> HIDE DEF k
<1>5. HDR \in Nat \ {0} /\ SAFETY \in Nat /\ W \in Nat \ {0} /\ SP \in Nat /\ SP < W
  BY Sizes
<1>6. Addr(E + k) = h.brk + k * HDR /\ h.brk + k * HDR + SAFETY < W /\ h.brk \in Nat
  BY <1>1, <1>3, <1>4, Further, CellAt DEF k
<1>7. Asked(u) = k * HDR
  <2>1. k * HDR < W
    BY <1>4, <1>5, <1>6
  <2> QED
    BY <2>1, <1>4, <1>5, ModSmall DEF Asked, k
<1>8. Moved(h.brk, k * HDR) = h.brk + k * HDR
  <2>1. Moved(h.brk, k * HDR) = (h.brk + k * HDR + 0) % W
    BY <1>4 DEF Moved
  <2>2. h.brk + k * HDR + 0 = h.brk + k * HDR /\ h.brk + k * HDR \in Nat /\ h.brk + k * HDR < W
    BY <1>4, <1>5, <1>6
  <2> QED
    BY <2>1, <2>2, <1>5, ModSmall
<1>9. h.brk + k * HDR <= SP
  <2> DEFINE b == h.brk + k * HDR
  <2>1. (b + SAFETY) % W < SP
    BY <1>7, <1>8 DEF CanGet, BrkOK
  <2>2. b \in Nat /\ b + SAFETY < W
    BY <1>4, <1>6
  <2> HIDE DEF b
  <2>3. (b + SAFETY) % W = b + SAFETY
    BY <2>2, <1>5, ModSmall
  <2>4. b <= SP
    BY <2>1, <2>2, <2>3, <1>5
  <2> QED
    BY <2>4 DEF b
<1>10. Addr(E + k) = h.brk + k * HDR /\ Addr(E + k) <= SP /\ E + k \in Nat /\ E + k <= Top
  <2>1. Addr(E + k) = h.brk + k * HDR /\ Addr(E + k) <= SP /\ E + k \in Nat
    BY <1>1, <1>3, <1>4, <1>6, <1>9
  <2> QED
    BY <2>1, CellAt
<1>11. h.brk \div HDR = E
  BY <1>1, <1>3, CellAt
<1>12. /\ DOMAIN g.mem = DOMAIN m /\ g.mem[E] = Hdr(0, k)
       /\ \A c \in DOMAIN m : c < E => g.mem[c] = m[c]
       /\ g.list = h.list /\ g.brk = h.brk + k * HDR
  <2>1. g = HeapOf([a \in DOMAIN m |->
                      IF a = E THEN Hdr(0, k)
                      ELSE IF a > E /\ a < E + Asked(u) \div HDR THEN Zero ELSE m[a]],
                   h.list, h.brk + k * HDR)
    BY <1>7, <1>8, <1>11 DEF Extended, k
  <2> HIDE DEF g, m
  <2>2. \A c \in DOMAIN m : c < E => c # E /\ ~ (c > E)
    BY <1>3
  <2>3. E \in DOMAIN m
    BY <1>3
  <2> QED
    BY <2>1, <2>2, <2>3 DEF HeapOf
<1> HIDE DEF g
<1>13. Laid(g.mem, R, {}, U \cup {E}, E + k)
  BY <1>1, <1>3, <1>4, <1>10, <1>12, Grown
<1>14. Sound(g, R, U \cup {E}, E + k)
  BY <1>1, <1>10, <1>12, <1>13 DEF Sound
<1>15. \E Q : Sound(Freed(g, E + 1), Q, (U \cup {E}) \ {E}, E + k) /\ Frees(g.mem, R, E, Freed(g, E + 1).mem, Q)
  <2>1. E \in U \cup {E}
    OBVIOUS
  <2> QED
    BY <1>14, <2>1, FreedSound
<1>16. PICK Q : Sound(Freed(g, E + 1), Q, (U \cup {E}) \ {E}, E + k) /\ Frees(g.mem, R, E, Freed(g, E + 1).mem, Q)
  BY <1>15
<1>17. GetMemory(h, u) = Freed(g, E + 1)
  BY <1>11 DEF GetMemory, g
<1>18. (U \cup {E}) \ {E} = U
  <2>1. E \notin U
    <3> SUFFICES ASSUME E \in U PROVE FALSE
      OBVIOUS
    <3>1. E \in (R \ {0}) \cup U
      OBVIOUS
    <3>2. E + m[E].size <= E /\ m[E].size \in Nat /\ m[E].size > 0
      BY <1>2, <3>1
    <3> QED
      BY <3>2, <1>3
  <2> QED
    BY <2>1
<1>19. Sound(GetMemory(h, u), Q, U, E + k)
  BY <1>16, <1>17, <1>18
<1>20. ASSUME NEW c \in 0 .. Top, c \notin R, c < E PROVE GetMemory(h, u).mem[c] = m[c]
  <2>1. c \in DOMAIN g.mem \ (R \cup {E}) /\ g.mem[c] = m[c]
    BY <1>3, <1>12, <1>20
  <2> QED
    BY <2>1, <1>16, <1>17 DEF Frees
<1> QED
  BY <1>19, <1>20

(* A search that ends with a block ends with one that is large enough.     *)
LEMMA SearchIs ==
  ASSUME NEW h, NEW R, NEW U, NEW E, Sound(h, R, U, E), NEW u \in Nat, u > 0,
         Search(h, u) = "found"
  PROVE  /\ Before(h, u) \in R
         /\ h.mem[Before(h, u)].ptr # 0 /\ h.mem[h.mem[Before(h, u)].ptr].size >= u
<1> USE DEF Blocks
<1> DEFINE m == h.mem
           w == Walk(h)
           T == {i \in DOMAIN w \ {0} : ~Valid(m, w[i]) \/ m[w[i]].size >= u \/ w[i] = h.list}
           S == {i \in DOMAIN w : m[m[w[i]].ptr].size >= u}
<1>1. Laid(m, R, {}, U, E) /\ h.list \in R /\ DOMAIN m = 0 .. Top /\ Ring(m, R, {})
  BY DEF Sound, Laid
<1>2. Blocks(m, R, U, E)
  BY <1>1, BlockFacts
<1>3. PICK N \in Nat : Rounds(w, N, m, h.list, R)
  <2>1. \E N \in Nat : Rounds(w, N, m, h.list, R)
    BY <1>1, WalkRounds
  <2> QED
    BY <2>1
<1>4. DOMAIN w = 0 .. N /\ \A i \in 0 .. N : w[i] \in R
  BY <1>3 DEF Rounds
<1>5. T \in SUBSET Nat /\ T # {}
  <2>1. PICK i \in 1 .. N : w[i] = h.list
    BY <1>1, <1>3 DEF Rounds
  <2>2. i \in DOMAIN w \ {0}
    BY <1>4
  <2> HIDE DEF w, m
  <2>3. T \in SUBSET Nat
    BY <1>4
  <2> QED
    BY <2>1, <2>2, <2>3
<1>6. First(T) \in T
  <2> HIDE DEF T
  <2> QED
    BY <1>5, FirstIs
<1> DEFINE i == First(T)
<1>7. Search(h, u) = IF ~Valid(m, w[i]) THEN "corrupt"
                     ELSE IF m[w[i]].size >= u THEN "found" ELSE "none"
  BY DEF Search
<1> HIDE DEF i
<1>8. m[w[i]].size >= u /\ i \in DOMAIN w \ {0}
  <2>1. i \in DOMAIN w \ {0}
    BY <1>6 DEF i
  <2> HIDE DEF w, m
  <2> QED
    BY <2>1, <1>7
<1>9. i \in 1 .. N /\ i - 1 \in 0 .. N /\ w[i] = m[w[i - 1]].ptr
  <2>1. i \in 1 .. N /\ i - 1 \in 0 .. N
    BY <1>4, <1>8
  <2> QED
    BY <2>1, <1>3 DEF Rounds
<1>10. S \in SUBSET Nat /\ S # {}
  <2> HIDE DEF w, m
  <2>1. i - 1 \in S
    BY <1>4, <1>8, <1>9
  <2> QED
    BY <1>4, <2>1
<1>11. First(S) \in S
  <2> HIDE DEF S
  <2> QED
    BY <1>10, FirstIs
<1>12. Before(h, u) = w[First(S)]
  BY DEF Before
<1>13. w[First(S)] \in R /\ m[m[w[First(S)]].ptr].size >= u
  <2> HIDE DEF w, m
  <2> QED
    BY <1>4, <1>11
<1>14. m[w[First(S)]].ptr # 0
  <2>1. m[0].size = 0
    BY <1>2
  <2> HIDE DEF S, w, m
  <2> QED
    BY <1>13, <2>1
<1> QED
  BY <1>12, <1>13, <1>14

Found(h, R, U, E, u, f) ==
  \E Q, F : /\ Sound(f.h, Q, U, F) /\ f.pp \in Q
            /\ f.h.mem[f.pp].ptr # 0 /\ f.h.mem[f.h.mem[f.pp].ptr].size >= u
            /\ \A c \in 0 .. Top : c \notin R /\ c < E => f.h.mem[c] = h.mem[c]

LEMMA FindSound ==
  ASSUME NEW h, NEW R, NEW U, NEW E, Sound(h, R, U, E), NEW u \in Nat, u > 0, Finds(h, u),
         CanGet(h, u) => h.brk + ToGet(u) * HDR + SAFETY < W
  PROVE  Found(h, R, U, E, u, FindBlock(h, u))
<1>1. CASE Search(h, u) = "found"
  <2>1. FindBlock(h, u).h = h /\ FindBlock(h, u).pp = Before(h, u)
    BY <1>1 DEF FindBlock
  <2>2. Before(h, u) \in R /\ h.mem[Before(h, u)].ptr # 0 /\ h.mem[h.mem[Before(h, u)].ptr].size >= u
    BY <1>1, SearchIs
  <2> QED
    BY <2>1, <2>2 DEF Found
<1>2. CASE Search(h, u) # "found"
  <2> DEFINE g == GetMemory(h, u)
  <2>1. CanGet(h, u) /\ Search(g, u) = "found"
    BY <1>2 DEF Finds
  <2>2. FindBlock(h, u).h = g /\ FindBlock(h, u).pp = Before(g, u)
    BY <1>2 DEF FindBlock
  <2> HIDE DEF g
  <2>3. \E Q, F : /\ Sound(g, Q, U, F)
                  /\ \A c \in 0 .. Top : c \notin R /\ c < E => g.mem[c] = h.mem[c]
    BY <2>1, GetMemorySound DEF g
  <2>4. PICK Q, F : /\ Sound(g, Q, U, F)
                    /\ \A c \in 0 .. Top : c \notin R /\ c < E => g.mem[c] = h.mem[c]
    BY <2>3
  <2>5. Before(g, u) \in Q /\ g.mem[Before(g, u)].ptr # 0 /\ g.mem[g.mem[Before(g, u)].ptr].size >= u
    BY <2>1, <2>4, SearchIs
  <2> QED
    BY <2>2, <2>4, <2>5 DEF Found
<1> QED
  BY <1>1, <1>2
-----------------------------------------------------------------------------
(* cutup().                                                                *)
Cuts(h, g, R, U, E, c, u) ==
  \E Q : /\ Sound(g, Q, U \cup {c}, E) /\ g.mem[c].size >= u
         /\ \A x \in 0 .. Top : x \notin R /\ (x = c + u => x >= c + h.mem[c].size) =>
                                  g.mem[x] = h.mem[x]

LEMMA CutSound ==
  ASSUME NEW h, NEW R, NEW U, NEW E, Sound(h, R, U, E), NEW p \in R, NEW c, c = h.mem[p].ptr, c # 0,
         NEW u \in Nat, u > 0, h.mem[c].size >= u
  PROVE  Cuts(h, Cutup(h, p, u), R, U, E, c, u)
<1> USE DEF Blocks
<1> DEFINE m == h.mem
           s == m[c].size
           z == m[c].ptr
           q == c + u
           g == Cutup(h, p, u)
<1>1. Laid(m, R, {}, U, E) /\ h.brk = Addr(E) /\ h.brk <= SP
  BY DEF Sound
<1>2. Blocks(m, R, U, E)
  BY <1>1, BlockFacts
<1>3. DOMAIN m = 0 .. Top /\ Ring(m, R, {}) /\ E <= Top /\ E \in Nat /\ Top \in Nat
  BY <1>1, <1>2, Sizes DEF Laid
<1>4. /\ c \in R /\ c \in Nat /\ c \in 0 .. Top /\ s \in Nat /\ z \in R /\ z \in Nat /\ c + s <= E
      /\ p \in Nat /\ m[p].size \in Nat /\ p \in 0 .. Top
  BY <1>2
<1>5. p # c
  <2>1. Follows(m, R, {}, p)
    BY <1>3 DEF Ring
  <2>2. c > p + m[p].size
    BY <2>1 DEF Follows
  <2> QED
    BY <2>2, <1>4
<1>6. CASE s <= u + AFUDGE
  <2>1. g = HeapOf([m EXCEPT ![p] = Hdr(z, m[p].size)], p, h.brk)
    BY <1>6 DEF Cutup
  <2> HIDE DEF g
  <2>2. /\ g.mem[p] = Hdr(m[c].ptr, m[p].size) /\ DOMAIN g.mem = DOMAIN m /\ g.list = p /\ g.brk = h.brk
        /\ \A x \in DOMAIN m \ {p} : g.mem[x] = m[x]
    BY <2>1, <1>3, <1>4 DEF HeapOf
  <2>3. g.mem[c] = m[c] /\ m[c] \in Headers
    BY <2>2, <1>2, <1>3, <1>4, <1>5
  <2>4. SameBut(m, g.mem, {p, c})
    BY <2>2 DEF SameBut
  <2>5. Laid(g.mem, R \ {c}, {}, U \cup {c}, E)
    BY <1>1, <2>2, <2>3, <2>4, Removed
  <2>6. Sound(g, R \ {c}, U \cup {c}, E)
    BY <1>1, <1>5, <2>2, <2>5 DEF Sound
  <2>7. \A x \in 0 .. Top : x \notin R => g.mem[x] = m[x]
    BY <2>2, <1>3
  <2> QED
    BY <2>3, <2>6, <2>7, <1>4 DEF g, Cuts
<1>7. CASE ~ (s <= u + AFUDGE)
  <2>1. g = HeapOf([m EXCEPT ![q] = Hdr(z, s - u), ![p] = Hdr(q, m[p].size), ![c] = Hdr(z, u)], p, h.brk)
    BY <1>7 DEF Cutup
  <2> HIDE DEF g
  <2>2. AFUDGE \in Nat /\ u < s
    <3>1. AFUDGE \in Nat
      BY Sizes
    <3> QED
      BY <3>1, <1>4, <1>7
  <2>3. q \in 0 .. Top /\ q # c /\ q \notin R
    <3>1. q \in Int /\ c < q /\ q < c + m[c].size
      BY <2>2, <1>4
    <3>2. c \in (R \ {0}) \cup U
      BY <1>4
    <3>3. q \notin R \cup U /\ q \in 0 .. Top
      <4> HIDE DEF q
      <4> QED
        BY <1>1, <3>1, <3>2, NoneInside
    <3> QED
      BY <3>1, <3>3, <1>4
  <2>4. q # p
    BY <2>3
  <2>5. /\ g.mem[p] = Hdr(q, m[p].size) /\ g.mem[c] = Hdr(z, u) /\ g.mem[q] = Hdr(z, s - u)
        /\ DOMAIN g.mem = DOMAIN m /\ g.list = p /\ g.brk = h.brk
        /\ \A x \in DOMAIN m \ {p, c, q} : g.mem[x] = m[x]
    <3> HIDE DEF q, s, z, m
    <3> QED
      BY <2>1, <2>3, <2>4, <1>3, <1>4, <1>5 DEF HeapOf
  <2> DEFINE k == [m EXCEPT ![q] = Hdr(z, s - u), ![c] = Hdr(q, u)]
  <2>6. k[q] = Hdr(z, s - u) /\ k[c] = Hdr(q, u) /\ DOMAIN k = DOMAIN m /\ \A x \in DOMAIN m \ {c, q} : k[x] = m[x]
    <3> HIDE DEF q, s, z, m
    <3> QED
      BY <2>3, <1>3, <1>4
  <2> HIDE DEF k
  <2>7. Laid(k, R \cup {q}, {c}, U, E)
    <3>1. SameBut(m, k, {c, c + u}) /\ k[c + u] = Hdr(m[c].ptr, m[c].size - u) /\ k[c] = Hdr(c + u, u)
      BY <2>6 DEF SameBut
    <3>2. 0 < u
      OBVIOUS
    <3> QED
      BY <1>1, <1>4, <2>2, <3>1, <3>2, Split
  <2>8. k[p] = m[p] /\ k[p].ptr = c /\ k[p].size = m[p].size /\ k[c].ptr = q /\ k[c].size = u
    <3>1. k[p] = m[p]
      BY <2>4, <2>6, <1>3, <1>4, <1>5
    <3> QED
      BY <3>1, <2>6 DEF Hdr
  <2>9. /\ g.mem[p] = Hdr(k[c].ptr, k[p].size) /\ g.mem[c] \in Headers /\ g.mem[c].size = k[c].size
        /\ SameBut(k, g.mem, {p, c})
    <3>1. g.mem[c] \in Headers /\ g.mem[c].size = u
      BY <2>5, <1>4 DEF Hdr, Headers
    <3>2. \A x \in DOMAIN m \ {p, c} : g.mem[x] = k[x]
      BY <2>5, <2>6
    <3> QED
      BY <2>5, <2>6, <2>8, <3>1, <3>2 DEF SameBut
  <2>10. Laid(g.mem, (R \cup {q}) \ {c}, {}, U \cup {c}, E)
    <3>1. {c} \subseteq {c} /\ p \in R \cup {q} /\ c = k[p].ptr
      BY <2>8
    <3> QED
      BY <2>7, <2>9, <3>1, Removed
  <2>11. Sound(g, (R \cup {q}) \ {c}, U \cup {c}, E)
    BY <1>1, <1>5, <2>5, <2>10 DEF Sound
  <2>12. g.mem[c].size >= u
    BY <2>8, <2>9
  <2>13. ASSUME NEW x \in 0 .. Top, x \notin R, x = c + u => x >= c + m[c].size PROVE g.mem[x] = m[x]
    <3>1. x # q
      BY <2>2, <2>13, <1>4
    <3> QED
      BY <2>5, <2>13, <3>1, <1>3, <1>4
  <2> QED
    BY <2>11, <2>12, <2>13 DEF g, Cuts
<1> QED
  BY <1>6, <1>7
-----------------------------------------------------------------------------
(* The copy of realloc(), cell by cell.                                    *)
Turn(m, to, from, n, up, i) == IF up THEN i - 1 ELSE n - i
Copied1(m, to, from, d, prev) ==
  [prev EXCEPT ![to + d] = IF from + d \in DOMAIN m THEN prev[from + d] ELSE Zero]
Copies(c, j, m, to, from, n, up) ==
  c = [i \in 0 .. j |-> IF i = 0 THEN m ELSE Copied1(m, to, from, Turn(m, to, from, n, up, i), c[i - 1])]

LEMMA CopiesExist ==
  ASSUME NEW m, NEW to, NEW from, NEW n \in Nat, NEW up
  PROVE  \E c : Copies(c, n, m, to, from, n, up)
<1> DEFINE T == {j \in Nat : \E c : Copies(c, j, m, to, from, n, up)}
<1>1. 0 \in T
  <2> DEFINE c == [i \in 0 .. 0 |-> m]
  <2>1. c = [i \in 0 .. 0 |-> IF i = 0 THEN m ELSE Copied1(m, to, from, Turn(m, to, from, n, up, i), c[i - 1])]
    OBVIOUS
  <2> HIDE DEF c
  <2> QED
    BY <2>1 DEF Copies
<1>2. ASSUME NEW j \in Nat, j \in T PROVE j + 1 \in T
  <2>1. PICK c : Copies(c, j, m, to, from, n, up)
    BY <1>2
  <2> DEFINE new == Copied1(m, to, from, Turn(m, to, from, n, up, j + 1), c[j])
             q == [i \in 0 .. j + 1 |-> IF i = j + 1 THEN new ELSE c[i]]
  <2>2. ASSUME NEW i \in 0 .. j + 1
        PROVE  q[i] = IF i = 0 THEN m ELSE Copied1(m, to, from, Turn(m, to, from, n, up, i), q[i - 1])
    <3>1. CASE i = j + 1
      <4>1. q[i] = new /\ q[i - 1] = c[j] /\ i # 0
        <5> HIDE DEF new
        <5> QED
          BY <3>1
      <4> HIDE DEF q
      <4> QED
        BY <3>1, <4>1
    <3>2. CASE i # j + 1
      <4>1. i \in 0 .. j /\ q[i] = c[i] /\ (i # 0 => q[i - 1] = c[i - 1])
        <5> HIDE DEF new
        <5> QED
          BY <3>2
      <4>2. c[i] = IF i = 0 THEN m ELSE Copied1(m, to, from, Turn(m, to, from, n, up, i), c[i - 1])
        BY <2>1, <4>1 DEF Copies
      <4> HIDE DEF q
      <4> QED
        BY <4>1, <4>2
    <3> QED
      BY <3>1, <3>2
  <2>3. q = [i \in 0 .. j + 1 |-> q[i]]
    OBVIOUS
  <2> HIDE DEF q
  <2>4. Copies(q, j + 1, m, to, from, n, up)
    BY <2>2, <2>3 DEF Copies
  <2> QED
    BY <2>4
<1>3. Nat \subseteq T
  <2> HIDE DEF T
  <2> QED
    BY <1>1, <1>2, NatSetInduction
<1> QED
  BY <1>3

LEMMA TurnsAre ==
  ASSUME NEW m, NEW to, NEW from, NEW n \in Nat, NEW up
  PROVE  \E c : Copies(c, n, m, to, from, n, up) /\ CopyTurns(m, to, from, n, up) = c[n]
<1> DEFINE c == CHOOSE c : Copies(c, n, m, to, from, n, up)
<1>1. Copies(c, n, m, to, from, n, up)
  BY CopiesExist
<1>2. CopyTurns(m, to, from, n, up) = c[n]
  BY DEF CopyTurns, Copies, Copied1, Turn
<1> HIDE DEF c
<1> QED
  BY <1>1, <1>2

(* Whatever the overlap, the copy is what was there before.                *)
Reaches(to, n) == \A d \in 0 .. n - 1 : to + d <= Top
CopyOf(k, m, to, from, n) ==
  /\ DOMAIN k = DOMAIN m
  /\ \A d \in 0 .. n - 1 : from + d <= Top => k[to + d] = m[from + d]
  /\ \A x \in 0 .. Top : ~ (to <= x /\ x < to + n) => k[x] = m[x]
LEMMA CopyIs ==
  ASSUME NEW m, NEW to \in Nat, NEW from \in Nat, NEW n \in Nat, DOMAIN m = 0 .. Top, Reaches(to, n)
  PROVE  CopyOf(Copy(m, to, from, n), m, to, from, n)
<1> USE DEF Reaches, CopyOf
<1>1. CASE to = from
  BY <1>1 DEF Copy
<1>2. CASE to # from
  <2> DEFINE up == to < from
             r == Copy(m, to, from, n)
  <2>1. r = CopyTurns(m, to, from, n, up)
    BY <1>2 DEF Copy
  <2>2. PICK c : Copies(c, n, m, to, from, n, up) /\ CopyTurns(m, to, from, n, up) = c[n]
    BY TurnsAre
  <2> HIDE DEF r
  <2> DEFINE Done(i, d) == IF up THEN d < i ELSE d >= n - i
             T == {i \in Nat : i <= n =>
                     /\ DOMAIN c[i] = 0 .. Top
                     /\ \A d \in 0 .. n - 1 : Done(i, d) /\ from + d <= Top => c[i][to + d] = m[from + d]
                     /\ \A x \in 0 .. Top : (\A d \in 0 .. n - 1 : Done(i, d) => x # to + d) => c[i][x] = m[x]}
  <2>3. 0 \in T
    <3>1. c[0] = m
      BY <2>2 DEF Copies
    <3>2. \A d \in 0 .. n - 1 : ~ Done(0, d)
      OBVIOUS
    <3> HIDE DEF Done
    <3> QED
      BY <3>1, <3>2
  <2>4. ASSUME NEW i \in Nat, i \in T PROVE i + 1 \in T
    <3> SUFFICES ASSUME i + 1 <= n
                 PROVE  /\ DOMAIN c[i + 1] = 0 .. Top
                        /\ \A d \in 0 .. n - 1 : Done(i + 1, d) /\ from + d <= Top => c[i + 1][to + d] = m[from + d]
                        /\ \A x \in 0 .. Top : (\A d \in 0 .. n - 1 : Done(i + 1, d) => x # to + d) => c[i + 1][x] = m[x]
      OBVIOUS
    <3> DEFINE e == IF up THEN i ELSE n - (i + 1)
    <3>1. i <= n /\ i + 1 \in 0 .. n /\ i + 1 # 0 /\ (i + 1) - 1 = i
      OBVIOUS
    <3>2. /\ DOMAIN c[i] = 0 .. Top
          /\ \A d \in 0 .. n - 1 : Done(i, d) /\ from + d <= Top => c[i][to + d] = m[from + d]
          /\ \A x \in 0 .. Top : (\A d \in 0 .. n - 1 : Done(i, d) => x # to + d) => c[i][x] = m[x]
      BY <2>4, <3>1
    <3>3. Turn(m, to, from, n, up, i + 1) = e
      BY <3>1 DEF Turn
    <3>4. c[i + 1] = [c[i] EXCEPT ![to + e] = IF from + e \in DOMAIN m THEN c[i][from + e] ELSE Zero]
      <4>1. c[i + 1] = Copied1(m, to, from, Turn(m, to, from, n, up, i + 1), c[i])
        BY <2>2, <3>1 DEF Copies
      <4> HIDE DEF e
      <4> QED
        BY <4>1, <3>3 DEF Copied1
    <3>5. e \in 0 .. n - 1 /\ ~ Done(i, e) /\ Done(i + 1, e)
      BY <3>1
    <3>6. \A d \in 0 .. n - 1 : Done(i + 1, d) <=> (Done(i, d) \/ d = e)
      BY <3>1
    <3>7. \A d \in 0 .. n - 1 : Done(i, d) => from + e # to + d
      BY <1>2, <3>1
    <3> HIDE DEF e, Done
    <3>8. e \in Nat /\ to + e \in 0 .. Top
      BY <3>5, Sizes
    <3>9. from + e <= Top => c[i + 1][to + e] = m[from + e]
      <4> SUFFICES ASSUME from + e <= Top PROVE c[i + 1][to + e] = m[from + e]
        OBVIOUS
      <4>1. from + e \in 0 .. Top
        BY <3>8, Sizes
      <4>2. c[i][from + e] = m[from + e]
        BY <3>2, <3>7, <4>1
      <4>3. c[i + 1][to + e] = c[i][from + e]
        BY <3>2, <3>4, <3>8, <4>1
      <4> QED
        BY <4>2, <4>3
    <3>10. \A x \in 0 .. Top : x # to + e => c[i + 1][x] = c[i][x]
      BY <3>2, <3>4
    <3>11. DOMAIN c[i + 1] = 0 .. Top
      BY <3>2, <3>4
    <3>12. ASSUME NEW d \in 0 .. n - 1, Done(i + 1, d), from + d <= Top PROVE c[i + 1][to + d] = m[from + d]
      <4>1. CASE d = e
        BY <4>1, <3>9, <3>12
      <4>2. CASE d # e
        <5>1. Done(i, d)
          BY <4>2, <3>6, <3>12
        <5>2. to + d \in 0 .. Top /\ to + d # to + e
          BY <4>2, <3>8, Sizes
        <5> QED
          BY <5>1, <5>2, <3>2, <3>10, <3>12
      <4> QED
        BY <4>1, <4>2
    <3>13. ASSUME NEW x \in 0 .. Top, \A d \in 0 .. n - 1 : Done(i + 1, d) => x # to + d PROVE c[i + 1][x] = m[x]
      <4>1. x # to + e
        BY <3>5, <3>13
      <4>2. \A d \in 0 .. n - 1 : Done(i, d) => x # to + d
        BY <3>6, <3>13
      <4> QED
        BY <4>1, <4>2, <3>2, <3>10
    <3> QED
      BY <3>11, <3>12, <3>13
  <2>5. n \in T
    <3> HIDE DEF T
    <3>1. Nat \subseteq T
      BY <2>3, <2>4, NatSetInduction
    <3> QED
      BY <3>1
  <2>6. /\ DOMAIN r = 0 .. Top
        /\ \A d \in 0 .. n - 1 : Done(n, d) /\ from + d <= Top => r[to + d] = m[from + d]
        /\ \A x \in 0 .. Top : (\A d \in 0 .. n - 1 : Done(n, d) => x # to + d) => r[x] = m[x]
    <3> HIDE DEF Done
    <3> QED
      BY <2>1, <2>2, <2>5
  <2>7. \A d \in 0 .. n - 1 : Done(n, d)
    OBVIOUS
  <2> HIDE DEF Done
  <2>8. \A d \in 0 .. n - 1 : from + d <= Top => r[to + d] = m[from + d]
    BY <2>6, <2>7
  <2>9. ASSUME NEW x \in 0 .. Top, ~ (to <= x /\ x < to + n) PROVE r[x] = m[x]
    <3>1. \A d \in 0 .. n - 1 : x # to + d
      BY <2>9, Sizes
    <3> QED
      BY <2>6, <3>1
  <2> QED
    BY <2>6, <2>8, <2>9 DEF r
<1> QED
  BY <1>1, <1>2
-----------------------------------------------------------------------------
(* What the program holds.                                                 *)
Heads(l) == {l[s].adr - 1 : s \in {t \in Slots : l[t] # None}}
LiveIn(m, l) ==
  /\ l \in [Slots -> [adr : Nat, n : Requests] \cup {None}]
  /\ \A s \in Slots : l[s] # None =>
       /\ l[s].adr > 0 /\ m[l[s].adr - 1].size > InCells(l[s].n)
       /\ \A i \in 0 .. InCells(l[s].n) - 1 : m[l[s].adr + i] = Data(s, i)
  /\ \A s, t \in Slots : l[s] # None /\ l[t] # None /\ l[s].adr = l[t].adr => s = t
Good(h, l, S) ==
  \E R, E : Sound(h, R, Heads(l), E) /\ LiveIn(h.mem, l) /\ StaleIn(h.mem, R, S)

(* The blocks of U are as they were.                                       *)
Keeps(m, m2, U) ==
  \A u \in U : \A x \in Int : u <= x /\ x < u + m[u].size => m2[x] = m[x]

LEMMA KeepsTwice ==
  ASSUME NEW m, NEW m2, NEW m3, NEW U, Keeps(m, m2, U), Keeps(m2, m3, U),
         \A u \in U : u \in Nat /\ m[u].size \in Nat /\ m[u].size > 0
  PROVE  Keeps(m, m3, U)
<1>1. ASSUME NEW u \in U PROVE m2[u] = m[u]
  BY DEF Keeps
<1> QED
  BY <1>1 DEF Keeps

LEMMA BlocksApart ==
  ASSUME NEW m, NEW R, NEW T, NEW U, NEW E, Laid(m, R, T, U, E),
         NEW x \in (R \ {0}) \cup U, NEW y \in (R \ {0}) \cup U, x # y,
         NEW c \in Int, x <= c, c < x + m[x].size
  PROVE  ~ (y <= c /\ c < y + m[y].size)
<1> USE DEF Blocks
<1>1. Blocks(m, R, U, E)
  BY BlockFacts
<1>2. x \in Nat /\ y \in Nat /\ m[x].size \in Nat /\ m[y].size \in Nat
  BY <1>1
<1>3. x < y => x + m[x].size <= y
  BY <1>1
<1>4. y < x => y + m[y].size <= x
  BY <1>1
<1> QED
  BY <1>2, <1>3, <1>4

LEMMA RequestCells ==
  ASSUME NEW n \in Requests
  PROVE  n \in Nat /\ InCells(n) \in Nat
<1>1. n \in Nat /\ n + HDR - 1 \in Nat /\ HDR \in Nat \ {0}
  BY HeapAssumption, Sizes
<1> QED
  BY <1>1, Divides DEF InCells

LEMMA LiveFacts ==
  ASSUME NEW m, NEW l, LiveIn(m, l), NEW s \in Slots, l[s] # None
  PROVE  /\ l[s] \in [adr : Nat, n : Requests] /\ l[s].adr \in Nat /\ l[s].adr > 0 /\ l[s].n \in Requests
         /\ InCells(l[s].n) \in Nat /\ l[s].adr - 1 \in Heads(l)
         /\ m[l[s].adr - 1].size > InCells(l[s].n)
         /\ \A i \in 0 .. InCells(l[s].n) - 1 : m[l[s].adr + i] = Data(s, i)
<1>1. l[s] \in [adr : Nat, n : Requests] \cup {None}
  BY DEF LiveIn
<1>2. l[s] \in [adr : Nat, n : Requests]
  BY <1>1
<1>3. l[s].adr \in Nat /\ l[s].n \in Requests
  BY <1>2
<1>4. InCells(l[s].n) \in Nat
  BY <1>3, RequestCells
<1>5. l[s].adr - 1 \in Heads(l)
  BY DEF Heads
<1> QED
  BY <1>2, <1>3, <1>4, <1>5 DEF LiveIn

LEMMA LiveKept ==
  ASSUME NEW m, NEW m2, NEW l, LiveIn(m, l), Keeps(m, m2, Heads(l)),
         \A u \in Heads(l) : u \in Nat /\ m[u].size \in Nat
  PROVE  LiveIn(m2, l)
<1>1. ASSUME NEW s \in Slots, l[s] # None
      PROVE  /\ l[s].adr > 0 /\ m2[l[s].adr - 1].size > InCells(l[s].n)
             /\ \A i \in 0 .. InCells(l[s].n) - 1 : m2[l[s].adr + i] = Data(s, i)
  <2> DEFINE a == l[s].adr
             k == InCells(l[s].n)
             u == a - 1
  <2>1. /\ a \in Nat /\ a > 0 /\ k \in Nat /\ u \in Heads(l) /\ m[u].size > k
        /\ \A i \in 0 .. k - 1 : m[a + i] = Data(s, i)
    BY <1>1, LiveFacts
  <2>2. u \in Nat /\ m[u].size \in Nat
    BY <2>1
  <2>3. \A x \in Int : u <= x /\ x < u + m[u].size => m2[x] = m[x]
    BY <2>1 DEF Keeps
  <2> HIDE DEF u, a, k
  <2>4. m2[u] = m[u]
    BY <2>1, <2>2, <2>3
  <2>5. ASSUME NEW i \in 0 .. k - 1 PROVE m2[a + i] = Data(s, i)
    <3>1. a + i \in Int /\ u <= a + i /\ a + i < u + m[u].size
      BY <2>1, <2>2 DEF u
    <3> QED
      BY <2>1, <2>3, <3>1
  <2>6. a > 0 /\ m2[u].size > k
    BY <2>1, <2>4
  <2> QED
    BY <2>5, <2>6 DEF u, a, k
<1> QED
  BY <1>1 DEF LiveIn

(* A slot that is emptied.                                                 *)
LEMMA LiveWithout ==
  ASSUME NEW m, NEW l, LiveIn(m, l), NEW s \in Slots, l[s] # None
  PROVE  /\ LiveIn(m, [l EXCEPT ![s] = None])
         /\ Heads([l EXCEPT ![s] = None]) = Heads(l) \ {l[s].adr - 1}
<1> DEFINE k == [l EXCEPT ![s] = None]
<1>1. l \in [Slots -> [adr : Nat, n : Requests] \cup {None}]
  BY DEF LiveIn
<1>2. k[s] = None /\ \A t \in Slots \ {s} : k[t] = l[t]
  BY <1>1
<1>3. k \in [Slots -> [adr : Nat, n : Requests] \cup {None}]
  BY <1>1
<1> HIDE DEF k
<1>4. \A t \in Slots : k[t] # None => t # s /\ l[t] # None /\ k[t] = l[t]
  BY <1>2
<1>5. LiveIn(m, k)
  BY <1>3, <1>4 DEF LiveIn
<1>6. Heads(k) = Heads(l) \ {l[s].adr - 1}
  <2>1. ASSUME NEW x \in Heads(k) PROVE x \in Heads(l) \ {l[s].adr - 1}
    <3>1. PICK t \in Slots : k[t] # None /\ x = k[t].adr - 1
      BY DEF Heads
    <3>2. t # s /\ l[t] # None /\ x = l[t].adr - 1
      BY <1>4, <3>1
    <3>3. l[t].adr \in Nat /\ l[s].adr \in Nat /\ l[t].adr # l[s].adr
      <4>1. l[t].adr \in Nat /\ l[s].adr \in Nat
        BY <3>2, LiveFacts
      <4> QED
        BY <4>1, <3>2 DEF LiveIn
    <3> QED
      BY <3>2, <3>3 DEF Heads
  <2>2. ASSUME NEW x \in Heads(l) \ {l[s].adr - 1} PROVE x \in Heads(k)
    <3>1. PICK t \in Slots : l[t] # None /\ x = l[t].adr - 1
      BY DEF Heads
    <3>2. t # s
      BY <3>1
    <3> QED
      BY <3>1, <3>2, <1>2 DEF Heads
  <2> QED
    BY <2>1, <2>2
<1> QED
  BY <1>5, <1>6 DEF k

(* A slot that is filled, with what is stored in the block at c.           *)
Given(l, s, c, n) == [l EXCEPT ![s] = [adr |-> c + 1, n |-> n]]

LEMMA LiveWith ==
  ASSUME NEW m, NEW l, LiveIn(m, l), NEW s \in Slots, l[s] = None, NEW n \in Requests,
         NEW c \in Nat, c \notin Heads(l), m[c].size > InCells(n),
         \A i \in 0 .. InCells(n) - 1 : m[(c + 1) + i] = Data(s, i)
  PROVE  LiveIn(m, Given(l, s, c, n)) /\ Heads(Given(l, s, c, n)) = Heads(l) \cup {c}
<1> DEFINE r == [adr |-> c + 1, n |-> n]
           k == [l EXCEPT ![s] = r]
<1>1. l \in [Slots -> [adr : Nat, n : Requests] \cup {None}]
  BY DEF LiveIn
<1>2. r \in [adr : Nat, n : Requests] /\ r.adr = c + 1 /\ r.n = n /\ r # None
  <2>1. r \in [adr : Nat, n : Nat]
    BY RequestCells
  <2> QED
    BY <2>1, HeapAssumption
<1> HIDE DEF r
<1>3. k[s] = r /\ (\A t \in Slots \ {s} : k[t] = l[t]) /\ k \in [Slots -> [adr : Nat, n : Requests] \cup {None}]
  BY <1>1, <1>2
<1> HIDE DEF k
<1>4. \A t \in Slots : l[t] # None => t # s /\ l[t].adr \in Nat /\ l[t].adr - 1 # c
  <2> SUFFICES ASSUME NEW t \in Slots, l[t] # None PROVE t # s /\ l[t].adr \in Nat /\ l[t].adr - 1 # c
    OBVIOUS
  <2>1. l[t].adr \in Nat /\ l[t].adr - 1 \in Heads(l)
    BY LiveFacts
  <2> QED
    BY <2>1
<1>5. LiveIn(m, k)
  <2>1. ASSUME NEW t \in Slots, k[t] # None
        PROVE  /\ k[t].adr > 0 /\ m[k[t].adr - 1].size > InCells(k[t].n)
               /\ \A i \in 0 .. InCells(k[t].n) - 1 : m[k[t].adr + i] = Data(t, i)
    <3>1. CASE t = s
      <4>1. c + 1 > 0 /\ (c + 1) - 1 = c
        OBVIOUS
      <4> QED
        BY <3>1, <4>1, <1>2, <1>3
    <3>2. CASE t # s
      BY <2>1, <3>2, <1>3 DEF LiveIn
    <3> QED
      BY <3>1, <3>2
  <2>2. ASSUME NEW t \in Slots, NEW t2 \in Slots, k[t] # None, k[t2] # None, k[t].adr = k[t2].adr
        PROVE  t = t2
    <3>1. CASE t = s /\ t2 = s
      BY <3>1
    <3>2. CASE t = s /\ t2 # s
      <4>1. l[t2] # None /\ l[t2].adr = c + 1
        BY <2>2, <3>2, <1>2, <1>3
      <4> QED
        BY <4>1, <1>4
    <3>3. CASE t # s /\ t2 = s
      <4>1. l[t] # None /\ l[t].adr = c + 1
        BY <2>2, <3>3, <1>2, <1>3
      <4> QED
        BY <4>1, <1>4
    <3>4. CASE t # s /\ t2 # s
      BY <2>2, <3>4, <1>3 DEF LiveIn
    <3> QED
      BY <3>1, <3>2, <3>3, <3>4
  <2> QED
    BY <2>1, <2>2, <1>3 DEF LiveIn
<1>6. Heads(k) = Heads(l) \cup {c}
  <2>1. ASSUME NEW x \in Heads(k) PROVE x \in Heads(l) \cup {c}
    <3>1. PICK t \in Slots : k[t] # None /\ x = k[t].adr - 1
      BY DEF Heads
    <3>2. CASE t = s
      <4>1. x = (c + 1) - 1
        BY <3>1, <3>2, <1>2, <1>3
      <4> QED
        BY <4>1
    <3>3. CASE t # s
      BY <3>1, <3>3, <1>3 DEF Heads
    <3> QED
      BY <3>2, <3>3
  <2>2. ASSUME NEW x \in Heads(l) PROVE x \in Heads(k)
    <3>1. PICK t \in Slots : l[t] # None /\ x = l[t].adr - 1
      BY DEF Heads
    <3> QED
      BY <3>1, <1>3, <1>4 DEF Heads
  <2>3. c \in Heads(k)
    <3>1. k[s] # None /\ k[s].adr - 1 = c
      BY <1>2, <1>3
    <3> QED
      BY <3>1 DEF Heads
  <2> QED
    BY <2>1, <2>2, <2>3
<1> QED
  BY <1>5, <1>6 DEF k, r, Given
-----------------------------------------------------------------------------
(* The steps.                                                              *)
Held(m, Q, E, s, a, n) ==
  \A i \in 0 .. InCells(n) - 1 : /\ a + i \in 0 .. Top /\ a + i < E /\ a + i \notin Q
                                /\ m[a + i] = Data(s, i)
FreedWith(h, g, l, S, s) ==
  \E Q, E : /\ Sound(g, Q, Heads([l EXCEPT ![s] = None]), E)
            /\ LiveIn(g.mem, [l EXCEPT ![s] = None])
            /\ StaleIn(g.mem, Q, S \cup {l[s].adr})
            /\ Held(g.mem, Q, E, s, l[s].adr, l[s].n)
            /\ g.brk = h.brk

(* free() leaves what was in the block.                                    *)
LEMMA FreeStep ==
  ASSUME NEW h, NEW l, NEW S, Good(h, l, S), NEW s \in Slots, l[s] # None
  PROVE  FreedWith(h, Freed(h, l[s].adr), l, S, s)
<1> USE DEF Blocks
<1> DEFINE u == l[s].adr - 1
           U == Heads(l)
           m == h.mem
           g == Freed(h, l[s].adr)
           V == U \ {u}
           k == InCells(l[s].n)
<1>1. PICK R, E : Sound(h, R, U, E) /\ LiveIn(m, l) /\ StaleIn(m, R, S)
  BY DEF Good
<1>2. /\ l[s].adr \in Nat /\ u \in U /\ k \in Nat /\ u + 1 = l[s].adr /\ m[u].size > k
      /\ \A i \in 0 .. k - 1 : m[l[s].adr + i] = Data(s, i)
  BY <1>1, LiveFacts
<1>3. LiveIn(m, [l EXCEPT ![s] = None]) /\ Heads([l EXCEPT ![s] = None]) = V
  BY <1>1, LiveWithout
<1> HIDE DEF U, u, m, k
<1>4. \E Q : Sound(Freed(h, u + 1), Q, V, E) /\ Frees(m, R, u, Freed(h, u + 1).mem, Q)
  BY <1>1, <1>2, FreedSound DEF m
<1>5. PICK Q : Sound(g, Q, V, E) /\ Frees(m, R, u, g.mem, Q)
  BY <1>2, <1>4
<1> HIDE DEF g
<1>6. Laid(m, R, {}, U, E) /\ DOMAIN m = 0 .. Top /\ U \cap R = {}
  BY <1>1 DEF Sound, Laid, m
<1>7. Blocks(m, R, U, E)
  BY <1>6, BlockFacts
<1>8. \A c \in 0 .. Top : c \notin R \cup {u} => g.mem[c] = m[c] /\ c \notin Q
  BY <1>5, <1>6 DEF Frees
<1>9. Keeps(m, g.mem, V)
  <2> SUFFICES ASSUME NEW v \in V, NEW x \in Int, v <= x, x < v + m[v].size PROVE g.mem[x] = m[x]
    BY DEF Keeps
  <2>1. v \in U /\ v # u /\ v \notin R
    BY <1>6
  <2>2. CASE x = v
    <3>1. x \in 0 .. Top /\ x \notin R \cup {u}
      BY <2>1, <2>2, <1>7
    <3> QED
      BY <3>1, <1>8
  <2>3. CASE x # v
    <3>1. v < x
      BY <2>1, <2>3, <1>7
    <3>2. x \notin R \cup U /\ x \in 0 .. Top
      BY <2>1, <3>1, <1>6, NoneInside
    <3> QED
      BY <3>2, <1>2, <1>8
  <2> QED
    BY <2>2, <2>3
<1>10. LiveIn(g.mem, [l EXCEPT ![s] = None])
  <2>1. \A v \in V : v \in Nat /\ m[v].size \in Nat
    BY <1>7
  <2> QED
    BY <1>3, <1>9, <2>1, LiveKept
<1>11. StaleIn(g.mem, Q, S \cup {l[s].adr})
  <2>1. u \in 0 .. Top /\ u # 0 /\ R \subseteq 0 .. Top /\ \A c \in R \cup {u} : m[c] \in Headers
    BY <1>2, <1>7
  <2>2. StaleIn(g.mem, Q, S \cup {u + 1})
    BY <1>1, <1>5, <1>6, <2>1, StaleKept
  <2> QED
    BY <1>2, <2>2
<1>12. Held(g.mem, Q, E, s, l[s].adr, l[s].n)
  <2> SUFFICES ASSUME NEW i \in 0 .. k - 1
               PROVE  /\ l[s].adr + i \in 0 .. Top /\ l[s].adr + i < E /\ l[s].adr + i \notin Q
                      /\ g.mem[l[s].adr + i] = Data(s, i)
    BY DEF Held, k
  <2> DEFINE x == l[s].adr + i
  <2>1. u \in Nat /\ m[u].size \in Nat /\ u + m[u].size <= E /\ E \in Nat
    BY <1>2, <1>7
  <2>2. x \in Int /\ u < x /\ x < u + m[u].size /\ x < E
    BY <2>1, <1>2
  <2>3. m[x] = Data(s, i)
    BY <1>2
  <2> HIDE DEF x
  <2>4. x \notin R \cup U /\ x \in 0 .. Top
    BY <2>2, <1>2, <1>6, NoneInside
  <2>5. x \notin R \cup {u}
    BY <2>4, <1>2
  <2> QED
    BY <2>2, <2>3, <2>4, <2>5, <1>8 DEF x
<1> QED
  <2>1. g.brk = h.brk
    BY <1>1, <1>5 DEF Sound
  <2> QED
    BY <2>1, <1>3, <1>5, <1>10, <1>11, <1>12 DEF FreedWith, g

(* A block that was found is cut to size and filled.  What was found has   *)
(* become k by the copy of realloc(), of which the first j cells are kept. *)
Prepared(k, m, s, a, n, j) ==
  /\ DOMAIN k = DOMAIN m
  /\ \A x \in 0 .. Top : ~ (a <= x /\ x < a + n) => k[x] = m[x]
  /\ \A i \in 0 .. n - 1 : i < j => k[a + i] = Data(s, i)
LEMMA GiveStep ==
  ASSUME NEW h, NEW R, NEW E, NEW l, Sound(h, R, Heads(l), E), LiveIn(h.mem, l),
         NEW s \in Slots, l[s] = None, NEW n \in Requests, n + HDR - 1 < W,
         NEW p \in R, NEW c, c = h.mem[p].ptr, c # 0, h.mem[c].size >= Nmults(n),
         NEW k, NEW j \in Nat, Prepared(k, h.mem, s, c + 1, InCells(n), j),
         NEW g, g = Cutup(HeapOf(k, h.list, h.brk), p, Nmults(n))
  PROVE  Good(HeapOf(Fill(g.mem, s, c + 1, j, InCells(n)), g.list, g.brk), Given(l, s, c, n), {})
<1> USE DEF Blocks
<1> DEFINE U == Heads(l)
           m == h.mem
           N == InCells(n)
           u == Nmults(n)
           m2 == Fill(g.mem, s, c + 1, j, N)
           h1 == HeapOf(k, h.list, h.brk)
<1>0. /\ DOMAIN k = DOMAIN m
      /\ \A x \in 0 .. Top : ~ (c + 1 <= x /\ x < (c + 1) + N) => k[x] = m[x]
      /\ \A i \in 0 .. N - 1 : i < j => k[(c + 1) + i] = Data(s, i)
  BY DEF Prepared
<1>1. N \in Nat /\ u = N + 1 /\ n \in Nat
  <2>1. n \in Nat
    BY RequestCells
  <2> QED
    BY <2>1, CellsAsked
<1> HIDE DEF U, u, m2, N, h1
<1>2. Laid(m, R, {}, U, E) /\ h.list \in R /\ h.brk = Addr(E) /\ h.brk <= SP
  BY DEF Sound, U
<1>3. Blocks(m, R, U, E) /\ DOMAIN m = 0 .. Top /\ U \cap R = {}
  <2>1. Blocks(m, R, U, E)
    BY <1>2, BlockFacts
  <2> QED
    BY <2>1, <1>2 DEF Laid
<1>4. c \in R /\ c \in Nat /\ c \in (R \ {0}) \cup U /\ c \notin U /\ m[c].size \in Nat /\ m[c].size >= u
  BY <1>3 DEF u
<1>5. \A x \in Int : c < x /\ x < c + m[c].size => x \notin R \cup U /\ x \in 0 .. Top
  BY <1>2, <1>4, NoneInside
<1>6. \A x \in 0 .. Top : ~ (c < x /\ x < c + u) => k[x] = m[x]
  <2> SUFFICES ASSUME NEW x \in 0 .. Top, ~ (c < x /\ x < c + u) PROVE k[x] = m[x]
    OBVIOUS
  <2>1. ~ (c + 1 <= x /\ x < (c + 1) + N)
    BY <1>1, <1>4, Sizes
  <2> QED
    BY <2>1, <1>0
<1>7. \A x \in R \cup U : k[x] = m[x]
  <2> SUFFICES ASSUME NEW x \in R \cup U PROVE k[x] = m[x]
    OBVIOUS
  <2>1. x \in 0 .. Top /\ x \in Int
    BY <1>3
  <2>2. ~ (c < x /\ x < c + m[c].size)
    BY <1>5, <2>1
  <2>3. ~ (c < x /\ x < c + u)
    BY <2>1, <2>2, <1>1, <1>4
  <2> QED
    BY <2>1, <2>3, <1>6
<1>8. Laid(k, R, {}, U, E)
  BY <1>0, <1>2, <1>7, Written
<1>9. Sound(h1, R, U, E) /\ h1.mem = k
  BY <1>2, <1>8 DEF Sound, h1, HeapOf
(* A block in use keeps away from the one found.                           *)
<1>10. ASSUME NEW v \in U, NEW x \in Int, v <= x, x < v + m[v].size
       PROVE  x \in 0 .. Top /\ x \notin R /\ ~ (c <= x /\ x < c + m[c].size)
  <2>1. v \in (R \ {0}) \cup U /\ v # c /\ v \in Nat /\ v \notin R /\ v \in 0 .. Top
    BY <1>3, <1>4
  <2>2. ~ (c <= x /\ x < c + m[c].size)
    BY <1>2, <1>4, <1>10, <2>1, BlocksApart
  <2>3. x \in 0 .. Top /\ x \notin R
    <3>1. CASE x = v
      BY <3>1, <2>1
    <3>2. CASE x # v
      <4>1. v < x
        BY <3>2, <2>1, <1>10
      <4> QED
        BY <4>1, <2>1, <1>2, <1>10, NoneInside
    <3> QED
      BY <3>1, <3>2
  <2> QED
    BY <2>2, <2>3
<1>11. Keeps(m, k, U)
  <2> SUFFICES ASSUME NEW v \in U, NEW x \in Int, v <= x, x < v + m[v].size PROVE k[x] = m[x]
    BY DEF Keeps
  <2>1. x \in 0 .. Top /\ ~ (c <= x /\ x < c + m[c].size)
    BY <1>10
  <2>2. ~ (c < x /\ x < c + u)
    BY <2>1, <1>1, <1>4
  <2> QED
    BY <2>1, <2>2, <1>6
<1>12. k[p] = m[p] /\ k[c] = m[c]
  BY <1>4, <1>7
<1>13. PICK Q : /\ Sound(g, Q, U \cup {c}, E) /\ g.mem[c].size >= u
                /\ \A x \in 0 .. Top : x \notin R /\ (x = c + u => x >= c + k[c].size) => g.mem[x] = k[x]
  <2>1. g = Cutup(h1, p, u) /\ h1.mem = k
    BY <1>9 DEF h1, u
  <2>2. c = h1.mem[p].ptr /\ h1.mem[c].size >= u /\ u \in Nat /\ u > 0
    BY <1>1, <1>4, <1>9, <1>12
  <2>3. Cuts(h1, Cutup(h1, p, u), R, U, E, c, u)
    BY <1>9, <2>2, CutSound
  <2>4. Cuts(h1, g, R, U, E, c, u)
    BY <2>1, <2>3
  <2> QED
    BY <2>1, <2>4 DEF Cuts
<1>14. Keeps(k, g.mem, U)
  <2> SUFFICES ASSUME NEW v \in U, NEW x \in Int, v <= x, x < v + k[v].size PROVE g.mem[x] = k[x]
    BY DEF Keeps
  <2>1. k[v] = m[v]
    BY <1>7
  <2>2. x \in 0 .. Top /\ x \notin R /\ ~ (c <= x /\ x < c + m[c].size)
    BY <2>1, <1>10
  <2>3. x = c + u => x >= c + k[c].size
    BY <2>2, <1>1, <1>4, <1>12
  <2> QED
    BY <2>2, <2>3, <1>13
<1>15. \A x \in Int : c < x /\ x < c + u => g.mem[x] = k[x]
  <2> SUFFICES ASSUME NEW x \in Int, c < x, x < c + u PROVE g.mem[x] = k[x]
    OBVIOUS
  <2>1. x \notin R /\ x \in 0 .. Top
    BY <1>1, <1>4, <1>5
  <2>2. x # c + u
    BY <1>1, <1>4
  <2> QED
    BY <2>1, <2>2, <1>13
<1>16. Laid(g.mem, Q, {}, U \cup {c}, E) /\ DOMAIN g.mem = 0 .. Top /\ (U \cup {c}) \cap Q = {}
  BY <1>13 DEF Sound, Laid
<1>17. Blocks(g.mem, Q, U \cup {c}, E)
  BY <1>16, BlockFacts
<1>18. /\ DOMAIN m2 = 0 .. Top
       /\ \A x \in 0 .. Top : ~ ((c + 1) + j <= x /\ x < (c + 1) + N) => m2[x] = g.mem[x]
       /\ \A x \in 0 .. Top : (c + 1) + j <= x /\ x < (c + 1) + N => m2[x] = Data(s, x - (c + 1))
  BY <1>16 DEF Fill, m2
<1>19. \A x \in 0 .. Top : ~ (c < x /\ x < c + u) => m2[x] = g.mem[x]
  <2> SUFFICES ASSUME NEW x \in 0 .. Top, ~ (c < x /\ x < c + u) PROVE m2[x] = g.mem[x]
    OBVIOUS
  <2>1. ~ ((c + 1) + j <= x /\ x < (c + 1) + N)
    BY <1>1, <1>4, Sizes
  <2> QED
    BY <2>1, <1>18
<1>20. Laid(m2, Q, {}, U \cup {c}, E)
  <2>1. ASSUME NEW x \in Q \cup (U \cup {c}) PROVE m2[x] = g.mem[x]
    <3>1. x \in 0 .. Top /\ x \in Int /\ c \in (Q \ {0}) \cup (U \cup {c}) /\ g.mem[c].size \in Nat
      <4>1. c \in (Q \ {0}) \cup (U \cup {c})
        OBVIOUS
      <4>2. x \in 0 .. Top
        BY <1>17
      <4>3. g.mem[c].size \in Nat
        BY <1>17, <4>1
      <4> QED
        BY <4>1, <4>2, <4>3
    <3>2. ~ (c < x /\ x < c + g.mem[c].size)
      BY <3>1, <1>16, NoneInside
    <3>3. ~ (c < x /\ x < c + u)
      <4> DEFINE z == g.mem[c].size
      <4>a. u \in Nat /\ g.mem[c].size >= u
        BY <1>1, <1>4, <1>13
      <4>b. c \in Nat
        BY <1>1, <1>4
      <4>1. c \in Nat /\ x \in Int /\ z \in Nat /\ u \in Nat /\ z >= u /\ ~ (c < x /\ x < c + z)
        BY <3>1, <3>2, <4>a, <4>b
      <4> HIDE DEF z
      <4> QED
        BY <4>1
    <3> QED
      BY <3>1, <3>3, <1>19
  <2> QED
    BY <2>1, <1>16, <1>18, Written
<1>21. Keeps(g.mem, m2, U)
  <2> SUFFICES ASSUME NEW v \in U, NEW x \in Int, v <= x, x < v + g.mem[v].size PROVE m2[x] = g.mem[x]
    BY DEF Keeps
  <2>1. /\ v \in Nat /\ k[v].size \in Nat /\ k[v].size > 0
    BY <1>3, <1>7
  <2>2. g.mem[v] = k[v] /\ k[v] = m[v]
    BY <2>1, <1>7, <1>14 DEF Keeps
  <2>3. x \in 0 .. Top /\ ~ (c <= x /\ x < c + m[c].size)
    BY <2>2, <1>10
  <2>4. ~ (c < x /\ x < c + u)
    BY <2>3, <1>1, <1>4
  <2> QED
    BY <2>3, <2>4, <1>19
<1>22. Keeps(m, m2, U)
  <2>1. \A v \in U : /\ v \in Nat /\ m[v].size \in Nat /\ m[v].size > 0
                     /\ k[v].size \in Nat /\ k[v].size > 0
    BY <1>3, <1>7
  <2>2. Keeps(k, m2, U)
    BY <2>1, <1>14, <1>21, KeepsTwice
  <2> QED
    BY <2>1, <2>2, <1>11, KeepsTwice
<1>23. LiveIn(m2, l)
  <2>1. \A v \in U : v \in Nat /\ m[v].size \in Nat
    BY <1>3
  <2> QED
    BY <2>1, <1>22, LiveKept DEF U
<1>24. m2[c].size > N
  <2>1. m2[c] = g.mem[c]
    <3>1. c \in 0 .. Top /\ ~ (c < c)
      BY <1>3, <1>4
    <3> QED
      BY <3>1, <1>19
  <2> QED
    <3>1. g.mem[c].size \in Nat
      <4>1. c \in (Q \ {0}) \cup (U \cup {c})
        OBVIOUS
      <4> QED
        BY <4>1, <1>17
    <3>2. g.mem[c].size >= u
      BY <1>13
    <3> QED
      BY <2>1, <3>1, <3>2, <1>1
<1>25. ASSUME NEW i \in 0 .. N - 1 PROVE m2[(c + 1) + i] = Data(s, i)
  <2> DEFINE x == (c + 1) + i
  <2>1. x \in Int /\ c < x /\ x < c + u /\ x < c + m[c].size /\ x < (c + 1) + N /\ x - (c + 1) = i
    BY <1>1, <1>4
  <2> HIDE DEF x
  <2>2. x \in 0 .. Top
    BY <2>1, <1>5
  <2>3. CASE i < j
    <3>1. ~ ((c + 1) + j <= x)
      BY <2>1, <2>3, <1>4
    <3>2. m2[x] = k[x]
      BY <2>1, <2>2, <3>1, <1>15, <1>18
    <3>3. k[x] = Data(s, i)
      BY <2>3, <1>0 DEF x
    <3> QED
      BY <3>2, <3>3 DEF x
  <2>4. CASE ~ (i < j)
    <3>1. (c + 1) + j <= x
      BY <2>1, <2>4, <1>4
    <3>2. m2[x] = Data(s, i)
      BY <2>1, <2>2, <3>1, <1>18
    <3> QED
      BY <3>2 DEF x
  <2> QED
    BY <2>3, <2>4
<1> DEFINE l2 == Given(l, s, c, n)
<1>26. LiveIn(m2, l2) /\ Heads(l2) = U \cup {c}
  <2>1. c \notin Heads(l) /\ m2[c].size > InCells(n)
    BY <1>4, <1>24 DEF U, N
  <2>2. \A i \in 0 .. InCells(n) - 1 : m2[(c + 1) + i] = Data(s, i)
    BY <1>25 DEF N
  <2>3. LiveIn(m2, l2) /\ Heads(l2) = Heads(l) \cup {c}
    BY <2>1, <2>2, <1>4, <1>23, LiveWith
  <2> QED
    BY <2>3 DEF U
<1> HIDE DEF l2
<1>27. Sound(HeapOf(m2, g.list, g.brk), Q, Heads(l2), E)
  BY <1>13, <1>20, <1>26 DEF Sound, HeapOf
<1>28. StaleIn(m2, Q, {})
  BY DEF StaleIn
<1>29. HeapOf(m2, g.list, g.brk).mem = m2
  BY DEF HeapOf
<1>30. Good(HeapOf(m2, g.list, g.brk), l2, {})
  BY <1>26, <1>27, <1>28, <1>29 DEF Good
<1> QED
  BY <1>30 DEF m2, l2, N

LEMMA SameFields ==
  ASSUME NEW h, NEW g, NEW l, NEW S, Good(h, l, S), g.mem = h.mem, g.list = h.list, g.brk = h.brk
  PROVE  Good(g, l, S)
BY DEF Good, Sound

(* The search leaves what the program holds, and what was just freed.      *)
FoundWith(h, R, E, l, u, f) ==
  \E Q, F : /\ Sound(f.h, Q, Heads(l), F) /\ LiveIn(f.h.mem, l) /\ f.pp \in Q
            /\ f.h.mem[f.pp].ptr # 0 /\ f.h.mem[f.h.mem[f.pp].ptr].size >= u
            /\ \A c \in 0 .. Top : c \notin R /\ c < E => f.h.mem[c] = h.mem[c]

LEMMA FindStep ==
  ASSUME NEW h, NEW R, NEW E, NEW l, Sound(h, R, Heads(l), E), LiveIn(h.mem, l),
         NEW n \in Requests, Fits(h.brk, n), Finds(h, Nmults(n))
  PROVE  FoundWith(h, R, E, l, Nmults(n), FindBlock(h, Nmults(n)))
<1> USE DEF Blocks
<1> DEFINE U == Heads(l)
           u == Nmults(n)
           f == FindBlock(h, u)
           m == h.mem
<1>1. u \in Nat /\ u > 0 /\ (CanGet(h, u) => h.brk + ToGet(u) * HDR + SAFETY < W)
  <2>1. n \in Nat /\ n + HDR - 1 < W
    BY RequestCells DEF Fits
  <2>2. InCells(n) \in Nat /\ u = InCells(n) + 1
    BY <2>1, CellsAsked
  <2>3. CanGet(h, u) => h.brk + ToGet(u) * HDR + SAFETY < W
    BY DEF Fits, CanGet
  <2> HIDE DEF u
  <2> QED
    BY <2>2, <2>3
<1> HIDE DEF U, u, f, m
<1>2. Sound(h, R, U, E) /\ Finds(h, u)
  BY DEF U, u
<1>3. Found(h, R, U, E, u, FindBlock(h, u))
  BY <1>1, <1>2, FindSound
<1>4. PICK Q, F : /\ Sound(f.h, Q, U, F) /\ f.pp \in Q
                  /\ f.h.mem[f.pp].ptr # 0 /\ f.h.mem[f.h.mem[f.pp].ptr].size >= u
                  /\ \A c \in 0 .. Top : c \notin R /\ c < E => f.h.mem[c] = m[c]
  BY <1>3 DEF Found, f, m
<1>5. Laid(m, R, {}, U, E) /\ U \cap R = {}
  BY <1>2 DEF Sound, Laid, m
<1>6. Blocks(m, R, U, E)
  BY <1>5, BlockFacts
<1>7. Keeps(m, f.h.mem, U)
  <2> SUFFICES ASSUME NEW v \in U, NEW x \in Int, v <= x, x < v + m[v].size PROVE f.h.mem[x] = m[x]
    BY DEF Keeps
  <2>1. v \in Nat /\ v \notin R /\ v \in 0 .. Top /\ m[v].size \in Nat /\ v + m[v].size <= E /\ E \in Nat
    BY <1>5, <1>6
  <2>2. x < E
    BY <2>1
  <2>3. x \in 0 .. Top /\ x \notin R
    <3>1. CASE x = v
      BY <3>1, <2>1
    <3>2. CASE x # v
      <4>1. v < x
        BY <2>1, <3>2
      <4> QED
        BY <4>1, <1>5, NoneInside
    <3> QED
      BY <3>1, <3>2
  <2> QED
    BY <2>2, <2>3, <1>4
<1>8. LiveIn(f.h.mem, l)
  <2>1. \A v \in U : v \in Nat /\ m[v].size \in Nat
    BY <1>6
  <2> QED
    BY <2>1, <1>7, LiveKept DEF U, m
<1>9. FoundWith(h, R, E, l, u, f)
  BY <1>4, <1>8 DEF FoundWith, U, m
<1> QED
  BY <1>9 DEF u, f

LEMMA MallocStep ==
  ASSUME NEW h, NEW l, NEW S, Good(h, l, S), NEW s \in Slots, l[s] = None, NEW n \in Requests,
         Fits(h.brk, n), Finds(h, Nmults(n)),
         NEW f, f = FindBlock(h, Nmults(n)), NEW g, g = Cutup(f.h, f.pp, Nmults(n)),
         NEW c, c = f.h.mem[f.pp].ptr
  PROVE  Good(HeapOf(Fill(g.mem, s, c + 1, 0, InCells(n)), g.list, g.brk), Given(l, s, c, n), {})
<1>1. PICK R, E : Sound(h, R, Heads(l), E) /\ LiveIn(h.mem, l)
  BY DEF Good
<1>2. FoundWith(h, R, E, l, Nmults(n), f)
  BY <1>1, FindStep
<1>3. PICK Q, F : /\ Sound(f.h, Q, Heads(l), F) /\ LiveIn(f.h.mem, l) /\ f.pp \in Q
                  /\ c # 0 /\ f.h.mem[c].size >= Nmults(n)
  BY <1>2 DEF FoundWith
<1>4. g = Cutup(HeapOf(f.h.mem, f.h.list, f.h.brk), f.pp, Nmults(n))
  BY DEF Cutup, HeapOf
<1>5. /\ n + HDR - 1 < W /\ 0 \in Nat
      /\ \A i \in 0 .. InCells(n) - 1 : ~ (i < 0)
  BY RequestCells DEF Fits
<1> DEFINE k == f.h.mem
<1>6. Prepared(k, f.h.mem, s, c + 1, InCells(n), 0)
  BY <1>5 DEF Prepared
<1>7. g = Cutup(HeapOf(k, f.h.list, f.h.brk), f.pp, Nmults(n))
  BY <1>4
<1> HIDE DEF k
<1>8. Sound(f.h, Q, Heads(l), F) /\ LiveIn(f.h.mem, l) /\ f.pp \in Q /\ n + HDR - 1 < W /\ 0 \in Nat
  BY <1>3, <1>5
<1>9. c = f.h.mem[f.pp].ptr /\ c # 0 /\ f.h.mem[c].size >= Nmults(n)
  BY <1>3
<1> QED
  BY <1>6, <1>7, <1>8, <1>9, GiveStep

(* realloc() copies within the block it found, and what was held before   *)
(* is there afterwards, as far as the block reaches.                       *)
LEMMA MovedBlock ==
  ASSUME NEW m, NEW Q, NEW U, NEW F, Laid(m, Q, {}, U, F), NEW c \in (Q \ {0}) \cup U,
         NEW N \in Nat, m[c].size >= N + 1, NEW a \in Nat
  PROVE  CopyOf(Copy(m, c + 1, a, N), m, c + 1, a, N)
<1> USE DEF Blocks
<1>1. c \in Nat /\ m[c].size \in Nat /\ DOMAIN m = 0 .. Top /\ Top \in Nat
  BY BlockFacts, Sizes DEF Laid
<1>2. ASSUME NEW d \in 0 .. N - 1 PROVE (c + 1) + d <= Top
  <2> DEFINE x == (c + 1) + d
             z == m[c].size
  <2>1. z \in Nat /\ z >= N + 1
    BY <1>1
  <2> HIDE DEF z
  <2>2. x \in Int /\ c < x /\ x < c + z
    BY <2>1, <1>1
  <2> HIDE DEF x
  <2>3. x \in 0 .. Top
    BY <2>2, NoneInside DEF z
  <2> QED
    BY <2>3, <1>1 DEF x
<1>3. c + 1 \in Nat
  BY <1>1
<1>4. Reaches(c + 1, N)
  BY <1>2 DEF Reaches
<1> QED
  BY <1>1, <1>3, <1>4, CopyIs

SameBelow(m, m0, R, E) == \A x \in 0 .. Top : x \notin R /\ x < E => m[x] = m0[x]
LEMMA MovedData ==
  ASSUME NEW m0, NEW m, NEW R, NEW E, NEW s, NEW a \in Nat, NEW b \in Requests, Held(m0, R, E, s, a, b),
         SameBelow(m, m0, R, E), NEW k, NEW to, NEW N \in Nat, CopyOf(k, m, to, a, N)
  PROVE  Prepared(k, m, s, to, N, InCells(b))
<1> DEFINE j == InCells(b)
<1>1. j \in Nat /\ Top \in Nat
  BY RequestCells, Sizes
<1>2. \A i \in 0 .. j - 1 : a + i \in 0 .. Top /\ a + i < E /\ a + i \notin R /\ m0[a + i] = Data(s, i)
  BY DEF Held
<1> HIDE DEF j
<1> SUFFICES ASSUME NEW i \in 0 .. N - 1, i < j PROVE k[to + i] = Data(s, i)
  BY DEF j, Prepared, CopyOf
<1>3. i \in 0 .. j - 1
  BY <1>1
<1>4. a + i \in 0 .. Top /\ a + i < E /\ a + i \notin R /\ m0[a + i] = Data(s, i)
  BY <1>2, <1>3
<1>5. m[a + i] = Data(s, i)
  BY <1>4 DEF SameBelow
<1>6. a + i <= Top
  BY <1>1, <1>4
<1> QED
  BY <1>5, <1>6 DEF CopyOf

(* What realloc() makes of the block that was found.                       *)
Moves(f, s, a, b, n) ==
  LET c == f.h.mem[f.pp].ptr
      g == Cutup(HeapOf(Copy(f.h.mem, c + 1, a, InCells(n)), f.h.list, f.h.brk), f.pp, Nmults(n))
  IN HeapOf(Fill(g.mem, s, c + 1, InCells(b), InCells(n)), g.list, g.brk)

LEMMA MovesGood ==
  ASSUME NEW h, NEW R, NEW E, NEW l, NEW f, NEW n \in Requests, n + HDR - 1 < W,
         FoundWith(h, R, E, l, Nmults(n), f),
         NEW s \in Slots, l[s] = None, NEW a \in Nat, NEW b \in Requests, Held(h.mem, R, E, s, a, b)
  PROVE  Good(Moves(f, s, a, b, n), Given(l, s, f.h.mem[f.pp].ptr, n), {})
<1>1. PICK Q, F : /\ Sound(f.h, Q, Heads(l), F) /\ LiveIn(f.h.mem, l) /\ f.pp \in Q
                  /\ f.h.mem[f.pp].ptr # 0 /\ f.h.mem[f.h.mem[f.pp].ptr].size >= Nmults(n)
                  /\ \A x \in 0 .. Top : x \notin R /\ x < E => f.h.mem[x] = h.mem[x]
  BY DEF FoundWith
<1>2. InCells(n) \in Nat /\ Nmults(n) = InCells(n) + 1 /\ InCells(b) \in Nat
  <2>1. n \in Nat /\ InCells(b) \in Nat
    BY RequestCells
  <2> QED
    BY <2>1, CellsAsked
<1> DEFINE m == f.h.mem
           p == f.pp
           c == m[p].ptr
           N == InCells(n)
           k == Copy(m, c + 1, a, N)
           g == Cutup(HeapOf(k, f.h.list, f.h.brk), p, Nmults(n))
<1>3. /\ Sound(f.h, Q, Heads(l), F) /\ LiveIn(f.h.mem, l) /\ p \in Q
      /\ c = f.h.mem[p].ptr /\ c # 0 /\ m[c].size >= Nmults(n) /\ m = f.h.mem
      /\ SameBelow(m, h.mem, R, E)
  BY <1>1 DEF SameBelow
<1>4. Moves(f, s, a, b, n) = HeapOf(Fill(g.mem, s, c + 1, InCells(b), InCells(n)), g.list, g.brk)
  BY DEF Moves
<1>5. N = InCells(n) /\ k = Copy(m, c + 1, a, N) /\ g = Cutup(HeapOf(k, f.h.list, f.h.brk), p, Nmults(n))
  OBVIOUS
<1>6. c = m[p].ptr
  OBVIOUS
<1>7. c = f.h.mem[f.pp].ptr
  OBVIOUS
<1> HIDE DEF m, p, c, N, k, g
<1>8. Laid(m, Q, {}, Heads(l), F) /\ c \in Q \ {0}
  <2>1. Laid(m, Q, {}, Heads(l), F)
    BY <1>3 DEF Sound
  <2>2. Blocks(m, Q, Heads(l), F)
    BY <2>1, BlockFacts
  <2>3. c \in Q
    BY <2>2, <1>3, <1>6 DEF Blocks
  <2> QED
    BY <2>1, <2>3, <1>3
<1>9. c \in (Q \ {0}) \cup Heads(l) /\ m[c].size >= N + 1 /\ N \in Nat
  BY <1>2, <1>3, <1>5, <1>8
<1>10. CopyOf(k, m, c + 1, a, N)
  <2>1. CopyOf(Copy(m, c + 1, a, N), m, c + 1, a, N)
    BY <1>8, <1>9, MovedBlock
  <2> QED
    BY <2>1, <1>5
<1>11. Prepared(k, m, s, c + 1, N, InCells(b))
  BY <1>3, <1>9, <1>10, MovedData
<1>12. Prepared(k, f.h.mem, s, c + 1, InCells(n), InCells(b)) /\ f.h.mem[c].size >= Nmults(n)
  BY <1>3, <1>5, <1>11
<1>13. Good(HeapOf(Fill(g.mem, s, c + 1, InCells(b), InCells(n)), g.list, g.brk), Given(l, s, c, n), {})
  <2> DEFINE j == InCells(b)
  <2>1. Sound(f.h, Q, Heads(l), F) /\ LiveIn(f.h.mem, l) /\ p \in Q /\ j \in Nat
    BY <1>2, <1>3
  <2>2. c = f.h.mem[p].ptr /\ c # 0 /\ f.h.mem[c].size >= Nmults(n)
    BY <1>3, <1>12
  <2>3. Prepared(k, f.h.mem, s, c + 1, InCells(n), j)
    BY <1>12
  <2>4. g = Cutup(HeapOf(k, f.h.list, f.h.brk), p, Nmults(n))
    BY <1>5
  <2> HIDE DEF j
  <2>5. Good(HeapOf(Fill(g.mem, s, c + 1, j, InCells(n)), g.list, g.brk), Given(l, s, c, n), {})
    BY <2>1, <2>2, <2>3, <2>4, GiveStep
  <2> QED
    BY <2>5 DEF j
<1> QED
  BY <1>4, <1>7, <1>13

LEMMA ReallocStep ==
  ASSUME NEW h, NEW l, NEW S, Good(h, l, S), NEW s \in Slots, l[s] # None, NEW n \in Requests,
         Fits(h.brk, n), Finds(Freed(h, l[s].adr), Nmults(n))
  PROVE  LET f == FindBlock(Freed(h, l[s].adr), Nmults(n))
         IN Good(Moves(f, s, l[s].adr, l[s].n, n), Given(l, s, f.h.mem[f.pp].ptr, n), {})
<1> DEFINE l0 == [l EXCEPT ![s] = None]
           h0 == Freed(h, l[s].adr)
           f == FindBlock(h0, Nmults(n))
<1>1. /\ l \in [Slots -> [adr : Nat, n : Requests] \cup {None}]
      /\ l[s].adr \in Nat /\ l[s].n \in Requests
  <2>1. PICK R, E : LiveIn(h.mem, l)
    BY DEF Good
  <2> QED
    BY <2>1, LiveFacts DEF LiveIn
<1>2. l0[s] = None /\ \A c : Given(l0, s, c, n) = Given(l, s, c, n)
  BY <1>1 DEF Given
<1>3. FreedWith(h, h0, l, S, s)
  BY FreeStep
<1> HIDE DEF l0, h0
<1>4. PICK R, E : /\ Sound(h0, R, Heads(l0), E) /\ LiveIn(h0.mem, l0)
                  /\ Held(h0.mem, R, E, s, l[s].adr, l[s].n) /\ h0.brk = h.brk
  BY <1>3 DEF FreedWith, l0
<1>5. Fits(h0.brk, n) /\ Finds(h0, Nmults(n))
  BY <1>4 DEF h0
<1>6. FoundWith(h0, R, E, l0, Nmults(n), f)
  BY <1>4, <1>5, FindStep
<1>7. n + HDR - 1 < W
  BY DEF Fits
<1> HIDE DEF f
<1>8. Good(Moves(f, s, l[s].adr, l[s].n, n), Given(l0, s, f.h.mem[f.pp].ptr, n), {})
  BY <1>1, <1>2, <1>4, <1>6, <1>7, MovesGood
<1>9. Good(Moves(f, s, l[s].adr, l[s].n, n), Given(l, s, f.h.mem[f.pp].ptr, n), {})
  BY <1>2, <1>8
<1> QED
  BY <1>9 DEF f, h0
-----------------------------------------------------------------------------
(* The invariant.                                                          *)
IInv == Good(State, live, stale)

(* No call computes a size modulo 2^16; where one does, AreaLongEnough     *)
(* fails.                                                                  *)
NoWrap == \A n \in Requests : Fits(brk, n)

LEMMA InitGood == Init => IInv
<1> SUFFICES ASSUME Init PROVE \E R, E : Sound(State, R, Heads(live), E) /\ LiveIn(mem, live) /\ StaleIn(mem, R, stale)
  BY DEF IInv, Good, State, HeapOf
<1>1. /\ mem = [a \in 0 .. Top |-> IF a = 0 THEN Hdr(0, 0) ELSE Zero]
      /\ aflistptr = 0 /\ brk = Addr(START)
      /\ live = [s \in Slots |-> None] /\ stale = {}
  BY DEF Init, AFREEBASE
<1>2. START \in Nat /\ START > 1 /\ Top \in Nat /\ Addr(START) <= SP /\ START <= Top
  BY HeapAssumption, CellAt, Sizes
<1>3. DOMAIN mem = 0 .. Top /\ mem[0] = Hdr(0, 0) /\ 0 \in 0 .. Top
  BY <1>1, <1>2
<1>4. mem[0] \in Headers /\ mem[0].ptr = 0 /\ mem[0].size = 0
  BY <1>3 DEF Hdr, Headers
<1>5. Ring(mem, {0}, {})
  <2>1. Follows(mem, {0}, {}, 0)
    BY <1>4 DEF Follows
  <2> QED
    BY <2>1, <1>3, <1>4 DEF Ring
<1>6. Heads(live) = {} /\ ({0} \ {0}) \cup Heads(live) = {}
  BY <1>1 DEF Heads
<1>7. Tiled(mem, {}, START)
  <2>1. \A c \in START .. START - 1 : FALSE
    BY <1>2
  <2> QED
    BY <2>1 DEF Tiled
<1>8. Laid(mem, {0}, {}, Heads(live), START)
  <2>1. START \in START .. Top /\ Heads(live) \cap {0} = {}
    BY <1>2, <1>6
  <2> QED
    BY <2>1, <1>3, <1>5, <1>6, <1>7 DEF Laid
<1>9. Sound(State, {0}, Heads(live), START)
  BY <1>1, <1>2, <1>8 DEF Sound, State, HeapOf
<1>10. LiveIn(mem, live)
  BY <1>1 DEF LiveIn
<1>11. StaleIn(mem, {0}, stale)
  BY <1>1 DEF StaleIn
<1> QED
  BY <1>9, <1>10, <1>11

LEMMA StepGood == IInv /\ NoWrap /\ [Next]_vars => IInv'
<1> SUFFICES ASSUME IInv, NoWrap, [Next]_vars
             PROVE  Good(HeapOf(mem', aflistptr', brk'), live', stale')
  BY DEF IInv, State
<1>1. Good(State, live, stale) /\ \A n \in Requests : Fits(State.brk, n)
  BY DEF IInv, NoWrap, State, HeapOf
<1>2. live \in [Slots -> [adr : Nat, n : Requests] \cup {None}] /\ State.mem = mem
  BY <1>1 DEF Good, LiveIn, State, HeapOf
<1>3. ASSUME NEW h, NEW g, g.mem = h.mem, g.list = h.list, g.brk = h.brk
      PROVE  \A l, S : Good(h, l, S) => Good(g, l, S)
  BY <1>3, SameFields
<1>4. CASE UNCHANGED vars
  <2>1. mem' = mem /\ aflistptr' = aflistptr /\ brk' = brk /\ live' = live /\ stale' = stale
    BY <1>4 DEF vars, heap
  <2> QED
    BY <1>1, <2>1 DEF State
<1>5. ASSUME NEW h, NEW l, NEW S, Becomes(h), live' = l, stale' = S, Good(h, l, S)
      PROVE  Good(HeapOf(mem', aflistptr', brk'), live', stale')
  <2> DEFINE g == HeapOf(mem', aflistptr', brk')
  <2>1. g.mem = h.mem /\ g.list = h.list /\ g.brk = h.brk
    BY <1>5 DEF Becomes, HeapOf
  <2> HIDE DEF g
  <2>2. Good(g, l, S)
    BY <1>5, <2>1, SameFields
  <2> QED
    BY <2>2, <1>5 DEF g
<1>6. ASSUME NEW s \in Slots, NEW n \in Requests, Malloc(s, n)
      PROVE  Good(HeapOf(mem', aflistptr', brk'), live', stale')
  <2>1. CASE ~ Finds(State, Nmults(n))
    <3>1. UNCHANGED vars
      BY <1>6, <2>1 DEF Malloc
    <3> QED
      BY <3>1, <1>4
  <2>2. CASE Finds(State, Nmults(n))
    <3> DEFINE f == FindBlock(State, Nmults(n))
               h == Cutup(f.h, f.pp, Nmults(n))
               c == f.h.mem[f.pp].ptr
               g == HeapOf(Fill(h.mem, s, c + 1, 0, InCells(n)), h.list, h.brk)
    <3>1. live[s] = None /\ Becomes(g) /\ live' = Given(live, s, c, n) /\ stale' = {}
      BY <1>6, <2>2 DEF Malloc, Given
    <3>2. Good(g, Given(live, s, c, n), {})
      <4>1. Fits(State.brk, n)
        BY <1>1
      <4> DEFINE st == State
      <4> HIDE DEF st
      <4> QED
        BY <1>1, <2>2, <3>1, <4>1, MallocStep
    <3> HIDE DEF f, h, c, g
    <3> QED
      BY <1>5, <3>1, <3>2
  <2> QED
    BY <2>1, <2>2
<1>7. ASSUME NEW s \in Slots, Becomes(Freed(State, live[s].adr)), live[s] # None,
             stale' = stale \cup {live[s].adr}, live' = [live EXCEPT ![s] = None]
      PROVE  Good(HeapOf(mem', aflistptr', brk'), live', stale')
  <2> DEFINE h == Freed(State, live[s].adr)
             l == [live EXCEPT ![s] = None]
             S == stale \cup {live[s].adr}
  <2>1. FreedWith(State, h, live, stale, s)
    BY <1>1, <1>7, FreeStep
  <2>2. Becomes(h) /\ live' = l /\ stale' = S
    BY <1>7
  <2> HIDE DEF h
  <2>3. Good(h, l, S)
    BY <2>1 DEF FreedWith, Good
  <2> HIDE DEF l, S
  <2> QED
    BY <1>5, <2>2, <2>3
<1>8. ASSUME NEW s \in Slots, Free(s)
      PROVE  Good(HeapOf(mem', aflistptr', brk'), live', stale')
  BY <1>7, <1>8 DEF Free
<1>9. ASSUME NEW s \in Slots, NEW n \in Requests, Realloc(s, n)
      PROVE  Good(HeapOf(mem', aflistptr', brk'), live', stale')
  <2>1. CASE ~ Finds(Freed(State, live[s].adr), Nmults(n))
    <3>1. /\ live[s] # None /\ Becomes(Freed(State, live[s].adr))
          /\ stale' = stale \cup {live[s].adr} /\ live' = [live EXCEPT ![s] = None]
      BY <1>9, <2>1 DEF Realloc
    <3> QED
      BY <3>1, <1>7
  <2>2. CASE Finds(Freed(State, live[s].adr), Nmults(n))
    <3> DEFINE f == FindBlock(Freed(State, live[s].adr), Nmults(n))
               c == f.h.mem[f.pp].ptr
               g == Moves(f, s, live[s].adr, live[s].n, n)
    <3>1. live[s] # None /\ Becomes(g) /\ live' = Given(live, s, c, n) /\ stale' = {}
      BY <1>9, <2>2 DEF Realloc, Given, Moves
    <3>2. Good(g, Given(live, s, c, n), {})
      BY <1>1, <2>2, <3>1, ReallocStep
    <3> HIDE DEF f, c, g
    <3> QED
      BY <1>5, <3>1, <3>2
  <2> QED
    BY <2>1, <2>2
<1>10. ASSUME NEW a \in stale, FreeAgain(a)
       PROVE  Good(HeapOf(mem', aflistptr', brk'), live', stale')
  <2> DEFINE h == Freed(State, a)
             st == State
  <2>1. Becomes(h) /\ live' = live /\ stale' = stale
    BY <1>10 DEF FreeAgain
  <2>2. Good(st, live, stale) /\ h = Freed(st, a)
    BY <1>1
  <2> HIDE DEF h, st
  <2>3. PICK R, E : Sound(st, R, Heads(live), E) /\ LiveIn(st.mem, live) /\ StaleIn(st.mem, R, stale)
    BY <2>2 DEF Good
  <2> DEFINE c == a - 1
  <2>4. /\ a \in Int /\ c \in 0 .. Top /\ st.mem[c] \in Headers
        /\ \E f \in R \ {0} : Within(st.mem, c, st.mem, f)
    BY <2>3 DEF StaleIn
  <2>5. c \in Nat /\ a = c + 1
    BY <2>4, Sizes
  <2> HIDE DEF c
  <2>6. PICK f \in R \ {0} : Within(st.mem, c, st.mem, f)
    BY <2>4
  <2>7. Sound(Freed(st, c + 1), R, Heads(live), E) /\ Freed(st, c + 1).mem = st.mem
    BY <2>3, <2>4, <2>5, <2>6, FreedAgain
  <2>8. Sound(h, R, Heads(live), E) /\ h.mem = st.mem
    BY <2>2, <2>5, <2>7
  <2>9. Good(h, live, stale)
    BY <2>3, <2>8 DEF Good
  <2> QED
    BY <1>5, <2>1, <2>9
<1> QED
  BY <1>4, <1>6, <1>8, <1>9, <1>10 DEF Next
-----------------------------------------------------------------------------
(* The cells of a block.                                                   *)
Extent(m, b) == {x \in Int : b <= x /\ x < b + m[b].size}

LEMMA ExtentsTile ==
  ASSUME NEW m, NEW R, NEW U, NEW E, Laid(m, R, {}, U, E)
  PROVE  /\ UNION {Extent(m, b) : b \in (R \ {0}) \cup U} = START .. E - 1
         /\ \A b, c \in (R \ {0}) \cup U : b # c => Extent(m, b) \cap Extent(m, c) = {}
         /\ \A b \in (R \ {0}) \cup U : b \in Extent(m, b)
<1> DEFINE B == (R \ {0}) \cup U
<1>1. \A b \in B : b \in Nat /\ START <= b /\ m[b].size \in Nat /\ m[b].size > 0 /\ b + m[b].size <= E
  BY BlockFacts DEF Blocks
<1>2. E \in Nat /\ START \in Nat
  BY BlockFacts, Sizes DEF Blocks
<1>3. \A b \in B : b \in Extent(m, b) /\ Extent(m, b) \subseteq START .. E - 1
  BY <1>1, <1>2 DEF Extent
<1>4. ASSUME NEW c \in START .. E - 1 PROVE \E b \in B : c \in Extent(m, b)
  <2>1. \E b \in B : b <= c /\ c < b + m[b].size
    BY <1>4 DEF Laid, Tiled
  <2> QED
    BY <2>1, <1>2 DEF Extent
<1>5. ASSUME NEW b \in B, NEW c \in B, b # c PROVE Extent(m, b) \cap Extent(m, c) = {}
  <2> SUFFICES ASSUME NEW x \in Extent(m, b), x \in Extent(m, c) PROVE FALSE
    OBVIOUS
  <2>1. x \in Int /\ b <= x /\ x < b + m[b].size /\ c <= x /\ x < c + m[c].size
    BY DEF Extent
  <2> QED
    BY <2>1, <1>5, BlocksApart
<1> HIDE DEF B
<1>6. UNION {Extent(m, b) : b \in B} = START .. E - 1
  BY <1>3, <1>4
<1> QED
  BY <1>3, <1>5, <1>6 DEF B

(* Equally many blocks and slots in use.                                   *)
LEMMA AsManyBlocks ==
  ASSUME NEW l, NEW m, LiveIn(m, l), Heads(l) \subseteq 0 .. Top,
         NEW f, DOMAIN f = {x \in Slots : l[x] # None}, f = [s \in DOMAIN f |-> f[s]],
         \A s, t \in {x \in Slots : l[x] # None} : f[s] = f[t] => l[s].adr = l[t].adr
  PROVE  Cardinality({f[s] : s \in {x \in Slots : l[x] # None}}) = Cardinality({x \in Slots : l[x] # None})
<1> DEFINE L == {x \in Slots : l[x] # None}
           g == [s \in L |-> l[s].adr - 1]
           T == {f[s] : s \in L}
<1>1. \A s \in L : l[s].adr - 1 \in Heads(l) /\ l[s].adr \in Nat
  BY LiveFacts
<1>2. \A s, t \in L : l[s].adr = l[t].adr => s = t
  BY DEF LiveIn
<1>3. g \in Injection(L, 0 .. Top)
  <2>1. g \in [L -> 0 .. Top]
    BY <1>1
  <2>2. \A s, t \in L : g[s] = g[t] => s = t
    BY <1>1, <1>2
  <2> HIDE DEF g, L
  <2> QED
    BY <2>1, <2>2 DEF Injection, IsInjective
<1>4. IsFiniteSet(L)
  <2>0. 0 \in Int /\ Top \in Int
    BY Sizes
  <2>1. IsFiniteSet(0 .. Top)
    BY <2>0, FS_Interval
  <2> HIDE DEF g, L
  <2> QED
    BY <1>3, <2>1, FS_Injection
<1>5. f \in Bijection(L, T)
  <2>1. f \in [L -> T] /\ \A t \in T : \E s \in L : f[s] = t
    OBVIOUS
  <2>2. \A s, t \in L : f[s] = f[t] => s = t
    BY <1>2
  <2> HIDE DEF L, T
  <2> QED
    BY <2>1, <2>2 DEF Bijection, Injection, Surjection, IsInjective
<1>6. ExistsBijection(L, T)
  BY <1>5 DEF ExistsBijection
<1> HIDE DEF T, L
<1>7. Cardinality(T) = Cardinality(L)
  BY <1>4, <1>6, FS_Bijection
<1> QED
  BY <1>7 DEF T, L

LEMMA RingIs ==
  ASSUME NEW R, NEW U, NEW E, Sound(State, R, U, E)
  PROVE  FreeBlocks = R
<1>1. Laid(mem, R, {}, U, E) /\ aflistptr \in R
  BY DEF Sound, State, HeapOf
<1>2. DOMAIN State.mem = 0 .. Top /\ Ring(State.mem, R, {}) /\ State.list \in R
  BY <1>1 DEF Laid, State, HeapOf
<1>3. PICK N \in Nat : Rounds(Walk(State), N, State.mem, State.list, R)
  BY <1>2, WalkRounds
<1> QED
  BY <1>3 DEF Rounds, FreeBlocks

LEMMA HeapGood == IInv => HeapSound
<1> SUFFICES ASSUME IInv PROVE HeapSound
  OBVIOUS
<1> DEFINE U == Heads(live)
<1>1. PICK R, E : Sound(State, R, U, E) /\ LiveIn(mem, live)
  BY DEF IInv, Good, State, HeapOf
<1>2. FreeBlocks = R
  BY <1>1, RingIs
<1> HIDE DEF U
<1>3. Laid(mem, R, {}, U, E) /\ brk = Addr(E)
  BY <1>1 DEF Sound, State, HeapOf
<1>4. Blocks(mem, R, U, E)
  BY <1>3, BlockFacts
<1>5. \A b \in FreeBlocks : Valid(mem, b)
  BY <1>2, <1>4 DEF Blocks, Valid, Headers
<1>6. AFREEBASE \in FreeBlocks
  BY <1>2, <1>4 DEF Blocks, AFREEBASE
<1>7. \A b \in FreeBlocks : LET next == mem[b].ptr IN
        next > b + mem[b].size \/ (next = AFREEBASE /\ \A c \in FreeBlocks : c <= b)
  BY <1>2, <1>3 DEF Laid, Ring, Follows, AFREEBASE
<1> DEFINE used == {Block(live[s].adr) : s \in LiveSlots}
           free == {FreeCells(b) : b \in FreeBlocks \ {AFREEBASE}}
           X(b) == Extent(mem, b)
<1>8. \A s \in LiveSlots : live[s].adr \in Nat /\ live[s].adr - 1 \in U /\ mem[live[s].adr - 1].size > InCells(live[s].n)
                           /\ InCells(live[s].n) \in Nat
  BY <1>1, LiveFacts DEF LiveSlots, U
<1>9. \A s \in LiveSlots : Block(live[s].adr) = X(live[s].adr - 1)
  <2> SUFFICES ASSUME NEW s \in LiveSlots PROVE Block(live[s].adr) = X(live[s].adr - 1)
    OBVIOUS
  <2> DEFINE a == live[s].adr
             z == mem[a - 1].size
  <2>1. a \in Nat /\ z \in Nat /\ a - 1 \in Nat
    BY <1>4, <1>8 DEF Blocks
  <2>2. Block(a) = a - 1 .. a - 2 + z /\ X(a - 1) = {x \in Int : a - 1 <= x /\ x < (a - 1) + z}
    BY DEF Block, Extent
  <2> HIDE DEF a, z
  <2>3. a - 1 .. a - 2 + z = {x \in Int : a - 1 <= x /\ x < (a - 1) + z}
    BY <2>1
  <2> QED
    BY <2>2, <2>3 DEF a
<1>10. \A b \in R \ {0} : FreeCells(b) = X(b)
  <2> SUFFICES ASSUME NEW b \in R \ {0} PROVE FreeCells(b) = X(b)
    OBVIOUS
  <2> DEFINE z == mem[b].size
  <2>1. b \in Nat /\ z \in Nat
    BY <1>4 DEF Blocks
  <2>2. FreeCells(b) = b .. b + z - 1 /\ X(b) = {x \in Int : b <= x /\ x < b + z}
    BY DEF FreeCells, Extent
  <2> HIDE DEF z
  <2>3. b .. b + z - 1 = {x \in Int : b <= x /\ x < b + z}
    BY <2>1
  <2> QED
    BY <2>2, <2>3
<1> HIDE DEF X
<1>11. used = {X(b) : b \in U}
  <2>1. \A b \in U : \E s \in LiveSlots : b = live[s].adr - 1
    BY DEF U, Heads, LiveSlots
  <2> QED
    BY <1>8, <1>9, <2>1
<1>12. free = {X(b) : b \in R \ {0}}
  BY <1>2, <1>10 DEF AFREEBASE
<1>13. used \cup free = {X(b) : b \in (R \ {0}) \cup U}
  BY <1>11, <1>12
<1>14. /\ UNION {X(b) : b \in (R \ {0}) \cup U} = START .. E - 1
       /\ \A b, c \in (R \ {0}) \cup U : b # c => X(b) \cap X(c) = {}
       /\ \A b \in (R \ {0}) \cup U : b \in X(b)
  BY <1>3, ExtentsTile DEF X
<1>15. brk \div HDR = E
  BY <1>3, <1>4, CellAt DEF Blocks
<1>16. Cardinality(used) = Cardinality(LiveSlots)
  <2>1. ASSUME NEW s \in LiveSlots, NEW t \in LiveSlots, Block(live[s].adr) = Block(live[t].adr)
        PROVE  live[s].adr = live[t].adr
    <3> DEFINE a == live[s].adr - 1
               b == live[t].adr - 1
    <3>1. a \in U /\ b \in U /\ live[s].adr \in Nat /\ live[t].adr \in Nat
      BY <1>8
    <3>2. X(a) = X(b)
      BY <1>9, <2>1
    <3>3. a = b
      <4> HIDE DEF a, b
      <4> QED
        BY <1>14, <3>1, <3>2
    <3> QED
      BY <3>1, <3>3
  <2>2. Heads(live) \subseteq 0 .. Top
    BY <1>4 DEF Blocks, U
  <2> DEFINE f == [s \in LiveSlots |-> Block(live[s].adr)]
  <2>3. /\ DOMAIN f = LiveSlots /\ f = [s \in DOMAIN f |-> f[s]]
        /\ \A s, t \in LiveSlots : f[s] = f[t] => live[s].adr = live[t].adr
        /\ used = {f[s] : s \in LiveSlots}
    BY <2>1
  <2> HIDE DEF f, used
  <2>4. Cardinality({f[s] : s \in LiveSlots}) = Cardinality(LiveSlots)
    BY <1>1, <2>2, <2>3, AsManyBlocks DEF LiveSlots
  <2> QED
    BY <2>3, <2>4
<1> HIDE DEF used, free
<1>17. UNION (used \cup free) = START .. brk \div HDR - 1
  BY <1>13, <1>14, <1>15
<1>18. \A x, y \in used \cup free : x # y => x \cap y = {}
  BY <1>13, <1>14
<1>19. \A s \in LiveSlots : InCells(live[s].n) <= mem[live[s].adr - 1].size - 1
  <2> SUFFICES ASSUME NEW s \in LiveSlots PROVE InCells(live[s].n) <= mem[live[s].adr - 1].size - 1
    OBVIOUS
  <2>1. mem[live[s].adr - 1].size \in Nat
    BY <1>4, <1>8 DEF Blocks
  <2> QED
    BY <2>1, <1>8
<1>20. LET used1 == {Block(live[s].adr) : s \in LiveSlots}
           free1 == {FreeCells(b) : b \in FreeBlocks \ {AFREEBASE}}
       IN /\ UNION (used1 \cup free1) = START .. brk \div HDR - 1
          /\ \A x, y \in used1 \cup free1 : x /= y => x \cap y = {}
          /\ Cardinality(used1) = Cardinality(LiveSlots)
  BY <1>16, <1>17, <1>18 DEF used, free
<1> QED
  BY <1>5, <1>6, <1>7, <1>19, <1>20 DEF HeapSound
-----------------------------------------------------------------------------
(* What the program holds, without the memory.                             *)
Content(s, n) == [i \in 1 .. InCells(n) |-> Data(s, i - 1)]
AreasOf(l) == [s \in Slots |-> IF l[s] = None THEN None
                              ELSE [adr |-> l[s].adr, data |-> Content(s, l[s].n)]]

LEMMA AreasAre ==
  ASSUME NEW m, NEW l, LiveIn(m, l)
  PROVE  [s \in Slots |-> IF l[s] = None THEN None
            ELSE [adr |-> l[s].adr,
                  data |-> [i \in 1 .. InCells(l[s].n) |-> m[l[s].adr + i - 1]]]] = AreasOf(l)
<1>1. ASSUME NEW s \in Slots, l[s] # None
      PROVE  [i \in 1 .. InCells(l[s].n) |-> m[l[s].adr + i - 1]] = Content(s, l[s].n)
  <2> DEFINE a == l[s].adr
             k == InCells(l[s].n)
  <2>1. a \in Nat /\ k \in Nat /\ \A i \in 0 .. k - 1 : m[a + i] = Data(s, i)
    BY <1>1, LiveFacts
  <2>2. Content(s, l[s].n) = [i \in 1 .. k |-> Data(s, i - 1)]
    BY DEF Content
  <2> HIDE DEF a, k
  <2>3. ASSUME NEW i \in 1 .. k PROVE m[a + i - 1] = Data(s, i - 1)
    <3>1. i - 1 \in 0 .. k - 1 /\ a + i - 1 = a + (i - 1)
      BY <2>1
    <3> QED
      BY <2>1, <3>1
  <2>4. [i \in 1 .. k |-> m[a + i - 1]] = Content(s, l[s].n)
    BY <2>2, <2>3
  <2> QED
    BY <2>4 DEF a, k
<1> QED
  BY <1>1 DEF AreasOf

LEMMA ContentFacts ==
  ASSUME NEW s \in Slots, NEW n \in Requests, NEW a \in Nat
  PROVE  /\ Content(s, n) \in Filled /\ DOMAIN Content(s, n) = 1 .. InCells(n)
         /\ [adr |-> a, data |-> Content(s, n)] # None
         /\ [adr |-> a, n |-> n] # None
<1>1. InCells(n) \in Nat /\ n \in Nat
  BY RequestCells
<1>2. Content(s, n) \in Filled /\ DOMAIN Content(s, n) = 1 .. InCells(n)
  BY DEF Content, Filled
<1>3. Content(s, n) \in Seq([of : Slots, at : Nat])
  <2> DEFINE k == InCells(n)
  <2>1. \A i \in 1 .. k : Data(s, i - 1) \in [of : Slots, at : Nat]
    BY <1>1 DEF Data
  <2>2. k \in Nat /\ Content(s, n) = [i \in 1 .. k |-> Data(s, i - 1)]
    BY <1>1 DEF Content
  <2> HIDE DEF k
  <2> QED
    BY <2>1, <2>2
<1>4. [adr |-> a, data |-> Content(s, n)] \in [adr : Nat, data : Seq([of : Slots, at : Nat])]
  BY <1>3
<1>5. [adr |-> a, n |-> n] \in [adr : Nat, n : Nat]
  BY <1>1
<1>6. None \notin [adr : Nat, n : Nat] /\ None \notin [adr : Nat, data : Seq([of : Slots, at : Nat])]
  BY HeapAssumption
<1> QED
  BY <1>2, <1>4, <1>5, <1>6

LEMMA AreasApart ==
  ASSUME NEW h, NEW l, NEW S, Good(h, l, S), NEW s \in Slots, NEW t \in Slots \ {s},
         l[s] # None, l[t] # None, NEW i \in 1 .. InCells(l[s].n), NEW j \in 1 .. InCells(l[t].n)
  PROVE  l[s].adr + i - 1 # l[t].adr + j - 1
<1>1. PICK R, E : Sound(h, R, Heads(l), E) /\ LiveIn(h.mem, l)
  BY DEF Good
<1> DEFINE U == Heads(l)
           m == h.mem
           a == l[s].adr
           b == l[t].adr
           x == a - 1
           y == b - 1
<1>2. Laid(m, R, {}, U, E)
  BY <1>1 DEF Sound
<1>3. /\ a \in Nat /\ x \in U /\ m[x].size > InCells(l[s].n) /\ InCells(l[s].n) \in Nat
      /\ b \in Nat /\ y \in U /\ m[y].size > InCells(l[t].n) /\ InCells(l[t].n) \in Nat
  BY <1>1, LiveFacts
<1>4. a # b
  BY <1>1 DEF LiveIn
<1> HIDE DEF U, m
<1>5. \A u \in U : m[u].size \in Nat
  BY <1>2, BlockFacts DEF Blocks
<1>6. m[x].size \in Nat /\ m[y].size \in Nat /\ x # y
  BY <1>3, <1>4, <1>5
<1> SUFFICES ASSUME a + i - 1 = b + j - 1 PROVE FALSE
  OBVIOUS
<1> DEFINE c == a + i - 1
<1>7. c \in Int /\ x <= c /\ c < x + m[x].size
  BY <1>3, <1>6
<1>8. y <= c /\ c < y + m[y].size
  BY <1>3, <1>6
<1> HIDE DEF a, b, x, y, c
<1>9. x \in (R \ {0}) \cup U /\ y \in (R \ {0}) \cup U
  BY <1>3
<1> QED
  BY <1>2, <1>6, <1>7, <1>8, <1>9, BlocksApart

(* What a step does to the pointers.                                       *)
Gets(l, l2, s) == \E c \in Nat, n \in Requests : l2 = Given(l, s, c, n)

LEMMA FoundAt ==
  ASSUME NEW h, NEW R, NEW E, NEW l, NEW u, NEW f, FoundWith(h, R, E, l, u, f)
  PROVE  f.h.mem[f.pp].ptr \in Nat
<1>1. PICK Q, F : Sound(f.h, Q, Heads(l), F) /\ f.pp \in Q
  BY DEF FoundWith
<1>2. Blocks(f.h.mem, Q, Heads(l), F)
  BY <1>1, BlockFacts DEF Sound
<1> QED
  BY <1>1, <1>2 DEF Blocks

LEMMA StepShape ==
  ASSUME IInv, NoWrap, [Next]_vars
  PROVE  \/ live' = live
         \/ \E s \in Slots : live[s] # None /\ live' = [live EXCEPT ![s] = None]
         \/ \E s \in Slots : Gets(live, live', s)
<1>1. Good(State, live, stale) /\ \A n \in Requests : Fits(State.brk, n)
  BY DEF IInv, NoWrap, State, HeapOf
<1>2. CASE UNCHANGED vars
  BY <1>2 DEF vars
<1>3. ASSUME NEW s \in Slots, NEW n \in Requests, Malloc(s, n), Finds(State, Nmults(n))
      PROVE  Gets(live, live', s)
  <2> DEFINE h == State
             f == FindBlock(h, Nmults(n))
             c == f.h.mem[f.pp].ptr
  <2>1. live' = Given(live, s, c, n)
    BY <1>3 DEF Malloc, Given
  <2>2. Good(h, live, stale) /\ Fits(h.brk, n) /\ Finds(h, Nmults(n))
    BY <1>1, <1>3
  <2> HIDE DEF h
  <2>3. PICK R, E : Sound(h, R, Heads(live), E) /\ LiveIn(h.mem, live)
    BY <2>2 DEF Good
  <2>4. FoundWith(h, R, E, live, Nmults(n), f)
    BY <2>2, <2>3, FindStep
  <2> HIDE DEF f
  <2>5. c \in Nat
    BY <2>4, FoundAt
  <2> QED
    BY <2>1, <2>5 DEF Gets
<1>4. ASSUME NEW s \in Slots, NEW n \in Requests, Malloc(s, n), ~ Finds(State, Nmults(n))
      PROVE  live' = live
  BY <1>4 DEF Malloc, vars
<1>5. ASSUME NEW s \in Slots, Free(s)
      PROVE  live[s] # None /\ live' = [live EXCEPT ![s] = None]
  BY <1>5 DEF Free
<1>6. ASSUME NEW s \in Slots, NEW n \in Requests, Realloc(s, n), ~ Finds(Freed(State, live[s].adr), Nmults(n))
      PROVE  live[s] # None /\ live' = [live EXCEPT ![s] = None]
  BY <1>6 DEF Realloc
<1>7. ASSUME NEW s \in Slots, NEW n \in Requests, Realloc(s, n), Finds(Freed(State, live[s].adr), Nmults(n))
      PROVE  Gets(live, live', s)
  <2> DEFINE h == Freed(State, live[s].adr)
             f == FindBlock(h, Nmults(n))
             c == f.h.mem[f.pp].ptr
             l == [live EXCEPT ![s] = None]
  <2>1. live' = Given(live, s, c, n) /\ live[s] # None
    BY <1>7 DEF Realloc, Given
  <2>2. FreedWith(State, h, live, stale, s)
    BY <1>1, <2>1, FreeStep
  <2>3. Finds(h, Nmults(n)) /\ Fits(State.brk, n)
    BY <1>1, <1>7
  <2> HIDE DEF h, l
  <2>4. PICK R, E : Sound(h, R, Heads(l), E) /\ LiveIn(h.mem, l) /\ h.brk = State.brk
    BY <2>2 DEF FreedWith, l
  <2>5. Fits(h.brk, n)
    BY <2>3, <2>4
  <2>6. FoundWith(h, R, E, l, Nmults(n), f)
    BY <2>3, <2>4, <2>5, FindStep
  <2> HIDE DEF f
  <2>7. c \in Nat
    BY <2>6, FoundAt
  <2> QED
    BY <2>1, <2>7 DEF Gets
<1>8. ASSUME NEW a \in stale, FreeAgain(a) PROVE live' = live
  BY <1>8 DEF FreeAgain
<1> QED
  BY <1>2, <1>3, <1>4, <1>5, <1>6, <1>7, <1>8 DEF Next

LEMMA StepImplements ==
  ASSUME IInv, IInv', NoWrap, [Next]_vars
  PROVE  [Abstract!Next]_Areas
<1>1. LiveIn(mem, live) /\ live \in [Slots -> [adr : Nat, n : Requests] \cup {None}]
  BY DEF IInv, Good, State, HeapOf, LiveIn
<1> DEFINE l2 == live'
           m2 == mem'
           A == AreasOf(live)
           B == AreasOf(l2)
<1>2. PICK h2, S2 : Good(h2, l2, S2) /\ h2.mem = m2
  <2>1. Good(HeapOf(mem', aflistptr', brk'), live', stale')
    BY DEF IInv, State
  <2>2. HeapOf(mem', aflistptr', brk').mem = mem'
    BY DEF HeapOf
  <2> QED
    BY <2>1, <2>2
<1>3. LiveIn(m2, l2)
  BY <1>2 DEF Good
<1>4. Areas = A
  BY <1>1, AreasAre DEF Areas
<1>5. Areas' = B
  <2> HIDE DEF l2, m2
  <2>1. [s \in Slots |-> IF l2[s] = None THEN None
            ELSE [adr |-> l2[s].adr,
                  data |-> [i \in 1 .. InCells(l2[s].n) |-> m2[l2[s].adr + i - 1]]]] = B
    BY <1>3, AreasAre
  <2> QED
    BY <2>1 DEF l2, m2, Areas
<1>6. CASE live' = live
  BY <1>4, <1>5, <1>6
<1>7. ASSUME NEW s \in Slots, live[s] # None, live' = [live EXCEPT ![s] = None]
      PROVE  Abstract!Release(s)
  <2>1. A[s] # None
    <3>1. live[s].adr \in Nat /\ live[s].n \in Requests
      BY <1>1, <1>7, LiveFacts
    <3> QED
      BY <1>7, <3>1, ContentFacts DEF AreasOf
  <2>2. B = [A EXCEPT ![s] = None]
    BY <1>1, <1>7 DEF AreasOf
  <2> QED
    BY <1>4, <1>5, <2>1, <2>2 DEF Abstract!Release
<1>8. ASSUME NEW s \in Slots, Gets(live, live', s)
      PROVE  Abstract!Allocate(s) \/ Abstract!Resize(s)
  <2>1. PICK c \in Nat, n \in Requests : live' = Given(live, s, c, n)
    BY <1>8 DEF Gets
  <2> DEFINE e == [adr |-> c + 1, n |-> n]
             d == Content(s, n)
             D == [adr |-> c + 1, data |-> d]
  <2>2. l2 = [live EXCEPT ![s] = e] /\ e # None /\ D # None /\ d \in Filled /\ DOMAIN d = 1 .. InCells(n)
    <3>1. c + 1 \in Nat
      OBVIOUS
    <3>2. e # None /\ D # None /\ d \in Filled /\ DOMAIN d = 1 .. InCells(n)
      BY <3>1, ContentFacts
    <3> QED
      BY <2>1, <3>2 DEF Given
  <2>3. l2[s] = e /\ e.adr = c + 1 /\ e.n = n /\ \A t \in Slots \ {s} : l2[t] = live[t]
    BY <1>1, <2>2
  <2> HIDE DEF l2, e
  <2>4. B[s] = D
    BY <2>2, <2>3 DEF AreasOf
  <2>5. B = [A EXCEPT ![s] = D]
    <3>1. DOMAIN A = Slots /\ A \in [Slots -> {A[t] : t \in Slots}]
      BY DEF AreasOf
    <3>2. \A t \in Slots : B[t] = IF t = s THEN D ELSE A[t]
      BY <2>3, <2>4 DEF AreasOf
    <3>3. B = [t \in Slots |-> B[t]]
      BY DEF AreasOf
    <3> HIDE DEF A, B, D
    <3> QED
      BY <3>1, <3>2, <3>3
  <2>6. ASSUME NEW t \in Slots \ {s}, A[t] # None,
               NEW i \in DOMAIN D.data, NEW j \in DOMAIN A[t].data
        PROVE  D.adr + i - 1 # A[t].adr + j - 1
    <3>1. live[t] # None /\ l2[t] # None /\ l2[t] = live[t] /\ l2[s] # None
      BY <2>2, <2>3, <2>6 DEF AreasOf
    <3>2. A[t] = [adr |-> l2[t].adr, data |-> Content(t, l2[t].n)]
      BY <3>1 DEF AreasOf
    <3>3. l2[t].adr \in Nat /\ l2[t].n \in Requests
      BY <1>3, <3>1, LiveFacts
    <3>4. DOMAIN A[t].data = 1 .. InCells(l2[t].n) /\ A[t].adr = l2[t].adr
      BY <3>2, <3>3, ContentFacts
    <3>5. DOMAIN D.data = 1 .. InCells(l2[s].n) /\ D.adr = l2[s].adr
      BY <2>2, <2>3
    <3> HIDE DEF A, D
    <3> QED
      BY <1>2, <3>1, <3>4, <3>5, <2>6, AreasApart
  <2>7. \A t \in Slots \ {s} : A[t] = None \/ Abstract!Cells(D) \cap Abstract!Cells(A[t]) = {}
    <3> HIDE DEF A, D
    <3> QED
      BY <2>6 DEF Abstract!Cells
  <2>8. CASE live[s] = None
    <3>1. A[s] = None
      BY <2>8 DEF AreasOf
    <3>2. D.data \in Filled
      BY <2>2
    <3> HIDE DEF A, B, D
    <3> QED
      BY <1>4, <1>5, <2>2, <2>4, <2>5, <2>7, <3>1, <3>2 DEF Abstract!Allocate, Abstract!Apart
  <2>9. CASE live[s] # None
    <3>1. live[s].adr \in Nat /\ live[s].n \in Requests
      BY <1>1, <2>9, LiveFacts
    <3>2. A[s] = [adr |-> live[s].adr, data |-> Content(s, live[s].n)]
      BY <2>9 DEF AreasOf
    <3>3. A[s] # None
      BY <3>1, <3>2, ContentFacts
    <3>4. \A i \in DOMAIN A[s].data \cap DOMAIN D.data : D.data[i] = A[s].data[i]
      <4>1. A[s].data = Content(s, live[s].n) /\ D.data = Content(s, n)
        BY <3>2
      <4>2. \A i \in DOMAIN Content(s, live[s].n) \cap DOMAIN Content(s, n) :
              Content(s, n)[i] = Content(s, live[s].n)[i]
        BY DEF Content
      <4> HIDE DEF A, D
      <4> QED
        BY <4>1, <4>2
    <3> HIDE DEF A, B, D
    <3> QED
      BY <1>4, <1>5, <2>2, <2>4, <2>5, <2>7, <3>3, <3>4 DEF Abstract!Resize, Abstract!Apart
  <2> QED
    BY <2>8, <2>9
<1> QED
  BY <1>6, <1>7, <1>8, StepShape DEF Abstract!Next
-----------------------------------------------------------------------------
(* HeapSound, for every program: as long as no call computes a size modulo *)
(* 2^16 (free(), getmemory(), findblock() and cutup() of malloc.c), the    *)
(* ring stays closed and in order, and nothing leaks or overlaps.          *)
THEOREM HeapCorrect == Spec /\ []NoWrap => []HeapSound
<1>1. Init => IInv
  BY InitGood
<1>2. IInv /\ NoWrap /\ [Next]_vars => IInv'
  BY StepGood
<1>3. IInv => HeapSound
  BY HeapGood
<1> QED
  BY <1>1, <1>2, <1>3, PTL DEF Spec

(* malloc(), free() and realloc() implement an allocator, under the same   *)
(* condition.                                                              *)
THEOREM HeapAllocates == Spec /\ []NoWrap => ImplementsAllocator
<1>1. Init => IInv
  BY InitGood
<1>2. IInv /\ NoWrap /\ [Next]_vars => IInv'
  BY StepGood
<1>3. Init => Abstract!Init
  BY DEF Init, Abstract!Init, Areas
<1>4. IInv /\ IInv' /\ NoWrap /\ [Next]_vars => [Abstract!Next]_Areas
  BY StepImplements
<1> QED
  BY <1>1, <1>2, <1>3, <1>4, PTL DEF Spec, ImplementsAllocator, Abstract!Spec

(* A memory that is so far from full that no request can reach its end in  *)
(* one step: there the condition is always met.                            *)
Roomy == \A n \in Requests : n + HDR - 1 < W /\ SP + ToGet(Nmults(n)) * HDR + SAFETY < W

LEMMA RoomyFits == Roomy /\ IInv => NoWrap
<1> SUFFICES ASSUME Roomy, IInv, NEW n \in Requests PROVE Fits(brk, n)
  BY DEF NoWrap
<1>1. PICK R, E : Sound(State, R, Heads(live), E)
  BY DEF IInv, Good
<1>2. brk = Addr(E) /\ brk <= SP /\ Blocks(mem, R, Heads(live), E)
  BY <1>1, BlockFacts DEF Sound, State, HeapOf
<1>3. E \in Nat /\ HDR \in Nat /\ SP \in Nat /\ SAFETY \in Nat /\ n \in Nat
  BY <1>2, Sizes, RequestCells DEF Blocks
<1>4. brk \in Nat /\ brk <= SP
  BY <1>2, <1>3, CellAt
<1> DEFINE t == ToGet(Nmults(n)) * HDR
<1>5. t \in Nat
  <2>1. InCells(n) \in Nat /\ Nmults(n) = InCells(n) + 1
    BY <1>3, CellsAsked DEF Roomy
  <2>2. Nmults(n) \in Nat /\ Nmults(n) > 0
    BY <2>1
  <2> QED
    BY <2>2, Amounts
<1>6. n + HDR - 1 < W /\ SP + t + SAFETY < W
  BY DEF Roomy
<1> HIDE DEF t
<1>7. brk + t + SAFETY < W
  BY <1>3, <1>4, <1>5, <1>6, Sizes
<1> QED
  BY <1>6, <1>7 DEF Fits, t

(* There both hold without a condition on the behaviour.                   *)
THEOREM HeapCorrectRoomy == Roomy => (Spec => []HeapSound /\ ImplementsAllocator)
<1> SUFFICES ASSUME Roomy PROVE Spec => []HeapSound /\ ImplementsAllocator
  OBVIOUS
<1>1. Init => IInv
  BY InitGood
<1>2. IInv => NoWrap
  BY RoomyFits
<1>3. IInv /\ NoWrap /\ [Next]_vars => IInv'
  BY StepGood
<1>4. Spec => []NoWrap
  BY <1>1, <1>2, <1>3, PTL DEF Spec
<1> QED
  BY <1>4, HeapCorrect, HeapAllocates, PTL
=============================================================================
