----------------------------- MODULE Ar8kProofs -----------------------------
(***************************************************************************)
(* No command of ar8k loses a member, whatever fails and whenever it dies: *)
(* for every archive, list of files, size of member and block size.        *)
(* While d and r read the archive, the temporary file is in step with it:  *)
(* it has of the members read so far what the command leaves of them.      *)
(***************************************************************************)
EXTENDS Ar8k, InductionLemmas, FiniteSetTheorems, SequenceTheorems, TLAPS

-----------------------------------------------------------------------------
(* Members(a), as a run of the reader: where it is and what it has seen    *)
(* after each header.                                                      *)

Mems == [name : Paths, data : Seq(Cells)]
NextOf(a, r) ==
  IF Complete(a, r.at)
  THEN [at |-> r.at + Even(a[r.at].size) + 1, ms |-> Append(r.ms, MemberAt(a, r.at))] ELSE r
Start == [at |-> 2, ms |-> <<>>]
ReadRun(a, f) == f[0] = Start /\ \A n \in 1 .. Len(a) : f[n] = NextOf(a, f[n - 1])

(* The recursion in Members has a solution, and Members is where it ends.  *)
LEMMA ReadRuns ==
  ASSUME NEW a, a # None, Len(a) \in Nat
  PROVE  \E f : ReadRun(a, f) /\ Members(a) = f[Len(a)].ms
<1> DEFINE Run(f, m) == f = [n \in 0 .. m |->
             IF n = 0 THEN [at |-> 2, ms |-> <<>>]
             ELSE LET r == f[n - 1] IN
                  IF Complete(a, r.at)
                  THEN [at |-> r.at + Even(a[r.at].size) + 1, ms |-> Append(r.ms, MemberAt(a, r.at))]
                  ELSE r]
           Runs(f, m) == f = [n \in 0 .. m |-> IF n = 0 THEN Start ELSE NextOf(a, f[n - 1])]
           T == {m \in Nat : \E f : Runs(f, m)}
<1>1. 0 \in T
  <2> DEFINE f == [n \in 0 .. 0 |-> Start]
  <2>1. f = [n \in 0 .. 0 |-> IF n = 0 THEN Start ELSE NextOf(a, f[n - 1])]
    OBVIOUS
  <2> HIDE DEF f
  <2> QED
    BY <2>1
<1>2. ASSUME NEW m \in Nat, m \in T PROVE m + 1 \in T
  <2>1. PICK f : Runs(f, m)
    BY <1>2
  <2> DEFINE new == NextOf(a, f[m])
             g == [n \in 0 .. m + 1 |-> IF n = m + 1 THEN new ELSE f[n]]
  <2>2. ASSUME NEW n \in 0 .. m + 1
        PROVE  g[n] = IF n = 0 THEN Start ELSE NextOf(a, g[n - 1])
    <3>1. CASE n = m + 1
      <4>1. g[n] = new /\ g[n - 1] = f[m] /\ n # 0 /\ n - 1 = m
        <5> HIDE DEF new
        <5> QED
          BY <3>1
      <4> QED
        BY <3>1, <4>1
    <3>2. CASE n # m + 1
      <4>1. n \in 0 .. m /\ g[n] = f[n] /\ (n # 0 => g[n - 1] = f[n - 1])
        <5> HIDE DEF new
        <5> QED
          BY <3>2
      <4>2. f[n] = IF n = 0 THEN Start ELSE NextOf(a, f[n - 1])
        BY <2>1, <4>1
      <4> QED
        BY <4>1, <4>2
    <3> QED
      BY <3>1, <3>2
  <2>3. g = [n \in 0 .. m + 1 |-> g[n]]
    OBVIOUS
  <2> HIDE DEF g
  <2>4. Runs(g, m + 1)
    BY <2>2, <2>3
  <2> HIDE DEF Runs
  <2> QED
    BY <2>4
<1>3. Nat \subseteq T
  <2> HIDE DEF T
  <2> QED
    BY <1>1, <1>2, NatSetInduction
<1> DEFINE f == CHOOSE f : Run(f, Len(a))
<1>4. Run(f, Len(a))
  <2>1. \E x : Runs(x, Len(a))
    BY <1>3
  <2>2. \E x : Run(x, Len(a))
    BY <2>1 DEF NextOf, Start
  <2> HIDE DEF Run
  <2> QED
    BY <2>2
<1>5. Members(a) = f[Len(a)].ms
  BY DEF Members
<1> HIDE DEF f
<1>6. ReadRun(a, f)
  <2>1. Runs(f, Len(a))
    BY <1>4 DEF NextOf, Start
  <2> QED
    BY <2>1 DEF ReadRun
<1> QED
  BY <1>5, <1>6

(* A reader of a that has come to p and has seen the members ms.           *)
At(f, k, p, ms) == f[k].at = p /\ f[k].ms = ms
Reads(a, f) == ReadRun(a, f) /\ Members(a) = f[Len(a)].ms
Reading(a, p, ms) == \E f : Reads(a, f) /\ \E k \in 0 .. Len(a) : At(f, k, p, ms)

(* A complete member has a header and is a member.                         *)
LEMMA CompleteType ==
  ASSUME NEW a \in Seq(Cells), NEW p \in Nat, p >= 1, Complete(a, p)
  PROVE  /\ a[p] \in Heads /\ MemberAt(a, p) \in Mems
         /\ Even(a[p].size) \in Nat /\ Even(a[p].size) >= a[p].size
         /\ p <= Len(a) /\ p + Even(a[p].size) + 1 \in Nat
         /\ p + Even(a[p].size) <= Len(a)
<1>1. p \in 1 .. Len(a) /\ a[p] \in Cells /\ a[p].t = "head"
  BY DEF Complete
<1>2. a[p] \in Heads
  BY <1>1 DEF Cells, Magic, Junk
<1>3. a[p].size \in Nat /\ a[p].name \in Paths
  BY <1>2 DEF Heads
<1>4. Even(a[p].size) \in Nat /\ Even(a[p].size) >= a[p].size
  BY <1>3 DEF Even
<1>5. p + Even(a[p].size) <= Len(a)
  BY DEF Complete
<1>6. SubSeq(a, p + 1, p + a[p].size) \in Seq(Cells)
  <2>1. p + a[p].size <= Len(a) /\ p + 1 >= 1 /\ Len(a) \in Nat
    BY <1>3, <1>4, <1>5
  <2>2. \A i \in p + 1 .. p + a[p].size : a[i] \in Cells
    BY <2>1, <1>3
  <2> QED
    BY <2>1, <2>2, <1>3
<1> QED
  BY <1>1, <1>2, <1>3, <1>4, <1>5, <1>6 DEF MemberAt, Mems

(* A run sees members, and gets further with each header.                  *)
LEMMA RunType ==
  ASSUME NEW a \in Seq(Cells), NEW f, ReadRun(a, f), NEW k \in 0 .. Len(a)
  PROVE  /\ f[k].at \in Nat /\ f[k].at >= 2 /\ f[k].ms \in Seq(Mems)
         /\ Complete(a, f[k].at) => f[k].at >= k + 2
<1> DEFINE Good(n) == /\ f[n].at \in Nat /\ f[n].at >= 2 /\ f[n].ms \in Seq(Mems)
                      /\ Complete(a, f[n].at) => f[n].at >= n + 2
           T == {n \in Nat : n <= Len(a) => Good(n)}
<1>1. 0 \in T
  <2>1. f[0].at = 2 /\ f[0].ms = <<>>
    BY DEF ReadRun, Start
  <2>2. <<>> \in Seq(Mems)
    OBVIOUS
  <2>3. Good(0)
    BY <2>1, <2>2
  <2> QED
    BY <2>3
<1>2. ASSUME NEW n \in Nat, n \in T PROVE n + 1 \in T
  <2> SUFFICES ASSUME n + 1 <= Len(a) PROVE Good(n + 1)
    OBVIOUS
  <2>1. Good(n) /\ Len(a) \in Nat
    BY <1>2
  <2>2. f[n + 1] = NextOf(a, f[n])
    <3>1. n + 1 \in 1 .. Len(a) /\ (n + 1) - 1 = n
      BY <2>1
    <3> QED
      BY <3>1 DEF ReadRun
  <2>3. CASE Complete(a, f[n].at)
    <3>1. /\ f[n + 1].at = f[n].at + Even(a[f[n].at].size) + 1
          /\ f[n + 1].ms = Append(f[n].ms, MemberAt(a, f[n].at))
      BY <2>2, <2>3 DEF NextOf
    <3>2. PICK p : p = f[n].at
      OBVIOUS
    <3>3. p \in Nat /\ p >= 1 /\ Complete(a, p) /\ p >= n + 2
      BY <2>1, <2>3, <3>2
    <3>4. MemberAt(a, p) \in Mems /\ Even(a[p].size) \in Nat
      BY <3>3, CompleteType
    <3>5. f[n + 1].ms \in Seq(Mems)
      BY <2>1, <3>1, <3>2, <3>4
    <3>6. f[n + 1].at = p + Even(a[p].size) + 1
      BY <3>1, <3>2
    <3> QED
      BY <3>3, <3>4, <3>5, <3>6
  <2>4. CASE ~ Complete(a, f[n].at)
    BY <2>1, <2>2, <2>4 DEF NextOf
  <2> QED
    BY <2>3, <2>4
<1>3. Nat \subseteq T
  <2> HIDE DEF T
  <2> QED
    BY <1>1, <1>2, NatSetInduction
<1> QED
  BY <1>3

(* Where the reader stops, it stays.                                       *)
LEMMA RunStops ==
  ASSUME NEW a \in Seq(Cells), NEW f, ReadRun(a, f), NEW k \in 0 .. Len(a), ~ Complete(a, f[k].at)
  PROVE  f[Len(a)] = f[k]
<1> DEFINE T == {n \in Nat : n >= k /\ n <= Len(a) => f[n] = f[k]}
<1>1. 0 \in T
  OBVIOUS
<1>2. ASSUME NEW n \in Nat, n \in T PROVE n + 1 \in T
  <2> SUFFICES ASSUME n + 1 >= k, n + 1 <= Len(a), n + 1 # k PROVE f[n + 1] = f[k]
    OBVIOUS
  <2>1. f[n] = f[k] /\ n + 1 \in 1 .. Len(a) /\ (n + 1) - 1 = n
    BY <1>2
  <2>2. f[n + 1] = NextOf(a, f[n])
    BY <2>1 DEF ReadRun
  <2> QED
    BY <2>1, <2>2 DEF NextOf
<1>3. Nat \subseteq T
  <2> HIDE DEF T
  <2> QED
    BY <1>1, <1>2, NatSetInduction
<1> QED
  BY <1>3

(* Every archive is read by a run.                                         *)
LEMMA ReadsOnce == ASSUME NEW a \in Seq(Cells) PROVE \E f : Reads(a, f)
<1>1. a # None /\ Len(a) \in Nat
  BY ArAssumption
<1> QED
  BY <1>1, ReadRuns DEF Reads

(* The reader begins behind the magic word.                                *)
LEMMA ReadingBegins == ASSUME NEW a \in Seq(Cells) PROVE Reading(a, 2, <<>>)
<1>1. PICK f : Reads(a, f)
  BY ReadsOnce
<1>2. At(f, 0, 2, <<>>) /\ 0 \in 0 .. Len(a)
  BY <1>1 DEF Reads, ReadRun, Start, At
<1> QED
  BY <1>1, <1>2 DEF Reading

(* The reader goes on behind a member that is complete ...                 *)
LEMMA ReadingGoesOn ==
  ASSUME NEW a \in Seq(Cells), NEW p, NEW ms, Reading(a, p, ms), Complete(a, p)
  PROVE  Reading(a, p + Even(a[p].size) + 1, Append(ms, MemberAt(a, p)))
<1>1. PICK f : Reads(a, f) /\ \E k \in 0 .. Len(a) : At(f, k, p, ms)
  BY DEF Reading
<1>2. PICK k \in 0 .. Len(a) : At(f, k, p, ms)
  BY <1>1
<1>3. ReadRun(a, f) /\ f[k].at = p /\ f[k].ms = ms
  BY <1>1, <1>2 DEF Reads, At
<1>4. p \in Nat /\ p >= k + 2 /\ p >= 2
  BY <1>3, RunType
<1>5. p <= Len(a)
  BY DEF Complete
<1>6. k + 1 \in 1 .. Len(a) /\ k + 1 \in 0 .. Len(a) /\ (k + 1) - 1 = k
  BY <1>4, <1>5
<1>7. f[k + 1] = NextOf(a, f[k])
  BY <1>3, <1>6 DEF ReadRun
<1>8. At(f, k + 1, p + Even(a[p].size) + 1, Append(ms, MemberAt(a, p)))
  BY <1>3, <1>7 DEF NextOf, At
<1> QED
  BY <1>1, <1>6, <1>8 DEF Reading

(* ... and stops where none is: then it has seen all members.              *)
LEMMA ReadingEnds ==
  ASSUME NEW a \in Seq(Cells), NEW p, NEW ms, Reading(a, p, ms), ~ Complete(a, p)
  PROVE  Members(a) = ms
<1>1. PICK f : Reads(a, f) /\ \E k \in 0 .. Len(a) : At(f, k, p, ms)
  BY DEF Reading
<1>2. PICK k \in 0 .. Len(a) : At(f, k, p, ms)
  BY <1>1
<1>3. ReadRun(a, f) /\ f[k].at = p /\ f[k].ms = ms /\ Members(a) = f[Len(a)].ms
  BY <1>1, <1>2 DEF Reads, At
<1>4. f[Len(a)] = f[k]
  BY <1>3, RunStops
<1> QED
  BY <1>3, <1>4

(* It comes to such an end.                                                *)
LEMMA ReadingSeesAll ==
  ASSUME NEW a \in Seq(Cells)
  PROVE  \E p : Reading(a, p, Members(a)) /\ ~ Complete(a, p)
<1>1. PICK f : Reads(a, f)
  BY ReadsOnce
<1>2. Len(a) \in 0 .. Len(a) /\ Len(a) \in Nat
  OBVIOUS
<1>3. ReadRun(a, f) /\ Members(a) = f[Len(a)].ms
  BY <1>1 DEF Reads
<1>4. At(f, Len(a), f[Len(a)].at, Members(a))
  BY <1>3 DEF At
<1>5. Reading(a, f[Len(a)].at, Members(a))
  BY <1>1, <1>2, <1>4 DEF Reading
<1>6. ~ Complete(a, f[Len(a)].at)
  <2>1. PICK p : p = f[Len(a)].at
    OBVIOUS
  <2>2. p \in Nat /\ (Complete(a, p) => p >= Len(a) + 2)
    BY <1>2, <1>3, <2>1, RunType
  <2>3. Complete(a, p) => p <= Len(a)
    BY DEF Complete
  <2> QED
    BY <1>2, <2>1, <2>2, <2>3
<1> QED
  BY <1>5, <1>6

Begins(a, b) == Len(a) <= Len(b) /\ \A i \in 1 .. Len(a) : b[i] = a[i]

(* A complete member is one of every longer file as well.                  *)
LEMMA CompleteLonger ==
  ASSUME NEW a \in Seq(Cells), NEW b \in Seq(Cells), Begins(a, b),
         NEW p \in Nat, p >= 1, Complete(a, p)
  PROVE  Complete(b, p) /\ b[p] = a[p] /\ MemberAt(b, p) = MemberAt(a, p)
<1>1. /\ a[p].size \in Nat /\ Even(a[p].size) \in Nat /\ Even(a[p].size) >= a[p].size
      /\ p \in 1 .. Len(a) /\ p + Even(a[p].size) <= Len(a)
  BY CompleteType DEF Heads
<1>2. b[p] = a[p]
  BY <1>1 DEF Begins
<1>3. Complete(b, p)
  BY <1>1, <1>2 DEF Begins, Complete
<1>4. SubSeq(b, p + 1, p + a[p].size) = SubSeq(a, p + 1, p + a[p].size)
  <2>1. p + a[p].size <= Len(a)
    BY <1>1
  <2>2. \A i \in p + 1 .. p + a[p].size : b[i] = a[i]
    BY <1>1, <2>1 DEF Begins
  <2> QED
    BY <1>1, <2>1, <2>2, SMTT(30)
<1> QED
  BY <1>2, <1>3, <1>4 DEF MemberAt

(* More cells change nothing of what has been read.                        *)
LEMMA ReadingLonger ==
  ASSUME NEW a \in Seq(Cells), NEW b \in Seq(Cells), Begins(a, b),
         NEW p, NEW ms, Reading(a, p, ms)
  PROVE  Reading(b, p, ms)
<1>1. PICK f : Reads(a, f) /\ \E k \in 0 .. Len(a) : At(f, k, p, ms)
  BY DEF Reading
<1>2. ReadRun(a, f)
  BY <1>1 DEF Reads
<1> DEFINE T == {n \in Nat : n <= Len(a) => Reading(b, f[n].at, f[n].ms)}
<1>3. 0 \in T
  <2>1. Reading(b, 2, <<>>) /\ f[0].at = 2 /\ f[0].ms = <<>>
    BY <1>2, ReadingBegins DEF ReadRun, Start
  <2> QED
    BY <2>1
<1>4. ASSUME NEW n \in Nat, n \in T PROVE n + 1 \in T
  <2> SUFFICES ASSUME n + 1 <= Len(a) PROVE Reading(b, f[n + 1].at, f[n + 1].ms)
    OBVIOUS
  <2>1. n + 1 \in 1 .. Len(a) /\ (n + 1) - 1 = n /\ n \in 0 .. Len(a)
    OBVIOUS
  <2>2. PICK q, ns : q = f[n].at /\ ns = f[n].ms
    OBVIOUS
  <2>3. f[n + 1] = NextOf(a, f[n])
    BY <1>2, <2>1 DEF ReadRun
  <2>4. Reading(b, q, ns)
    BY <1>4, <2>1, <2>2
  <2>5. q \in Nat /\ q >= 2
    BY <1>2, <2>1, <2>2, RunType
  <2>6. CASE Complete(a, q)
    <3>1. Complete(b, q) /\ b[q] = a[q] /\ MemberAt(b, q) = MemberAt(a, q)
      BY <2>5, <2>6, CompleteLonger
    <3>2. Reading(b, q + Even(b[q].size) + 1, Append(ns, MemberAt(b, q)))
      BY <2>4, <3>1, ReadingGoesOn
    <3>3. /\ f[n + 1].at = q + Even(a[q].size) + 1
          /\ f[n + 1].ms = Append(ns, MemberAt(a, q))
      BY <2>2, <2>3, <2>6 DEF NextOf
    <3> QED
      BY <3>1, <3>2, <3>3
  <2>7. CASE ~ Complete(a, q)
    BY <2>2, <2>3, <2>4, <2>7 DEF NextOf
  <2> QED
    BY <2>6, <2>7
<1>5. Nat \subseteq T
  <2> HIDE DEF T
  <2> QED
    BY <1>3, <1>4, NatSetInduction
<1>6. PICK k \in 0 .. Len(a) : At(f, k, p, ms)
  BY <1>1
<1>7. Reading(b, f[k].at, f[k].ms)
  BY <1>5, <1>6
<1> QED
  BY <1>6, <1>7 DEF At

(* What has been read is the beginning of what will have been read.        *)
LEMMA ReadingSoFar ==
  ASSUME NEW a \in Seq(Cells), NEW p, NEW ms, Reading(a, p, ms)
  PROVE  Begins(ms, Members(a)) /\ ms \in Seq(Mems) /\ Members(a) \in Seq(Mems)
<1>1. PICK f : Reads(a, f) /\ \E k \in 0 .. Len(a) : At(f, k, p, ms)
  BY DEF Reading
<1>2. PICK k \in 0 .. Len(a) : At(f, k, p, ms)
  BY <1>1
<1>3. ReadRun(a, f) /\ Members(a) = f[Len(a)].ms /\ f[k].ms = ms
  BY <1>1, <1>2 DEF Reads, At
<1>4. \A n \in 0 .. Len(a) : f[n].ms \in Seq(Mems)
  BY <1>3, RunType
<1> DEFINE T == {n \in Nat : n >= k /\ n <= Len(a) => Begins(ms, f[n].ms)}
<1>5. 0 \in T
  <2> SUFFICES ASSUME 0 >= k PROVE Begins(ms, f[0].ms)
    OBVIOUS
  <2>1. f[0].ms = ms /\ ms \in Seq(Mems)
    BY <1>3, <1>4
  <2> QED
    BY <2>1 DEF Begins
<1>6. ASSUME NEW n \in Nat, n \in T PROVE n + 1 \in T
  <2> SUFFICES ASSUME n + 1 >= k, n + 1 <= Len(a) PROVE Begins(ms, f[n + 1].ms)
    OBVIOUS
  <2>1. n + 1 \in 1 .. Len(a) /\ (n + 1) - 1 = n /\ n \in 0 .. Len(a) /\ n + 1 \in 0 .. Len(a)
    OBVIOUS
  <2>2. CASE n + 1 = k
    BY <1>3, <1>4, <2>1, <2>2 DEF Begins
  <2>3. CASE n + 1 # k
    <3>1. Begins(ms, f[n].ms)
      BY <1>6, <2>1, <2>3
    <3>2. f[n + 1] = NextOf(a, f[n])
      BY <1>3, <2>1 DEF ReadRun
    <3>3. PICK q, ns : q = f[n].at /\ ns = f[n].ms
      OBVIOUS
    <3>4. ns \in Seq(Mems) /\ ms \in Seq(Mems)
      BY <1>3, <1>4, <2>1, <3>3
    <3>5. CASE Complete(a, q)
      <4>1. f[n + 1].ms = Append(ns, MemberAt(a, q))
        BY <3>2, <3>3, <3>5 DEF NextOf
      <4> QED
        BY <3>1, <3>3, <3>4, <4>1 DEF Begins
    <3>6. CASE ~ Complete(a, q)
      BY <3>1, <3>2, <3>3, <3>6 DEF NextOf
    <3> QED
      BY <3>5, <3>6
  <2> QED
    BY <2>2, <2>3
<1>7. Nat \subseteq T
  <2> HIDE DEF T
  <2> QED
    BY <1>5, <1>6, NatSetInduction
<1>8. Len(a) \in Nat /\ Len(a) >= k /\ Len(a) \in 0 .. Len(a)
  OBVIOUS
<1> QED
  BY <1>3, <1>4, <1>7, <1>8

-----------------------------------------------------------------------------
(* A file that reads to its end.                                           *)
Whole(a) == a \in Seq(Cells) /\ a # <<>> /\ Reading(a, Len(a) + 1, Members(a))

(* Members are members.                                                    *)
LEMMA MembersType == ASSUME NEW a \in Seq(Cells) \cup {None} PROVE Members(a) \in Seq(Mems)
<1>1. CASE a = None
  BY <1>1 DEF Members
<1>2. CASE a \in Seq(Cells)
  BY <1>2, ReadingBegins, ReadingSoFar
<1> QED
  BY <1>1, <1>2

(* A file that is written to keeps its members.                            *)
LEMMA MembersLonger ==
  ASSUME NEW a \in Seq(Cells), NEW b \in Seq(Cells), Begins(a, b)
  PROVE  Begins(Members(a), Members(b))
<1>1. PICK p : Reading(a, p, Members(a))
  BY ReadingSeesAll
<1>2. Reading(b, p, Members(a))
  BY <1>1, ReadingLonger
<1> QED
  BY <1>2, ReadingSoFar

(* A file that has at most the magic word has no members.                  *)
LEMMA MembersNone ==
  ASSUME NEW a \in Seq(Cells), Len(a) <= 1
  PROVE  Members(a) = <<>> /\ (a # <<>> => Whole(a))
<1>1. Reading(a, 2, <<>>)
  BY ReadingBegins
<1>2. ~ Complete(a, 2)
  BY DEF Complete
<1>3. Members(a) = <<>>
  BY <1>1, <1>2, ReadingEnds
<1>4. a # <<>> => Len(a) + 1 = 2
  OBVIOUS
<1> QED
  BY <1>1, <1>3, <1>4 DEF Whole

(* A file that reads to its end, and a member behind it.                   *)
LEMMA WholeAndMember ==
  ASSUME NEW a, Whole(a), NEW b \in Seq(Cells), Begins(a, b),
         Complete(b, Len(a) + 1), Len(b) = Len(a) + 1 + Even(b[Len(a) + 1].size)
  PROVE  Whole(b) /\ Members(b) = Append(Members(a), MemberAt(b, Len(a) + 1))
<1>1. PICK p, ms : p = Len(a) + 1 /\ ms = Members(a)
  OBVIOUS
<1>2. a \in Seq(Cells) /\ Reading(a, p, ms)
  BY <1>1 DEF Whole
<1>3. Reading(b, p, ms)
  BY <1>2, ReadingLonger
<1>4. p \in Nat /\ p >= 1 /\ Len(a) \in Nat
  BY <1>1, <1>2
<1>5. Even(b[p].size) \in Nat
  BY <1>1, <1>4, CompleteType
<1>6. Reading(b, p + Even(b[p].size) + 1, Append(ms, MemberAt(b, p)))
  BY <1>1, <1>3, ReadingGoesOn
<1>7. p + Even(b[p].size) + 1 = Len(b) + 1
  BY <1>1, <1>4, <1>5
<1>8. ~ Complete(b, Len(b) + 1)
  BY DEF Complete
<1>9. Members(b) = Append(ms, MemberAt(b, p))
  BY <1>6, <1>7, <1>8, ReadingEnds
<1>10. b # <<>>
  BY <1>1, <1>4, <1>5, <1>7
<1> QED
  BY <1>1, <1>6, <1>7, <1>9, <1>10 DEF Whole

(* ... and something else behind it.                                       *)
LEMMA WholeAndRest ==
  ASSUME NEW a, Whole(a), NEW b \in Seq(Cells), Begins(a, b), ~ Complete(b, Len(a) + 1)
  PROVE  Members(b) = Members(a)
<1>1. a \in Seq(Cells) /\ Reading(a, Len(a) + 1, Members(a))
  BY DEF Whole
<1>2. Reading(b, Len(a) + 1, Members(a))
  BY <1>1, ReadingLonger
<1> QED
  BY <1>2, ReadingEnds

-----------------------------------------------------------------------------
(* Keeps, with the command and the disk as it was as arguments, so that it *)
(* can be said of any two files.                                           *)

(* Keeps, with the command and the disk as it was as arguments.            *)
Dropped(k, l, m) == k = "d" /\ Count([i \in DOMAIN l |-> Tail14[l[i]]], m.name) > 0
LeftOf(k, l, r, m) == IF Dropped(k, l, m) THEN r ELSE Append(r, m)
LeftIn(k, l, ms) ==
  LET left[n \in 0 .. Len(ms)] ==
        IF n = 0 THEN <<>>
        ELSE IF k = "d" /\ Count([i \in DOMAIN l |-> Tail14[l[i]]], ms[n].name) > 0 THEN left[n - 1]
        ELSE Append(left[n - 1], ms[n])
  IN left[Len(ms)]
LeftRun(k, l, ms, f) ==
  f[0] = <<>> /\ \A n \in 1 .. Len(ms) : f[n] = LeftOf(k, l, f[n - 1], ms[n])
StandsIn(k, l, o, new, m) ==
  \/ new = m
  \/ k = "r" /\ \E i \in DOMAIN l :
       new = [name |-> Tail14[l[i]], data |-> o.files[l[i]]] /\ new.name = m.name
Covers(k, l, o, was, is) ==
  /\ Len(LeftIn(k, l, was)) <= Len(LeftIn(k, l, is))
  /\ \A i \in DOMAIN LeftIn(k, l, was) :
       StandsIn(k, l, o, LeftIn(k, l, is)[i], LeftIn(k, l, was)[i])

(* Keeps in these terms.                                                   *)
LEMMA KeepsIs ==
  /\ Keeps(archive) <=> Covers(key, list, old, Members(old.archive), Members(archive))
  /\ Keeps(tmp) <=> Covers(key, list, old, Members(old.archive), Members(tmp))
<1>1. \A ms : Undeleted(ms) = LeftIn(key, list, ms)
  BY DEF Undeleted, LeftIn, Tails
<1>2. \A n, m : Stands(n, m) <=> StandsIn(key, list, old, n, m)
  BY DEF Stands, StandsIn, File
<1> QED
  BY <1>1, <1>2 DEF Keeps, Covers

(* The recursion in Undeleted has a solution, and ends in its value.       *)
LEMMA LeftRuns ==
  ASSUME NEW k, NEW l, NEW ms, Len(ms) \in Nat
  PROVE  \E f : LeftRun(k, l, ms, f) /\ LeftIn(k, l, ms) = f[Len(ms)]
<1> DEFINE Run(f, m) == f = [n \in 0 .. m |->
             IF n = 0 THEN <<>>
             ELSE IF k = "d" /\ Count([i \in DOMAIN l |-> Tail14[l[i]]], ms[n].name) > 0 THEN f[n - 1]
             ELSE Append(f[n - 1], ms[n])]
           Runs(f, m) == f = [n \in 0 .. m |-> IF n = 0 THEN <<>> ELSE LeftOf(k, l, f[n - 1], ms[n])]
           T == {m \in Nat : \E f : Runs(f, m)}
<1>1. 0 \in T
  <2> DEFINE f == [n \in 0 .. 0 |-> <<>>]
  <2>1. f = [n \in 0 .. 0 |-> IF n = 0 THEN <<>> ELSE LeftOf(k, l, f[n - 1], ms[n])]
    OBVIOUS
  <2> HIDE DEF f
  <2> QED
    BY <2>1
<1>2. ASSUME NEW m \in Nat, m \in T PROVE m + 1 \in T
  <2>1. PICK f : Runs(f, m)
    BY <1>2
  <2> DEFINE new == LeftOf(k, l, f[m], ms[m + 1])
             g == [n \in 0 .. m + 1 |-> IF n = m + 1 THEN new ELSE f[n]]
  <2>2. ASSUME NEW n \in 0 .. m + 1
        PROVE  g[n] = IF n = 0 THEN <<>> ELSE LeftOf(k, l, g[n - 1], ms[n])
    <3>1. CASE n = m + 1
      <4>1. g[n] = new /\ g[n - 1] = f[m] /\ n # 0 /\ n - 1 = m
        <5> HIDE DEF new
        <5> QED
          BY <3>1
      <4> QED
        BY <3>1, <4>1
    <3>2. CASE n # m + 1
      <4>1. n \in 0 .. m /\ g[n] = f[n] /\ (n # 0 => g[n - 1] = f[n - 1])
        <5> HIDE DEF new
        <5> QED
          BY <3>2
      <4>2. f[n] = IF n = 0 THEN <<>> ELSE LeftOf(k, l, f[n - 1], ms[n])
        BY <2>1, <4>1
      <4> QED
        BY <4>1, <4>2
    <3> QED
      BY <3>1, <3>2
  <2>3. g = [n \in 0 .. m + 1 |-> g[n]]
    OBVIOUS
  <2> HIDE DEF g
  <2>4. Runs(g, m + 1)
    BY <2>2, <2>3
  <2> HIDE DEF Runs
  <2> QED
    BY <2>4
<1>3. Nat \subseteq T
  <2> HIDE DEF T
  <2> QED
    BY <1>1, <1>2, NatSetInduction
<1> DEFINE f == CHOOSE f : Run(f, Len(ms))
<1>4. Run(f, Len(ms))
  <2>1. \E x : Runs(x, Len(ms))
    BY <1>3
  <2>2. \E x : Run(x, Len(ms))
    BY <2>1 DEF LeftOf, Dropped
  <2> HIDE DEF Run
  <2> QED
    BY <2>2
<1>5. LeftIn(k, l, ms) = f[Len(ms)]
  BY DEF LeftIn
<1> HIDE DEF f
<1>6. LeftRun(k, l, ms, f)
  <2>1. Runs(f, Len(ms))
    BY <1>4 DEF LeftOf, Dropped
  <2> QED
    BY <2>1 DEF LeftRun
<1> QED
  BY <1>5, <1>6

(* Its values are sequences of members.                                    *)
LEMMA LeftRunType ==
  ASSUME NEW k, NEW l, NEW ms \in Seq(Mems), NEW f, LeftRun(k, l, ms, f), NEW n \in 0 .. Len(ms)
  PROVE  f[n] \in Seq(Mems)
<1> DEFINE T == {i \in Nat : i <= Len(ms) => f[i] \in Seq(Mems)}
<1>1. 0 \in T
  <2>1. f[0] = <<>> /\ <<>> \in Seq(Mems)
    BY DEF LeftRun
  <2> QED
    BY <2>1
<1>2. ASSUME NEW i \in Nat, i \in T PROVE i + 1 \in T
  <2> SUFFICES ASSUME i + 1 <= Len(ms) PROVE f[i + 1] \in Seq(Mems)
    OBVIOUS
  <2>1. i + 1 \in 1 .. Len(ms) /\ (i + 1) - 1 = i /\ f[i] \in Seq(Mems) /\ ms[i + 1] \in Mems
    BY <1>2
  <2>2. f[i + 1] = LeftOf(k, l, f[i], ms[i + 1])
    BY <2>1 DEF LeftRun
  <2> QED
    BY <2>1, <2>2 DEF LeftOf
<1>3. Nat \subseteq T
  <2> HIDE DEF T
  <2> QED
    BY <1>1, <1>2, NatSetInduction
<1> QED
  BY <1>3

(* Two solutions agree as long as the members do.                          *)
LEMMA LeftRunsMeet ==
  ASSUME NEW k, NEW l, NEW ms \in Seq(Mems), NEW ns \in Seq(Mems), Begins(ms, ns),
         NEW f, LeftRun(k, l, ms, f), NEW g, LeftRun(k, l, ns, g)
  PROVE  f[Len(ms)] = g[Len(ms)]
<1> DEFINE T == {i \in Nat : i <= Len(ms) => f[i] = g[i]}
<1>1. 0 \in T
  BY DEF LeftRun
<1>2. ASSUME NEW i \in Nat, i \in T PROVE i + 1 \in T
  <2> SUFFICES ASSUME i + 1 <= Len(ms) PROVE f[i + 1] = g[i + 1]
    OBVIOUS
  <2>1. i + 1 \in 1 .. Len(ms) /\ i + 1 \in 1 .. Len(ns) /\ (i + 1) - 1 = i /\ f[i] = g[i]
    BY <1>2 DEF Begins
  <2>2. f[i + 1] = LeftOf(k, l, f[i], ms[i + 1]) /\ g[i + 1] = LeftOf(k, l, g[i], ns[i + 1])
    BY <2>1 DEF LeftRun
  <2>3. ms[i + 1] = ns[i + 1]
    BY <2>1 DEF Begins
  <2> QED
    BY <2>1, <2>2, <2>3
<1>3. Nat \subseteq T
  <2> HIDE DEF T
  <2> QED
    BY <1>1, <1>2, NatSetInduction
<1> QED
  BY <1>3

(* What is left are members.                                               *)
LEMMA LeftType ==
  ASSUME NEW k, NEW l, NEW ms \in Seq(Mems)
  PROVE  LeftIn(k, l, ms) \in Seq(Mems) /\ (ms = <<>> => LeftIn(k, l, ms) = <<>>)
<1>1. Len(ms) \in Nat /\ Len(ms) \in 0 .. Len(ms) /\ (ms = <<>> => Len(ms) = 0)
  OBVIOUS
<1>2. PICK f : LeftRun(k, l, ms, f) /\ LeftIn(k, l, ms) = f[Len(ms)]
  BY <1>1, LeftRuns
<1>3. f[Len(ms)] \in Seq(Mems)
  BY <1>1, <1>2, LeftRunType
<1>4. f[0] = <<>>
  BY <1>2 DEF LeftRun
<1> QED
  BY <1>1, <1>2, <1>3, <1>4

(* One member more: it is left too, or dropped.                            *)
LEMMA LeftAppend ==
  ASSUME NEW k, NEW l, NEW ms \in Seq(Mems), NEW m \in Mems
  PROVE  LeftIn(k, l, Append(ms, m)) = LeftOf(k, l, LeftIn(k, l, ms), m)
<1>1. PICK ns : ns = Append(ms, m)
  OBVIOUS
<1>2. ns \in Seq(Mems) /\ Len(ns) = Len(ms) + 1 /\ Len(ms) \in Nat /\ Len(ns) \in Nat
  BY <1>1
<1>3. Begins(ms, ns) /\ ns[Len(ns)] = m
  BY <1>1, <1>2 DEF Begins
<1>4. PICK f : LeftRun(k, l, ms, f) /\ LeftIn(k, l, ms) = f[Len(ms)]
  BY <1>2, LeftRuns
<1>5. PICK g : LeftRun(k, l, ns, g) /\ LeftIn(k, l, ns) = g[Len(ns)]
  BY <1>2, LeftRuns
<1>6. f[Len(ms)] = g[Len(ms)]
  BY <1>2, <1>3, <1>4, <1>5, LeftRunsMeet
<1>7. Len(ns) \in 1 .. Len(ns) /\ Len(ns) - 1 = Len(ms)
  BY <1>2
<1>8. g[Len(ns)] = LeftOf(k, l, g[Len(ms)], m)
  BY <1>3, <1>5, <1>7 DEF LeftRun
<1> QED
  BY <1>1, <1>4, <1>5, <1>6, <1>8

(* More members leave more.                                                *)
LEMMA LeftLonger ==
  ASSUME NEW k, NEW l, NEW ms \in Seq(Mems), NEW ns \in Seq(Mems), Begins(ms, ns)
  PROVE  Begins(LeftIn(k, l, ms), LeftIn(k, l, ns))
<1>1. Len(ms) \in Nat /\ Len(ns) \in Nat /\ Len(ms) <= Len(ns)
  BY DEF Begins
<1>2. PICK f : LeftRun(k, l, ms, f) /\ LeftIn(k, l, ms) = f[Len(ms)]
  BY <1>1, LeftRuns
<1>3. PICK g : LeftRun(k, l, ns, g) /\ LeftIn(k, l, ns) = g[Len(ns)]
  BY <1>1, LeftRuns
<1>4. f[Len(ms)] = g[Len(ms)]
  BY <1>2, <1>3, LeftRunsMeet
<1>5. \A n \in 0 .. Len(ns) : g[n] \in Seq(Mems)
  BY <1>3, LeftRunType
<1> DEFINE T == {i \in Nat : i >= Len(ms) /\ i <= Len(ns) => Begins(g[Len(ms)], g[i])}
<1>6. 0 \in T
  <2> SUFFICES ASSUME 0 >= Len(ms) PROVE Begins(g[Len(ms)], g[0])
    OBVIOUS
  <2>1. Len(ms) = 0 /\ g[0] \in Seq(Mems)
    BY <1>1, <1>5
  <2> QED
    BY <2>1 DEF Begins
<1>7. ASSUME NEW i \in Nat, i \in T PROVE i + 1 \in T
  <2> SUFFICES ASSUME i + 1 >= Len(ms), i + 1 <= Len(ns) PROVE Begins(g[Len(ms)], g[i + 1])
    OBVIOUS
  <2>1. i + 1 \in 1 .. Len(ns) /\ (i + 1) - 1 = i /\ i \in 0 .. Len(ns) /\ i + 1 \in 0 .. Len(ns)
    BY <1>1
  <2>2. g[i] \in Seq(Mems) /\ g[i + 1] \in Seq(Mems) /\ Len(ms) \in 0 .. Len(ns)
    BY <1>1, <1>5, <2>1
  <2>3. CASE i + 1 = Len(ms)
    BY <2>2, <2>3 DEF Begins
  <2>4. CASE i + 1 # Len(ms)
    <3>1. Begins(g[Len(ms)], g[i])
      BY <1>1, <1>7, <2>1, <2>4
    <3>2. g[i + 1] = LeftOf(k, l, g[i], ns[i + 1])
      BY <1>3, <2>1 DEF LeftRun
    <3>3. PICK q, r, s : q = g[Len(ms)] /\ r = g[i] /\ s = g[i + 1]
      OBVIOUS
    <3>4. q \in Seq(Mems) /\ r \in Seq(Mems)
      BY <1>5, <2>2, <3>3
    <3>5. s = r \/ s = Append(r, ns[i + 1])
      BY <3>2, <3>3 DEF LeftOf
    <3>6. Begins(q, r)
      BY <3>1, <3>3
    <3>7. Begins(q, s)
      <4>1. CASE s = r
        BY <3>6, <4>1
      <4>2. CASE s = Append(r, ns[i + 1])
        <5>1. ns[i + 1] \in Mems
          BY <2>1
        <5>2. Len(s) = Len(r) + 1 /\ \A j \in 1 .. Len(r) : s[j] = r[j]
          BY <3>4, <4>2, <5>1
        <5> QED
          BY <3>4, <3>6, <5>2 DEF Begins
      <4> QED
        BY <3>5, <4>1, <4>2
    <3> QED
      BY <3>3, <3>7
  <2> QED
    BY <2>3, <2>4
<1>8. Nat \subseteq T
  <2> HIDE DEF T
  <2> QED
    BY <1>6, <1>7, NatSetInduction
<1>9. Begins(g[Len(ms)], g[Len(ns)])
  BY <1>1, <1>8
<1> QED
  BY <1>2, <1>3, <1>4, <1>9

(* Members cover themselves.                                               *)
LEMMA CoversSelf ==
  ASSUME NEW k, NEW l, NEW o, NEW ms \in Seq(Mems)
  PROVE  Covers(k, l, o, ms, ms)
  BY LeftType DEF Covers, StandsIn

(* Any members cover none.                                                 *)
LEMMA CoversNone ==
  ASSUME NEW k, NEW l, NEW o, NEW ms \in Seq(Mems)
  PROVE  Covers(k, l, o, <<>>, ms)
<1>0. <<>> \in Seq(Mems)
  OBVIOUS
<1>1. PICK none \in Seq(Mems) : none = <<>>
  BY <1>0
<1>2. LeftIn(k, l, none) = <<>> /\ LeftIn(k, l, ms) \in Seq(Mems)
  BY <1>1, LeftType
<1> QED
  BY <1>1, <1>2 DEF Covers

(* What covers them, with more behind it, still does.                      *)
LEMMA CoversLonger ==
  ASSUME NEW k, NEW l, NEW o, NEW was \in Seq(Mems), NEW ms \in Seq(Mems), NEW ns \in Seq(Mems),
         Covers(k, l, o, was, ms), Begins(ms, ns)
  PROVE  Covers(k, l, o, was, ns)
<1>1. PICK w, m, n : w = LeftIn(k, l, was) /\ m = LeftIn(k, l, ms) /\ n = LeftIn(k, l, ns)
  OBVIOUS
<1>2. w \in Seq(Mems) /\ m \in Seq(Mems) /\ n \in Seq(Mems)
  BY <1>1, LeftType
<1>3. Begins(m, n)
  BY <1>1, LeftLonger
<1>4. Len(w) <= Len(m) /\ \A i \in DOMAIN w : StandsIn(k, l, o, m[i], w[i])
  BY <1>1 DEF Covers
<1>5. Len(w) <= Len(n) /\ \A i \in DOMAIN w : n[i] = m[i]
  BY <1>2, <1>3, <1>4, SMTT(30) DEF Begins
<1> QED
  BY <1>1, <1>4, <1>5 DEF Covers

(* The members of is are those of was that are left, one for one.          *)
Matched(k, l, o, was, is) ==
  Covers(k, l, o, was, is) /\ Len(LeftIn(k, l, was)) = Len(LeftIn(k, l, is))

(* No members match none.                                                  *)
LEMMA MatchedNone ==
  ASSUME NEW k, NEW l, NEW o
  PROVE  Matched(k, l, o, <<>>, <<>>)
<1>1. <<>> \in Seq(Mems)
  OBVIOUS
<1> QED
  BY <1>1, CoversNone DEF Matched

(* A member that d deletes matches nothing.                                *)
LEMMA MatchedDrop ==
  ASSUME NEW k, NEW l, NEW o, NEW was \in Seq(Mems), NEW is \in Seq(Mems), NEW m \in Mems,
         Matched(k, l, o, was, is), Dropped(k, l, m)
  PROVE  Matched(k, l, o, Append(was, m), is)
<1>1. LeftIn(k, l, Append(was, m)) = LeftIn(k, l, was)
  BY LeftAppend DEF LeftOf
<1> QED
  BY <1>1 DEF Matched, Covers

(* The next member matches the one that stands for it.                     *)
LEMMA MatchedNext ==
  ASSUME NEW k, NEW l, NEW o, NEW was \in Seq(Mems), NEW is \in Seq(Mems), NEW m \in Mems, NEW n \in Mems,
         Matched(k, l, o, was, is), StandsIn(k, l, o, n, m)
  PROVE  Matched(k, l, o, Append(was, m), Append(is, n))
<1>1. PICK w, v, w2, v2 : /\ w = LeftIn(k, l, was) /\ v = LeftIn(k, l, is)
                          /\ w2 = LeftIn(k, l, Append(was, m)) /\ v2 = LeftIn(k, l, Append(is, n))
  OBVIOUS
<1>2. w \in Seq(Mems) /\ v \in Seq(Mems)
  BY <1>1, LeftType
<1>3. Len(w) = Len(v) /\ \A i \in DOMAIN w : StandsIn(k, l, o, v[i], w[i])
  BY <1>1 DEF Matched, Covers
<1>4. w2 = LeftOf(k, l, w, m) /\ v2 = LeftOf(k, l, v, n)
  BY <1>1, LeftAppend
<1>5. Dropped(k, l, m) <=> Dropped(k, l, n)
  BY DEF StandsIn, Dropped
<1>6. CASE Dropped(k, l, m)
  <2>1. w2 = w /\ v2 = v
    BY <1>4, <1>5, <1>6 DEF LeftOf
  <2> QED
    BY <1>1, <1>3, <2>1, <1>2 DEF Matched, Covers
<1>7. CASE ~ Dropped(k, l, m)
  <2>1. w2 = Append(w, m) /\ v2 = Append(v, n)
    BY <1>4, <1>5, <1>7 DEF LeftOf
  <2>2. Len(w2) = Len(v2) /\ Len(v2) \in Nat
    BY <1>2, <1>3, <2>1
  <2>3. ASSUME NEW i \in DOMAIN w2 PROVE StandsIn(k, l, o, v2[i], w2[i])
    <3>1. CASE i \in DOMAIN w
      <4>1. w2[i] = w[i] /\ v2[i] = v[i]
        BY <1>2, <1>3, <2>1, <3>1
      <4> QED
        BY <1>3, <3>1, <4>1
    <3>2. CASE i \notin DOMAIN w
      <4>1. w2[i] = m /\ v2[i] = n
        BY <1>2, <1>3, <2>1, <3>2
      <4> QED
        BY <4>1
    <3> QED
      BY <3>1, <3>2
  <2> QED
    BY <1>1, <2>2, <2>3 DEF Matched, Covers
<1> QED
  BY <1>6, <1>7

(* d deletes a member whose name one of the list becomes.                  *)
LEMMA DroppedIs ==
  ASSUME NEW l \in Seq(Paths), NEW m \in Mems, NEW i \in DOMAIN l, Tail14[l[i]] = m.name
  PROVE  Dropped("d", l, m)
<1> DEFINE s == [j \in DOMAIN l |-> Tail14[l[j]]]
           D == {j \in DOMAIN s : s[j] = m.name}
<1>1. IsFiniteSet(DOMAIN l)
  <2>1. DOMAIN l = 1 .. Len(l) /\ Len(l) \in Nat
    OBVIOUS
  <2> QED
    BY <2>1, FS_Interval
<1>2. D \subseteq DOMAIN l /\ i \in D
  OBVIOUS
<1> HIDE DEF D
<1>3. IsFiniteSet(D)
  BY <1>1, <1>2, FS_Subset
<1>4. Cardinality(D) \in Nat /\ Cardinality(D) # 0
  BY <1>2, <1>3, FS_CardinalityType, FS_EmptySet
<1> QED
  BY <1>4 DEF Dropped, Count, D

-----------------------------------------------------------------------------
(* The chunks of a copy.                                                   *)
LEMMA Blocks ==
  ASSUME NEW n \in Nat
  PROVE  n \div BLK \in Nat /\ n % BLK \in 0 .. BLK - 1 /\ n = BLK * (n \div BLK) + (n % BLK)
  BY ArAssumption

(* Quotient and remainder are the only ones.                               *)
LEMMA BlocksOnce ==
  ASSUME NEW q \in Nat, NEW p \in Nat, NEW r \in 0 .. BLK - 1, NEW s \in 0 .. BLK - 1,
         BLK * q + r = BLK * p + s
  PROVE  q = p /\ r = s
<1>1. BLK \in Nat /\ BLK > 0
  BY ArAssumption
<1>2. ASSUME NEW x \in Nat, NEW y \in Nat, x < y PROVE BLK * x + BLK <= BLK * y
  <2>1. PICK d \in Nat : y = x + 1 + d
    <3>1. y - x - 1 \in Nat /\ y = x + 1 + (y - x - 1)
      BY <1>2
    <3> QED
      BY <3>1
  <2>2. BLK * y = BLK * x + BLK + BLK * d /\ BLK * d \in Nat /\ BLK * x \in Nat
    BY <1>1, <2>1
  <2> QED
    BY <1>1, <2>2
<1>3. BLK * q \in Nat /\ BLK * p \in Nat
  BY <1>1
<1>4. ~ q < p
  <2> SUFFICES ASSUME q < p PROVE FALSE
    OBVIOUS
  <2>1. BLK * q + BLK <= BLK * p
    BY <1>2
  <2> QED
    BY <1>1, <1>3, <2>1
<1>5. ~ p < q
  <2> SUFFICES ASSUME p < q PROVE FALSE
    OBVIOUS
  <2>1. BLK * p + BLK <= BLK * q
    BY <1>2
  <2> QED
    BY <1>1, <1>3, <2>1
<1>6. q = p
  BY <1>4, <1>5
<1> QED
  BY <1>3, <1>6, <1>1

(* One block less: the quotient is one less, the remainder the same.       *)
LEMMA BlocksLess ==
  ASSUME NEW n \in Nat, n >= BLK
  PROVE  n - BLK \in Nat /\ n \div BLK = (n - BLK) \div BLK + 1 /\ n % BLK = (n - BLK) % BLK
<1>1. BLK \in Nat /\ BLK > 0 /\ n - BLK \in Nat
  BY ArAssumption
<1>2. PICK q, r, p, s : q = n \div BLK /\ r = n % BLK /\ p = (n - BLK) \div BLK /\ s = (n - BLK) % BLK
  OBVIOUS
<1>3. q \in Nat /\ r \in 0 .. BLK - 1 /\ n = BLK * q + r
  BY <1>2, Blocks
<1>4. p \in Nat /\ s \in 0 .. BLK - 1 /\ n - BLK = BLK * p + s
  BY <1>1, <1>2, Blocks
<1>5. BLK * (p + 1) = BLK * p + BLK /\ BLK * p \in Nat /\ p + 1 \in Nat
  BY <1>1, <1>4
<1>6. BLK * (p + 1) + s = BLK * q + r
  BY <1>1, <1>3, <1>4, <1>5
<1>7. p + 1 = q /\ s = r
  BY <1>3, <1>4, <1>5, <1>6, BlocksOnce
<1> QED
  BY <1>1, <1>2, <1>7

(* Less than one block.                                                    *)
LEMMA BlocksPart ==
  ASSUME NEW n \in Nat, n < BLK
  PROVE  n \div BLK = 0 /\ n % BLK = n
<1>1. BLK \in Nat /\ BLK > 0
  BY ArAssumption
<1>2. PICK q, r : q = n \div BLK /\ r = n % BLK
  OBVIOUS
<1>3. q \in Nat /\ r \in 0 .. BLK - 1 /\ n = BLK * q + r
  BY <1>2, Blocks
<1>4. BLK * 0 + n = BLK * q + r /\ n \in 0 .. BLK - 1 /\ 0 \in Nat
  BY <1>1, <1>3
<1>5. q = 0 /\ r = n
  BY <1>3, <1>4, BlocksOnce
<1> QED
  BY <1>2, <1>5

-----------------------------------------------------------------------------
(* copy(): the chunks that a size and the flags give.                      *)

Flags == {"EVEN", "ODD"}
By(n, flag) == IF flag = "EVEN" THEN Even(n) ELSE n
Chunk(n, outf, inf) ==
  IF n >= BLK THEN [get |-> BLK, put |-> BLK] ELSE [get |-> By(n, inf), put |-> By(n, outf)]
LeftOver(n) == IF n >= BLK THEN n - BLK ELSE 0

(* Chunks, with the rounding named.                                        *)
LEMMA ChunksAre ==
  ASSUME NEW n \in Nat, NEW outf \in Flags, NEW inf \in Flags
  PROVE  Chunks(n, outf, inf) =
           [i \in 1 .. n \div BLK |-> [get |-> BLK, put |-> BLK]]
           \o (IF n % BLK = 0 THEN <<>> ELSE <<[get |-> By(n % BLK, inf), put |-> By(n % BLK, outf)]>>)
  BY DEF Chunks, By

(* A size of a block or more: one full chunk, and then those of the rest.  *)
LEMMA ChunksFull ==
  ASSUME NEW n \in Nat, n >= BLK, NEW outf \in Flags, NEW inf \in Flags
  PROVE  Chunks(n, outf, inf) = <<[get |-> BLK, put |-> BLK]>> \o Chunks(n - BLK, outf, inf)
<1> DEFINE c == [get |-> BLK, put |-> BLK]
<1>1. PICK q, r : q = (n - BLK) \div BLK /\ r = (n - BLK) % BLK
  OBVIOUS
<1>2. n - BLK \in Nat /\ n \div BLK = q + 1 /\ n % BLK = r
  BY <1>1, BlocksLess
<1>3. q \in Nat
  BY <1>1, <1>2, Blocks
<1>4. PICK e : e = (IF r = 0 THEN <<>> ELSE <<[get |-> By(r, inf), put |-> By(r, outf)]>>)
  OBVIOUS
<1>5. Chunks(n, outf, inf) = [i \in 1 .. q + 1 |-> c] \o e
  BY <1>2, <1>4, ChunksAre
<1>6. Chunks(n - BLK, outf, inf) = [i \in 1 .. q |-> c] \o e
  BY <1>1, <1>2, <1>4, ChunksAre
<1> DEFINE S == {c, [get |-> By(r, inf), put |-> By(r, outf)]}
           A == [i \in 1 .. q |-> c]
           B == [i \in 1 .. q + 1 |-> c]
<1> HIDE DEF c
<1>7. e \in Seq(S) /\ A \in Seq(S) /\ B \in Seq(S) /\ c \in S
  <2>1. c \in S /\ [get |-> By(r, inf), put |-> By(r, outf)] \in S
    OBVIOUS
  <2> HIDE DEF S
  <2>2. e \in Seq(S)
    BY <1>4, <2>1
  <2>3. A \in Seq(S) /\ B \in Seq(S)
    BY <1>3, <2>1
  <2> QED
    BY <2>1, <2>2, <2>3
<1>8. B = <<c>> \o A
  <2> HIDE DEF S
  <2>1. Len(A) = q /\ Len(B) = q + 1 /\ Len(<<c>> \o A) = q + 1 /\ <<c>> \o A \in Seq(S)
    BY <1>3, <1>7
  <2>2. \A i \in 1 .. q + 1 : B[i] = (<<c>> \o A)[i]
    BY <1>3, <1>7
  <2> QED
    BY <1>3, <1>7, <2>1, <2>2
<1> HIDE DEF A, B, S
<1>9. B \o e = <<c>> \o (A \o e)
  BY <1>7, <1>8
<1> QED
  BY <1>5, <1>6, <1>9 DEF A, B, c

(* A size below a block: one chunk, or none.                               *)
LEMMA ChunksPart ==
  ASSUME NEW n \in Nat, n < BLK, NEW outf \in Flags, NEW inf \in Flags
  PROVE  Chunks(n, outf, inf) =
           IF n = 0 THEN <<>> ELSE <<[get |-> By(n, inf), put |-> By(n, outf)]>>
<1>1. n \div BLK = 0 /\ n % BLK = n
  BY BlocksPart
<1> DEFINE e == IF n = 0 THEN <<>> ELSE <<[get |-> By(n, inf), put |-> By(n, outf)]>>
           S == {[get |-> By(n, inf), put |-> By(n, outf)]}
<1>2. Chunks(n, outf, inf) = [i \in 1 .. 0 |-> [get |-> BLK, put |-> BLK]] \o e
  BY <1>1, ChunksAre
<1>3. [i \in 1 .. 0 |-> [get |-> BLK, put |-> BLK]] = <<>>
  OBVIOUS
<1>4. e \in Seq(S)
  <2>1. [get |-> By(n, inf), put |-> By(n, outf)] \in S
    OBVIOUS
  <2> HIDE DEF S
  <2> QED
    BY <2>1
<1> HIDE DEF e, S
<1>5. <<>> \o e = e
  BY <1>4
<1> QED
  BY <1>2, <1>3, <1>5 DEF e

(* Even rounds up by one at most, and leaves whole blocks alone.           *)
LEMMA EvenIs ==
  ASSUME NEW n \in Nat
  PROVE  /\ Even(n) \in Nat /\ n <= Even(n) /\ Even(n) <= n + 1
         /\ (n > 0 => Even(n) > 0) /\ (n % 2 = 1 <=> Even(n) = n + 1)
         /\ n >= BLK => n - BLK \in Nat /\ Even(n) = BLK + Even(n - BLK) /\ n % 2 = (n - BLK) % 2
         /\ n < BLK => Even(n) <= BLK
<1>1. BLK \in Nat /\ BLK % 2 = 0 /\ BLK > 0
  BY ArAssumption
<1>2. PICK b \in Nat : BLK = 2 * b
  <2>1. BLK \div 2 \in Nat /\ BLK = 2 * (BLK \div 2)
    BY <1>1
  <2> QED
    BY <2>1
<1>3. n % 2 \in {0, 1}
  OBVIOUS
<1>4. n >= BLK => n % 2 = (n - BLK) % 2
  BY <1>2
<1>5. n < BLK => Even(n) <= BLK
  BY <1>2 DEF Even
<1> QED
  BY <1>1, <1>3, <1>4, <1>5 DEF Even

(* The first chunk of what is left, and the others.                        *)
LEMMA ChunksStep ==
  ASSUME NEW n \in Nat, NEW outf \in Flags, NEW inf \in Flags
  PROVE  /\ n = 0 => Chunks(n, outf, inf) = <<>>
         /\ n > 0 => /\ Chunks(n, outf, inf) # <<>>
                     /\ Head(Chunks(n, outf, inf)) = Chunk(n, outf, inf)
                     /\ Tail(Chunks(n, outf, inf)) = Chunks(LeftOver(n), outf, inf)
                     /\ Chunk(n, outf, inf) # PutHead
         /\ LeftOver(n) \in Nat
         /\ \E S : Chunks(n, outf, inf) \in Seq(S)
<1>1. BLK \in Nat /\ BLK > 0
  BY ArAssumption
<1>2. \A m \in Nat : \E S : Chunks(m, outf, inf) \in Seq(S)
  <2> TAKE m \in Nat
  <2> DEFINE A == [i \in 1 .. m \div BLK |-> [get |-> BLK, put |-> BLK]]
             d == [get |-> By(m % BLK, inf), put |-> By(m % BLK, outf)]
             S == {[get |-> BLK, put |-> BLK], d}
  <2>1. Chunks(m, outf, inf) = A \o (IF m % BLK = 0 THEN <<>> ELSE <<d>>)
    BY ChunksAre
  <2>2. m \div BLK \in Nat
    BY Blocks
  <2>3. [get |-> BLK, put |-> BLK] \in S /\ d \in S
    OBVIOUS
  <2>4. A \in Seq(S)
    <3> HIDE DEF S
    <3> QED
      BY <2>2, <2>3
  <2> HIDE DEF A, S, d
  <2>5. Chunks(m, outf, inf) \in Seq(S)
    BY <2>1, <2>3, <2>4
  <2> QED
    BY <2>5
<1>3. LeftOver(n) \in Nat
  BY <1>1 DEF LeftOver
<1>4. n = 0 => Chunks(n, outf, inf) = <<>>
  BY <1>1, ChunksPart
<1>5. ASSUME n >= BLK
      PROVE  /\ Chunks(n, outf, inf) # <<>>
             /\ Head(Chunks(n, outf, inf)) = Chunk(n, outf, inf)
             /\ Tail(Chunks(n, outf, inf)) = Chunks(LeftOver(n), outf, inf)
             /\ Chunk(n, outf, inf) # PutHead
  <2>1. PICK m \in Nat : m = n - BLK
    BY <1>1, <1>5
  <2>2. PICK S : Chunks(m, outf, inf) \in Seq(S)
    BY <1>2
  <2>3. PICK c, t : c = [get |-> BLK, put |-> BLK] /\ t = Chunks(m, outf, inf)
    OBVIOUS
  <2>4. Chunks(n, outf, inf) = <<c>> \o t
    BY <1>5, <2>1, <2>3, ChunksFull
  <2>5. <<c>> \o t # <<>> /\ Head(<<c>> \o t) = c /\ Tail(<<c>> \o t) = t
    <3> DEFINE U == S \cup {c}
    <3>1. t \in Seq(U) /\ c \in U
      BY <2>2, <2>3
    <3> HIDE DEF U
    <3>6. <<c>> \in Seq(U)
      BY <3>1
    <3>7. PICK s : s = <<c>> \o t
      OBVIOUS
    <3>2. s = <<c>> \o t /\ s \in Seq(U)
      BY <3>1, <3>6, <3>7
    <3>3. Len(s) = Len(t) + 1 /\ s[1] = c /\ \A i \in 1 .. Len(t) : s[i + 1] = t[i]
      BY <3>1, <3>2
    <3>4. s # <<>> /\ Head(s) = c
      BY <3>1, <3>2, <3>3
    <3>5. Tail(s) \in Seq(U) /\ Len(Tail(s)) = Len(t) /\ \A i \in 1 .. Len(t) : Tail(s)[i] = t[i]
      BY <3>1, <3>2, <3>3
    <3>8. Tail(s) = t
      BY <3>1, <3>5
    <3> QED
      BY <3>2, <3>4, <3>8
  <2>6. c = Chunk(n, outf, inf) /\ LeftOver(n) = m
    BY <1>5, <2>1, <2>3 DEF Chunk, LeftOver
  <2>7. c # PutHead
    BY <1>1, <2>3 DEF PutHead
  <2> QED
    BY <2>3, <2>4, <2>5, <2>6, <2>7
<1>6. ASSUME n > 0, n < BLK
      PROVE  /\ Chunks(n, outf, inf) # <<>>
             /\ Head(Chunks(n, outf, inf)) = Chunk(n, outf, inf)
             /\ Tail(Chunks(n, outf, inf)) = Chunks(LeftOver(n), outf, inf)
             /\ Chunk(n, outf, inf) # PutHead
  <2>1. PICK c : c = [get |-> By(n, inf), put |-> By(n, outf)]
    OBVIOUS
  <2>2. Chunks(n, outf, inf) = <<c>> /\ c = Chunk(n, outf, inf)
    BY <1>1, <1>6, <2>1, ChunksPart DEF Chunk
  <2>3. LeftOver(n) = 0
    BY <1>1, <1>6 DEF LeftOver
  <2>4. Chunks(0, outf, inf) = <<>>
    <3>1. PICK z \in Nat : z = 0
      OBVIOUS
    <3> QED
      BY <1>1, <3>1, ChunksPart
  <2>5. c.get > 0
    BY <1>6, <2>1, EvenIs DEF By
  <2>6. c # PutHead
    BY <2>5 DEF PutHead
  <2> QED
    BY <2>2, <2>3, <2>4, <2>6
<1>7. \E S : Chunks(n, outf, inf) \in Seq(S)
  BY <1>2
<1>8. n >= BLK \/ n < BLK
  BY <1>1
<1> QED
  BY <1>3, <1>4, <1>5, <1>6, <1>7, <1>8

-----------------------------------------------------------------------------
(* What copy() has still to write.                                         *)

(* What is still to be copied: n bytes, from the archive behind p or from  *)
(* the data s of a file, with the flags of copy().                         *)
Source(s, n, outf, inf) ==
  \/ s = None /\ inf = "EVEN"
  \/ s \in Seq(Cells) /\ Len(s) = n /\ inf = "ODD" /\ outf = "EVEN"
CopiedOf(b, s, p, c) ==
  LET got == SubSeq(IF s = None THEN SubSeq(b, p + 1, p + c.get) ELSE s, 1, c.get)
  IN IF c.put > c.get THEN Append(got, Pad) ELSE SubSeq(got, 1, c.put)
SourceNext(s, c) == IF s = None THEN s ELSE SubSeq(s, c.get + 1, Len(s))
PosNext(s, p, c) == IF s = None THEN p + c.get ELSE p
Rest(b, s, p, n) ==
  IF s = None THEN SubSeq(b, p + 1, p + Even(n)) ELSE s \o (IF n % 2 = 1 THEN <<Pad>> ELSE <<>>)
Stop(s, p, n) == IF s = None THEN p + Even(n) ELSE p

(* How much a chunk reads and writes, against what is to be copied.        *)
LEMMA ByIs ==
  ASSUME NEW n \in Nat, n > 0, NEW outf \in Flags, NEW inf \in Flags
  PROVE  LET c == Chunk(n, outf, inf) IN
         /\ c.get \in Nat /\ c.put \in Nat /\ c.get > 0 /\ c.get <= Even(n)
         /\ inf = "ODD" => c.get <= n /\ LeftOver(n) = n - c.get
         /\ inf = "EVEN" => /\ c.put <= c.get /\ Even(n) = c.get + Even(LeftOver(n))
                            /\ outf = "EVEN" => c.put = c.get
         /\ inf = "ODD" /\ outf = "EVEN" =>
              /\ n % 2 = 1 /\ n < BLK => c.put = c.get + 1
              /\ ~ (n % 2 = 1 /\ n < BLK) => c.put = c.get
<1>1. BLK \in Nat /\ BLK > 0 /\ LeftOver(n) \in Nat
  BY ArAssumption DEF LeftOver
<1>2. Even(n) \in Nat /\ n <= Even(n) /\ Even(n) > 0 /\ (n % 2 = 1 <=> Even(n) = n + 1) /\ Even(n) <= n + 1
  BY EvenIs
<1>3. CASE n >= BLK
  <2>1. Chunk(n, outf, inf) = [get |-> BLK, put |-> BLK] /\ LeftOver(n) = n - BLK
    BY <1>3 DEF Chunk, LeftOver
  <2>2. Even(n) = BLK + Even(n - BLK)
    BY <1>3, EvenIs
  <2> QED
    BY <1>1, <1>2, <1>3, <2>1, <2>2
<1>4. CASE n < BLK
  <2>1. Chunk(n, outf, inf) = [get |-> By(n, inf), put |-> By(n, outf)] /\ LeftOver(n) = 0
    BY <1>1, <1>4 DEF Chunk, LeftOver
  <2>2. Even(0) = 0
    BY DEF Even
  <2> QED
    BY <1>1, <1>2, <1>4, <2>1, <2>2 DEF By, Flags
<1> QED
  BY <1>1, <1>3, <1>4

(* Cells that ar8k writes itself.                                          *)
LEMMA PadType == Pad \in Cells /\ Magic \in Cells /\ Junk \in Cells /\ Heads \subseteq Cells
  BY DEF Pad, Byte, Cells

(* A part of a file.                                                       *)
LEMMA SubSeqType ==
  ASSUME NEW s \in Seq(Cells), NEW i \in Nat, i > 0, NEW j \in Nat, j <= Len(s), i <= j + 1
  PROVE  /\ SubSeq(s, i, j) \in Seq(Cells) /\ Len(SubSeq(s, i, j)) = j - i + 1
         /\ \A x \in 1 .. j - i + 1 : SubSeq(s, i, j)[x] = s[i + x - 1]
<1>1. \A x \in i .. j : s[x] \in Cells
  OBVIOUS
<1> QED
  BY <1>1

(* Two files, one behind the other.                                        *)
LEMMA CatIs ==
  ASSUME NEW s \in Seq(Cells), NEW t \in Seq(Cells)
  PROVE  /\ s \o t \in Seq(Cells) /\ Len(s \o t) = Len(s) + Len(t)
         /\ \A i \in 1 .. Len(s) : (s \o t)[i] = s[i]
         /\ \A i \in Nat : i > Len(s) /\ i <= Len(s) + Len(t) => (s \o t)[i] = t[i - Len(s)]
<1>1. s \o t \in Seq(Cells) /\ Len(s \o t) = Len(s) + Len(t)
  OBVIOUS
<1>2. \A i \in 1 .. Len(s) : (s \o t)[i] = s[i]
  OBVIOUS
<1>3. ASSUME NEW i \in Nat, i > Len(s), i <= Len(s) + Len(t) PROVE (s \o t)[i] = t[i - Len(s)]
  <2>1. i \in 1 .. Len(s) + Len(t) /\ ~ i <= Len(s)
    BY <1>3
  <2> QED
    BY <2>1
<1> QED
  BY <1>1, <1>2, <1>3

(* Files with the same cells are the same.                                 *)
LEMMA SeqsEqual ==
  ASSUME NEW s \in Seq(Cells), NEW t \in Seq(Cells), Len(s) = Len(t), \A i \in 1 .. Len(s) : s[i] = t[i]
  PROVE  s = t
  OBVIOUS

(* Three files, one behind the other.                                      *)
LEMMA CatAssoc ==
  ASSUME NEW r \in Seq(Cells), NEW s \in Seq(Cells), NEW t \in Seq(Cells)
  PROVE  (r \o s) \o t = r \o (s \o t)
<1>1. PICK x, y, u, v : x = r \o s /\ y = s \o t /\ u = x \o t /\ v = r \o y
  OBVIOUS
<1>2. x \in Seq(Cells) /\ y \in Seq(Cells) /\ u \in Seq(Cells) /\ v \in Seq(Cells)
  BY <1>1, CatIs
<1>3. Len(u) = Len(r) + Len(s) + Len(t) /\ Len(v) = Len(u)
  <2>1. Len(x) = Len(r) + Len(s) /\ Len(y) = Len(s) + Len(t) /\ Len(u) = Len(x) + Len(t) /\ Len(v) = Len(r) + Len(y)
    BY <1>1, <1>2, CatIs
  <2> QED
    BY <2>1
<1>4. ASSUME NEW i \in 1 .. Len(u) PROVE u[i] = v[i]
  <2>1. Len(x) = Len(r) + Len(s) /\ Len(y) = Len(s) + Len(t) /\ i \in Nat
    BY <1>1, <1>2, CatIs
  <2>2. CASE i <= Len(r)
    <3>1. u[i] = x[i] /\ x[i] = r[i] /\ v[i] = r[i]
      BY <1>1, <1>2, <2>1, <2>2, CatIs
    <3> QED
      BY <3>1
  <2>3. CASE i > Len(r) /\ i <= Len(r) + Len(s)
    <3>1. PICK j \in Nat : j = i - Len(r)
      BY <2>3
    <3>2. j \in 1 .. Len(s) /\ i \in 1 .. Len(x) /\ i <= Len(r) + Len(y)
      BY <2>1, <2>3, <3>1
    <3>3. u[i] = x[i] /\ x[i] = s[j]
      BY <1>1, <1>2, <2>1, <2>3, <3>1, <3>2, CatIs
    <3>4. v[i] = y[j] /\ y[j] = s[j]
      BY <1>1, <1>2, <2>1, <2>3, <3>1, <3>2, CatIs
    <3> QED
      BY <3>3, <3>4
  <2>4. CASE i > Len(r) + Len(s)
    <3>0. Len(r) \in Nat /\ Len(s) \in Nat
      OBVIOUS
    <3>1. PICK j \in Nat : j = i - Len(r)
      BY <2>1, <2>4, <3>0
    <3>2. /\ j > Len(s) /\ j <= Len(s) + Len(t) /\ i > Len(x) /\ i <= Len(x) + Len(t)
          /\ i > Len(r) /\ i <= Len(r) + Len(y)
      BY <1>3, <2>1, <2>4, <3>1
    <3>3. u[i] = t[i - Len(x)] /\ v[i] = y[j] /\ y[j] = t[j - Len(s)]
      BY <1>1, <1>2, <2>1, <3>1, <3>2, CatIs
    <3>4. i - Len(x) = j - Len(s)
      BY <2>1, <3>1
    <3> QED
      BY <3>3, <3>4
  <2> QED
    BY <2>2, <2>3, <2>4
<1>5. u = v
  BY <1>2, <1>3, <1>4, SeqsEqual
<1> QED
  BY <1>1, <1>5

(* The cells of a file behind the i-th, up to the j-th.                    *)
LEMMA PartIs ==
  ASSUME NEW s \in Seq(Cells), NEW i \in Nat, NEW j \in Nat, i <= j, j <= Len(s), NEW r, r = SubSeq(s, i + 1, j)
  PROVE  r \in Seq(Cells) /\ Len(r) = j - i /\ \A x \in 1 .. j - i : r[x] = s[i + x]
<1>1. PICK k \in Nat : k = i + 1
  OBVIOUS
<1>2. k > 0 /\ k <= j + 1 /\ j - k + 1 = j - i
  BY <1>1
<1>3. /\ SubSeq(s, k, j) \in Seq(Cells) /\ Len(SubSeq(s, k, j)) = j - k + 1
      /\ \A x \in 1 .. j - k + 1 : SubSeq(s, k, j)[x] = s[k + x - 1]
  BY <1>2, SubSeqType
<1>4. \A x \in 1 .. j - i : k + x - 1 = i + x
  BY <1>1
<1>5. r = SubSeq(s, k, j)
  BY <1>1
<1> QED
  BY <1>2, <1>3, <1>4, <1>5

(* A part of a file, in two parts.                                         *)
LEMMA SubSeqSplit ==
  ASSUME NEW s \in Seq(Cells), NEW i \in Nat, NEW j \in Nat, NEW k \in Nat, i <= j, j <= k, k <= Len(s)
  PROVE  SubSeq(s, i + 1, k) = SubSeq(s, i + 1, j) \o SubSeq(s, j + 1, k)
<1>1. PICK w, v, r : w = SubSeq(s, i + 1, j) /\ v = SubSeq(s, j + 1, k) /\ r = SubSeq(s, i + 1, k)
  OBVIOUS
<1>9. i <= k /\ j <= Len(s) /\ j <= k /\ k <= Len(s) /\ j \in Nat /\ k \in Nat
  OBVIOUS
<1>2. w \in Seq(Cells) /\ Len(w) = j - i /\ \A x \in 1 .. j - i : w[x] = s[i + x]
  BY <1>1, <1>9, PartIs
<1>3. v \in Seq(Cells) /\ Len(v) = k - j /\ \A x \in 1 .. k - j : v[x] = s[j + x]
  BY <1>1, <1>9, PartIs
<1>4. r \in Seq(Cells) /\ Len(r) = k - i /\ \A x \in 1 .. k - i : r[x] = s[i + x]
  BY <1>1, <1>9, PartIs
<1>5. PICK u : u = w \o v
  OBVIOUS
<1>6. u \in Seq(Cells) /\ Len(u) = k - i
  <2>1. u \in Seq(Cells) /\ Len(u) = Len(w) + Len(v)
    BY <1>2, <1>3, <1>5, CatIs
  <2> QED
    BY <1>2, <1>3, <2>1
<1>7. ASSUME NEW x \in 1 .. k - i PROVE u[x] = r[x]
  <2>1. CASE x <= j - i
    <3>1. x \in 1 .. j - i /\ x \in 1 .. Len(w)
      BY <1>2, <2>1
    <3>2. u[x] = w[x]
      BY <1>2, <1>3, <1>5, <3>1, CatIs
    <3> QED
      BY <1>2, <1>4, <3>1, <3>2
  <2>2. CASE x > j - i
    <3>1. PICK y \in Nat : y = x - (j - i)
      BY <2>2
    <3>2. y \in 1 .. k - j /\ j + y = i + x /\ x \in Nat /\ x <= Len(w) + Len(v) /\ x > Len(w)
      BY <1>2, <1>3, <2>2, <3>1
    <3>4. u[x] = v[x - Len(w)]
      BY <1>2, <1>3, <1>5, <3>2, CatIs
    <3>5. x - Len(w) = y
      BY <1>2, <3>1
    <3>3. u[x] = v[y]
      BY <3>4, <3>5
    <3> QED
      BY <1>3, <1>4, <3>2, <3>3
  <2> QED
    BY <2>1, <2>2
<1>8. u = r
  BY <1>4, <1>6, <1>7, SeqsEqual
<1> QED
  BY <1>1, <1>5, <1>8

(* A chunk is made of cells, and leaves a source for the chunks that       *)
(* follow.                                                                 *)
LEMMA CopiedType ==
  ASSUME NEW b \in Seq(Cells), NEW s, NEW p \in Nat, NEW n \in Nat, n > 0,
         NEW outf \in Flags, NEW inf \in Flags, Source(s, n, outf, inf),
         s # None \/ p + Chunk(n, outf, inf).get <= Len(b)
  PROVE  LET c == Chunk(n, outf, inf) IN
         /\ CopiedOf(b, s, p, c) \in Seq(Cells)
         /\ Source(SourceNext(s, c), LeftOver(n), outf, inf)
         /\ PosNext(s, p, c) \in Nat
<1>1. PICK c : c = Chunk(n, outf, inf)
  OBVIOUS
<1>2. c.get \in Nat /\ c.put \in Nat /\ c.get > 0
  BY <1>1, ByIs
<1>3. CASE s = None
  <2>1. inf = "EVEN"
    <3>1. None \notin Seq(Cells)
      BY ArAssumption
    <3> QED
      BY <1>3, <3>1 DEF Source
  <2>2. c.put <= c.get
    BY <1>1, <2>1, ByIs
  <2>3. PICK w : w = SubSeq(b, p + 1, p + c.get)
    OBVIOUS
  <2>4. w \in Seq(Cells) /\ Len(w) = c.get
    <3>1. PICK g, q : g = c.get /\ q = p + g
      OBVIOUS
    <3>2. g \in Nat /\ q = p + g /\ q <= Len(b)
      BY <1>1, <1>2, <1>3, <3>1
    <3>3. /\ p + 1 \in Nat /\ p + 1 > 0 /\ q \in Nat /\ q <= Len(b) /\ p + 1 <= q + 1
          /\ q - (p + 1) + 1 = g
      BY <3>2
    <3>4. SubSeq(b, p + 1, q) \in Seq(Cells) /\ Len(SubSeq(b, p + 1, q)) = q - (p + 1) + 1
      BY <3>3, SubSeqType
    <3> QED
      BY <2>3, <3>1, <3>3, <3>4
  <2>5. PICK g : g = SubSeq(w, 1, c.get)
    OBVIOUS
  <2>6. g \in Seq(Cells) /\ Len(g) = c.get
    BY <1>2, <2>4, <2>5, SubSeqType
  <2>7. SubSeq(g, 1, c.put) \in Seq(Cells)
    BY <1>2, <2>2, <2>6, SubSeqType, SMTT(30)
  <2>8. CopiedOf(b, s, p, c) = SubSeq(g, 1, c.put)
    BY <1>2, <1>3, <2>2, <2>3, <2>5 DEF CopiedOf
  <2>9. SourceNext(s, c) = None /\ PosNext(s, p, c) = p + c.get
    BY <1>3 DEF SourceNext, PosNext
  <2>10. Source(SourceNext(s, c), LeftOver(n), outf, inf)
    BY <2>1, <2>9 DEF Source
  <2> QED
    BY <1>1, <1>2, <2>7, <2>8, <2>9, <2>10
<1>4. CASE s # None
  <2>1. s \in Seq(Cells) /\ Len(s) = n /\ inf = "ODD" /\ outf = "EVEN"
    BY <1>4 DEF Source
  <2>2. c.get <= n /\ LeftOver(n) = n - c.get /\ (c.put = c.get + 1 \/ c.put = c.get)
    BY <1>1, <2>1, ByIs
  <2>3. PICK g : g = SubSeq(s, 1, c.get)
    OBVIOUS
  <2>4. g \in Seq(Cells) /\ Len(g) = c.get
    BY <1>2, <2>1, <2>2, <2>3, SubSeqType
  <2>5. Append(g, Pad) \in Seq(Cells)
    BY <2>4, PadType
  <2>6. c.put = c.get => SubSeq(g, 1, c.put) \in Seq(Cells)
    BY <1>2, <2>4, SubSeqType
  <2>7. CopiedOf(b, s, p, c) = IF c.put > c.get THEN Append(g, Pad) ELSE SubSeq(g, 1, c.put)
    BY <1>4, <2>3 DEF CopiedOf
  <2>8. CopiedOf(b, s, p, c) \in Seq(Cells)
    BY <1>2, <2>2, <2>5, <2>6, <2>7
  <2>9. SourceNext(s, c) = SubSeq(s, c.get + 1, n) /\ PosNext(s, p, c) = p
    BY <1>4, <2>1 DEF SourceNext, PosNext
  <2>10. SubSeq(s, c.get + 1, n) \in Seq(Cells) /\ Len(SubSeq(s, c.get + 1, n)) = LeftOver(n)
    <3>1. c.get + 1 \in Nat /\ c.get + 1 > 0 /\ n <= Len(s) /\ c.get + 1 <= n + 1
      BY <1>2, <2>1, <2>2
    <3> QED
      BY <1>2, <2>1, <2>2, <3>1, SubSeqType
  <2>11. Source(SourceNext(s, c), LeftOver(n), outf, inf)
    BY <2>1, <2>9, <2>10 DEF Source
  <2> QED
    BY <1>1, <2>8, <2>9, <2>11
<1> QED
  BY <1>3, <1>4

(* What is written and what is then to be copied is what was to be copied. *)
LEMMA CopiedRest ==
  ASSUME NEW b \in Seq(Cells), NEW s, NEW p \in Nat, NEW n \in Nat, n > 0,
         NEW inf \in Flags, Source(s, n, "EVEN", inf), s # None \/ p + Even(n) <= Len(b)
  PROVE  LET c == Chunk(n, "EVEN", inf) IN
         /\ s # None \/ p + c.get <= Len(b)
         /\ Rest(b, s, p, n)
              = CopiedOf(b, s, p, c) \o Rest(b, SourceNext(s, c), PosNext(s, p, c), LeftOver(n))
         /\ Stop(SourceNext(s, c), PosNext(s, p, c), LeftOver(n)) = Stop(s, p, n)
<1>1. PICK c : c = Chunk(n, "EVEN", inf)
  OBVIOUS
<1>2. "EVEN" \in Flags /\ None \notin Seq(Cells) /\ LeftOver(n) \in Nat
  BY ArAssumption DEF Flags, LeftOver
<1>3. c.get \in Nat /\ c.put \in Nat /\ c.get > 0 /\ c.get <= Even(n) /\ Even(n) \in Nat
  BY <1>1, <1>2, ByIs, EvenIs
<1>4. CASE s = None
  <2>1. inf = "EVEN"
    BY <1>2, <1>4 DEF Source
  <2>2. c.put = c.get /\ Even(n) = c.get + Even(LeftOver(n)) /\ Even(LeftOver(n)) \in Nat
    BY <1>1, <1>2, <2>1, ByIs, EvenIs
  <2>3. PICK e, w, v, r : /\ e = p + Even(n) /\ w = SubSeq(b, p + 1, p + c.get)
                          /\ v = SubSeq(b, p + c.get + 1, e) /\ r = SubSeq(b, p + 1, e)
    OBVIOUS
  <2>4. e \in Nat /\ e <= Len(b) /\ p + c.get <= e /\ e = p + c.get + Even(LeftOver(n))
    <3>1. PICK g, h, i : g = c.get /\ h = Even(LeftOver(n)) /\ i = Even(n)
      OBVIOUS
    <3>2. g \in Nat /\ h \in Nat /\ i \in Nat /\ i = g + h
      BY <1>3, <2>2, <3>1
    <3>3. p + i <= Len(b) /\ e = p + i
      BY <1>4, <2>3, <3>1
    <3>4. e \in Nat /\ e <= Len(b) /\ p + g <= e /\ e = p + g + h
      BY <3>2, <3>3
    <3> QED
      BY <3>1, <3>4
  <2>5. w \in Seq(Cells) /\ Len(w) = c.get
    <3>1. PICK g, q : g = c.get /\ q = p + g
      OBVIOUS
    <3>0. Len(b) \in Nat /\ g \in Nat /\ q = p + g /\ q <= e /\ e \in Nat /\ e <= Len(b)
      BY <1>3, <2>4, <3>1
    <3>2. /\ p + 1 \in Nat /\ p + 1 > 0 /\ q \in Nat /\ q <= Len(b) /\ p + 1 <= q + 1
          /\ q - (p + 1) + 1 = g
      BY <3>0
    <3>3. w = SubSeq(b, p + 1, q)
      BY <2>3, <3>1
    <3>4. w \in Seq(Cells) /\ Len(w) = q - (p + 1) + 1
      BY <3>2, <3>3, SubSeqType
    <3> QED
      BY <3>1, <3>2, <3>4
  <2>8. r = w \o v
    <3>1. PICK q : q = p + c.get
      OBVIOUS
    <3>2. q \in Nat /\ p <= q /\ q <= e /\ e <= Len(b) /\ e \in Nat
      BY <1>3, <2>4, <3>1
    <3>3. SubSeq(b, p + 1, e) = SubSeq(b, p + 1, q) \o SubSeq(b, q + 1, e)
      BY <3>2, SubSeqSplit
    <3> QED
      BY <2>3, <3>1, <3>3
  <2>9. CopiedOf(b, s, p, c) = w
    <3>1. SubSeq(w, 1, c.get) = w
      BY <1>3, <2>5
    <3>2. CopiedOf(b, s, p, c) = SubSeq(SubSeq(w, 1, c.get), 1, c.put)
      <4>1. ~ c.put > c.get
        BY <1>3, <2>2
      <4> QED
        BY <1>4, <2>3, <4>1 DEF CopiedOf
    <3> QED
      BY <2>2, <3>1, <3>2
  <2>10. SourceNext(s, c) = None /\ PosNext(s, p, c) = p + c.get
    BY <1>4 DEF SourceNext, PosNext
  <2>11. Rest(b, s, p, n) = r /\ Rest(b, None, p + c.get, LeftOver(n)) = v
    BY <1>3, <1>4, <2>3, <2>4 DEF Rest
  <2>12. Stop(s, p, n) = e /\ Stop(None, p + c.get, LeftOver(n)) = e
    BY <1>4, <2>3, <2>4 DEF Stop
  <2>13. p + c.get <= Len(b)
    BY <1>3, <2>4
  <2> QED
    BY <1>1, <2>8, <2>9, <2>10, <2>11, <2>12, <2>13
<1>5. CASE s # None
  <2>1. s \in Seq(Cells) /\ Len(s) = n /\ inf = "ODD"
    BY <1>5 DEF Source
  <2>2. /\ c.get <= n /\ LeftOver(n) = n - c.get
        /\ n % 2 = 1 /\ n < BLK => c.put = c.get + 1
        /\ ~ (n % 2 = 1 /\ n < BLK) => c.put = c.get
    BY <1>1, <1>2, <2>1, ByIs
  <2>3. PICK g, t : g = SubSeq(s, 1, c.get) /\ t = SubSeq(s, c.get + 1, n)
    OBVIOUS
  <2>4. g \in Seq(Cells) /\ Len(g) = c.get /\ t \in Seq(Cells) /\ Len(t) = n - c.get /\ s = g \o t
    <3>1. g \in Seq(Cells) /\ Len(g) = c.get
      BY <1>3, <2>1, <2>2, <2>3, SubSeqType
    <3>2. t \in Seq(Cells) /\ Len(t) = n - c.get
      <4>1. c.get + 1 \in Nat /\ c.get + 1 > 0 /\ n <= Len(s) /\ c.get + 1 <= n + 1 /\ n - (c.get + 1) + 1 = n - c.get
        BY <1>3, <2>1, <2>2
      <4> QED
        BY <2>1, <2>3, <4>1, SubSeqType
    <3>3. SubSeq(s, 0 + 1, n) = SubSeq(s, 0 + 1, c.get) \o SubSeq(s, c.get + 1, n)
      <4>1. PICK z, k : z = 0 /\ k = c.get
        OBVIOUS
      <4>2. z \in Nat /\ k \in Nat /\ z <= k /\ k <= n /\ n <= Len(s)
        BY <1>3, <2>1, <2>2, <4>1
      <4>3. SubSeq(s, z + 1, n) = SubSeq(s, z + 1, k) \o SubSeq(s, k + 1, n)
        BY <2>1, <4>2, SubSeqSplit
      <4> QED
        BY <4>1, <4>3
    <3>4. SubSeq(s, 0 + 1, n) = s /\ 0 + 1 = 1
      BY <2>1
    <3> QED
      BY <2>3, <3>1, <3>2, <3>3, <3>4
  <2>5. SourceNext(s, c) = t /\ PosNext(s, p, c) = p /\ t # None
    BY <1>2, <1>5, <2>1, <2>3, <2>4 DEF SourceNext, PosNext
  <2>6. CopiedOf(b, s, p, c) = IF c.put > c.get THEN Append(g, Pad) ELSE SubSeq(g, 1, c.put)
    BY <1>5, <2>3 DEF CopiedOf
  <2>7. PICK m : m = LeftOver(n)
    OBVIOUS
  <2>8. /\ Rest(b, s, p, n) = s \o (IF n % 2 = 1 THEN <<Pad>> ELSE <<>>)
        /\ Rest(b, t, p, m) = t \o (IF m % 2 = 1 THEN <<Pad>> ELSE <<>>)
    BY <1>5, <2>5 DEF Rest
  <2>9. CASE n >= BLK
    <3>1. n % 2 = m % 2 /\ c.put = c.get
      <4>1. m = n - BLK
        BY <2>7, <2>9 DEF LeftOver
      <4> QED
        BY <2>2, <2>9, <4>1, EvenIs, ArAssumption
    <3>2. CopiedOf(b, s, p, c) = g
      BY <1>3, <2>4, <2>6, <3>1
    <3>3. PICK z : z = (IF n % 2 = 1 THEN <<Pad>> ELSE <<>>)
      OBVIOUS
    <3>4. z \in Seq(Cells)
      BY <3>3, PadType
    <3>5. (g \o t) \o z = g \o (t \o z)
      BY <2>4, <3>4, CatAssoc, Zenon
    <3>6. Rest(b, s, p, n) = g \o Rest(b, t, p, m)
      BY <2>4, <2>8, <3>1, <3>3, <3>5
    <3> QED
      BY <1>1, <1>5, <2>5, <2>7, <3>2, <3>6 DEF Stop
  <2>10. CASE n < BLK
    <3>1. m = 0 /\ c.get = n /\ n \in Nat /\ m % 2 = 0
      BY <1>3, <2>2, <2>7, <2>10, ArAssumption DEF LeftOver
    <3>2. t = <<>> /\ g = s
      BY <2>1, <2>3, <2>4, <3>1
    <3>3. Rest(b, t, p, m) = <<>>
      BY <2>8, <3>1, <3>2
    <3>4. CASE n % 2 = 1
      <4>1. CopiedOf(b, s, p, c) = Append(s, Pad)
        BY <1>3, <2>2, <2>6, <2>10, <3>2, <3>4
      <4>2. Append(s, Pad) = s \o <<Pad>> /\ Append(s, Pad) \o <<>> = Append(s, Pad)
        BY <2>1, PadType
      <4> QED
        BY <1>1, <1>5, <2>5, <2>7, <2>8, <3>3, <3>4, <4>1, <4>2 DEF Stop
    <3>5. CASE n % 2 # 1
      <4>1. CopiedOf(b, s, p, c) = s
        BY <1>3, <2>1, <2>2, <2>6, <2>10, <3>1, <3>2, <3>5
      <4>2. s \o <<>> = s
        BY <2>1
      <4> QED
        BY <1>1, <1>5, <2>5, <2>7, <2>8, <3>3, <3>5, <4>1, <4>2 DEF Stop
    <3> QED
      BY <3>4, <3>5
  <2> QED
    BY <2>9, <2>10, ArAssumption
<1> QED
  BY <1>4, <1>5

-----------------------------------------------------------------------------
(* Archive and temporary file, one member further.                         *)

(* The beginning of a file.                                                *)
LEMMA PrefixIs ==
  ASSUME NEW b \in Seq(Cells), NEW p \in Nat, p <= Len(b)
  PROVE  /\ SubSeq(b, 1, p) \in Seq(Cells) /\ Len(SubSeq(b, 1, p)) = p
         /\ \A i \in 1 .. p : SubSeq(b, 1, p)[i] = b[i]
         /\ Begins(SubSeq(b, 1, p), b)
<1>1. PICK a : a = SubSeq(b, 1, p)
  OBVIOUS
<1>2. a \in Seq(Cells) /\ Len(a) = p
  BY <1>1
<1>3. \A i \in 1 .. p : a[i] = b[i]
  BY <1>1
<1>4. Begins(a, b)
  BY <1>2, <1>3 DEF Begins
<1> QED
  BY <1>1, <1>2, <1>3, <1>4

(* A longer beginning begins with a shorter one.                           *)
LEMMA PrefixGrows ==
  ASSUME NEW b \in Seq(Cells), NEW p \in Nat, NEW q \in Nat, p <= q, q <= Len(b)
  PROVE  Begins(SubSeq(b, 1, p), SubSeq(b, 1, q))
<1>1. p <= Len(b) /\ \A i \in 1 .. p : i \in 1 .. q
  OBVIOUS
<1>2. /\ Len(SubSeq(b, 1, p)) = p /\ \A i \in 1 .. p : SubSeq(b, 1, p)[i] = b[i]
      /\ Len(SubSeq(b, 1, q)) = q /\ \A i \in 1 .. q : SubSeq(b, 1, q)[i] = b[i]
  BY <1>1, PrefixIs
<1> QED
  BY <1>1, <1>2 DEF Begins

(* A file that is appended to begins with what it was.                     *)
LEMMA CatBegins ==
  ASSUME NEW a \in Seq(Cells), NEW x \in Seq(Cells)
  PROVE  a \o x \in Seq(Cells) /\ Begins(a, a \o x)
  BY CatIs DEF Begins

(* The archive, read one member further.                                   *)
Behind(b, p) == p + 1 + Even(b[p + 1].size)

(* The archive, read one member further, has that member more.             *)
LEMMA SourceNextMember ==
  ASSUME NEW b \in Seq(Cells), NEW p \in 1 .. Len(b), Whole(SubSeq(b, 1, p)), Complete(b, p + 1)
  PROVE  /\ Behind(b, p) \in 1 .. Len(b) /\ Whole(SubSeq(b, 1, Behind(b, p)))
         /\ Members(SubSeq(b, 1, Behind(b, p))) = Append(Members(SubSeq(b, 1, p)), MemberAt(b, p + 1))
         /\ MemberAt(b, p + 1) \in Mems /\ b[p + 1] \in Heads
<1>1. PICK h : h = p + 1
  OBVIOUS
<1>2. h \in Nat /\ h >= 1 /\ Complete(b, h)
  BY <1>1
<1>3. /\ b[h] \in Heads /\ MemberAt(b, h) \in Mems /\ Even(b[h].size) \in Nat
      /\ h <= Len(b) /\ h + Even(b[h].size) <= Len(b) /\ Even(b[h].size) >= b[h].size
  BY <1>2, CompleteType
<1>4. PICK q : q = h + Even(b[h].size)
  OBVIOUS
<1>5. q \in Nat /\ q <= Len(b) /\ p <= q /\ p \in Nat /\ q >= h /\ q >= 1
  BY <1>1, <1>2, <1>3, <1>4
<1>6. PICK a, c : a = SubSeq(b, 1, p) /\ c = SubSeq(b, 1, q)
  OBVIOUS
<1>7. /\ a \in Seq(Cells) /\ Len(a) = p /\ c \in Seq(Cells) /\ Len(c) = q
      /\ \A i \in 1 .. q : c[i] = b[i]
      /\ Begins(a, c) /\ Begins(c, b)
  BY <1>5, <1>6, PrefixIs, PrefixGrows
<1>8. c[h] = b[h]
  BY <1>2, <1>5, <1>7
<1>9. Complete(c, h)
  <2>1. c[h].t = "head"
    BY <1>2, <1>8 DEF Complete
  <2> QED
    BY <1>4, <1>5, <1>7, <1>8, <2>1 DEF Complete
<1>10. MemberAt(c, h) = MemberAt(b, h)
  BY <1>2, <1>7, <1>9, CompleteLonger
<1>11. Whole(a) /\ h = Len(a) + 1 /\ Len(c) = Len(a) + 1 + Even(c[h].size)
  <2>1. h = Len(a) + 1
    BY <1>1, <1>7
  <2>2. Len(c) = h + Even(c[h].size)
    BY <1>4, <1>7, <1>8
  <2> QED
    BY <1>6, <2>1, <2>2
<1>12. Whole(c) /\ Members(c) = Append(Members(a), MemberAt(c, h))
  BY <1>7, <1>9, <1>11, WholeAndMember
<1>13. Behind(b, p) = q
  BY <1>1, <1>4 DEF Behind
<1>14. q \in 1 .. Len(b)
  BY <1>5
<1> QED
  BY <1>1, <1>3, <1>6, <1>10, <1>12, <1>13, <1>14

(* At its end its members are those read so far.                           *)
LEMMA SourceEnd ==
  ASSUME NEW b \in Seq(Cells), NEW p \in 1 .. Len(b), Whole(SubSeq(b, 1, p)), ~ Complete(b, p + 1)
  PROVE  Members(b) = Members(SubSeq(b, 1, p))
<1>1. PICK a : a = SubSeq(b, 1, p)
  OBVIOUS
<1>2. p \in Nat /\ p <= Len(b)
  OBVIOUS
<1>3. Whole(a) /\ Begins(a, b) /\ Len(a) = p
  BY <1>1, <1>2, PrefixIs
<1>4. ~ Complete(b, Len(a) + 1)
  BY <1>3
<1>5. Members(b) = Members(a)
  BY <1>3, <1>4, WholeAndRest
<1> QED
  BY <1>1, <1>5

(* The temporary file with one member more.                                *)
LEMMA TargetNextMember ==
  ASSUME NEW a, Whole(a), NEW h \in Heads, NEW d \in Seq(Cells), Len(d) = Even(h.size)
  PROVE  /\ Whole((a \o <<h>>) \o d)
         /\ Members((a \o <<h>>) \o d) = Append(Members(a), [name |-> h.name, data |-> SubSeq(d, 1, h.size)])
<1>1. PICK n : n = h.size
  OBVIOUS
<1>2. n \in Nat /\ Even(n) \in Nat /\ n <= Even(n) /\ Len(d) = Even(n) /\ h.t = "head" /\ h \in Cells
  <2>1. n \in Nat /\ h.t = "head" /\ h \in Cells
    BY <1>1, PadType DEF Heads
  <2> QED
    BY <1>1, <2>1, EvenIs
<1>3. PICK c, b, p : c = a \o <<h>> /\ b = c \o d /\ p = Len(a) + 1
  OBVIOUS
<1>4. a \in Seq(Cells) /\ <<h>> \in Seq(Cells)
  BY <1>2 DEF Whole
<1>5. c \in Seq(Cells) /\ Len(c) = p /\ c[p] = h /\ Begins(a, c) /\ p \in Nat /\ p >= 1 /\ Len(a) \in Nat
  <2>1. c \in Seq(Cells) /\ Begins(a, c)
    BY <1>3, <1>4, CatBegins
  <2>2. c = Append(a, h)
    BY <1>3, <1>4
  <2> QED
    BY <1>2, <1>3, <1>4, <2>1, <2>2
<1>6. b \in Seq(Cells) /\ Begins(c, b) /\ Len(b) = p + Even(n)
  <2>1. b \in Seq(Cells) /\ Begins(c, b)
    BY <1>3, <1>5, CatBegins
  <2>2. Len(b) = Len(c) + Len(d)
    BY <1>3, <1>5, CatIs
  <2> QED
    BY <1>2, <1>5, <2>1, <2>2
<1>7. b[p] = h
  BY <1>5, <1>6 DEF Begins
<1>8. Begins(a, b)
  BY <1>3, <1>5, <1>6 DEF Begins
<1>9. Complete(b, p)
  BY <1>1, <1>2, <1>5, <1>6, <1>7 DEF Complete
<1>10. Whole(b) /\ Members(b) = Append(Members(a), MemberAt(b, p))
  <2>1. Len(b) = Len(a) + 1 + Even(b[p].size)
    BY <1>1, <1>3, <1>6, <1>7
  <2> QED
    BY <1>3, <1>6, <1>8, <1>9, <2>1, WholeAndMember
<1>11. SubSeq(b, p + 1, p + n) = SubSeq(d, 1, n)
  <2>1. PICK u, v : u = SubSeq(b, p + 1, p + n) /\ v = SubSeq(d, 1, n)
    OBVIOUS
  <2>2. v \in Seq(Cells) /\ Len(v) = n /\ \A i \in 1 .. n : v[i] = d[i]
    BY <1>2, <2>1, PrefixIs
  <2>3. u \in Seq(Cells) /\ Len(u) = n /\ \A i \in 1 .. n : u[i] = b[p + i]
    <3>1. PICK j : j = p + n
      OBVIOUS
    <3>2. p + 1 \in Nat /\ p + 1 > 0 /\ j \in Nat /\ j <= Len(b) /\ p + 1 <= j + 1
          /\ j - (p + 1) + 1 = n
      BY <1>2, <1>5, <1>6, <3>1
    <3>3. \A i \in 1 .. n : p + 1 + i - 1 = p + i
      BY <1>2, <1>5
    <3>4. /\ SubSeq(b, p + 1, j) \in Seq(Cells) /\ Len(SubSeq(b, p + 1, j)) = j - (p + 1) + 1
          /\ \A x \in 1 .. j - (p + 1) + 1 : SubSeq(b, p + 1, j)[x] = b[p + 1 + x - 1]
      BY <1>6, <3>2, SubSeqType
    <3> QED
      BY <2>1, <3>1, <3>2, <3>3, <3>4
  <2>4. \A i \in 1 .. n : b[p + i] = d[i]
    <3> TAKE i \in 1 .. n
    <3>1. p + i \in Nat /\ p + i > Len(c) /\ p + i <= Len(c) + Len(d) /\ p + i - Len(c) = i
      BY <1>2, <1>5
    <3> QED
      BY <1>3, <1>5, <3>1, CatIs
  <2>5. u = v
    BY <2>2, <2>3, <2>4, SeqsEqual
  <2> QED
    BY <2>1, <2>5
<1>12. MemberAt(b, p) = [name |-> h.name, data |-> SubSeq(d, 1, h.size)]
  BY <1>1, <1>7, <1>11 DEF MemberAt
<1> QED
  BY <1>3, <1>10, <1>12

-----------------------------------------------------------------------------
(* The archive up to p and the temporary file have the same members, those *)
(* left out that d deletes, those that r replaces in their new form.       *)

(* The file a has what it should have of the archive up to p.              *)
InStepAt(k, l, o, a, p) ==
  /\ Whole(a) /\ p \in 1 .. Len(o.archive) /\ Whole(SubSeq(o.archive, 1, p))
  /\ Matched(k, l, o, Members(SubSeq(o.archive, 1, p)), Members(a))
Holds(k, l, o, a) == Covers(k, l, o, Members(o.archive), Members(a))

(* A file that reads to its end, and its members.                          *)
LEMMA WholeType == ASSUME NEW a, Whole(a) PROVE a \in Seq(Cells) /\ Members(a) \in Seq(Mems)
  BY MembersType DEF Whole

(* They are in step behind the magic words.                                *)
LEMMA InStepBegins ==
  ASSUME NEW k, NEW l, NEW o, o.archive \in Seq(Cells), o.archive # <<>>
  PROVE  InStepAt(k, l, o, <<Magic>>, 1)
<1>1. PICK b : b = o.archive
  OBVIOUS
<1>2. PICK c : c = SubSeq(b, 1, 1)
  OBVIOUS
<1>3. 1 \in 1 .. Len(b) /\ b \in Seq(Cells)
  BY <1>1
<1>4. c \in Seq(Cells) /\ Len(c) = 1 /\ c # <<>>
  BY <1>2, <1>3
<1>5. Members(c) = <<>> /\ Whole(c)
  <2>1. Len(c) <= 1
    BY <1>4
  <2> QED
    BY <1>4, <2>1, MembersNone
<1>6. PICK m : m = <<Magic>>
  OBVIOUS
<1>7. m \in Seq(Cells) /\ Len(m) = 1 /\ m # <<>>
  BY <1>6, PadType
<1>8. Members(m) = <<>> /\ Whole(m)
  <2>1. Len(m) <= 1
    BY <1>7
  <2> QED
    BY <1>7, <2>1, MembersNone
<1>9. Matched(k, l, o, <<>>, <<>>)
  BY MatchedNone
<1> QED
  BY <1>1, <1>2, <1>3, <1>5, <1>6, <1>8, <1>9 DEF InStepAt

(* At the end of the archive the file has what it should have.             *)
LEMMA InStepEnds ==
  ASSUME NEW k, NEW l, NEW o, o.archive \in Seq(Cells), NEW a, NEW p, InStepAt(k, l, o, a, p),
         ~ Complete(o.archive, p + 1)
  PROVE  Holds(k, l, o, a)
<1>1. PICK b : b = o.archive
  OBVIOUS
<1>2. b \in Seq(Cells) /\ p \in 1 .. Len(b) /\ Whole(SubSeq(b, 1, p)) /\ ~ Complete(b, p + 1)
  BY <1>1 DEF InStepAt
<1>3. Members(b) = Members(SubSeq(b, 1, p))
  BY <1>2, SourceEnd
<1> QED
  BY <1>1, <1>3 DEF InStepAt, Matched, Holds

(* A member is passed over that d deletes.                                 *)
LEMMA InStepDrop ==
  ASSUME NEW k, NEW l, NEW o, o.archive \in Seq(Cells), NEW a, NEW p, InStepAt(k, l, o, a, p),
         Complete(o.archive, p + 1), Dropped(k, l, MemberAt(o.archive, p + 1))
  PROVE  InStepAt(k, l, o, a, Behind(o.archive, p))
<1>1. PICK b, q : b = o.archive /\ q = Behind(b, p)
  OBVIOUS
<1>2. b \in Seq(Cells) /\ p \in 1 .. Len(b) /\ Whole(SubSeq(b, 1, p)) /\ Complete(b, p + 1)
  BY <1>1 DEF InStepAt
<1>3. PICK m, was, is : m = MemberAt(b, p + 1) /\ was = Members(SubSeq(b, 1, p)) /\ is = Members(a)
  OBVIOUS
<1>4. /\ q \in 1 .. Len(b) /\ Whole(SubSeq(b, 1, q)) /\ m \in Mems
      /\ Members(SubSeq(b, 1, q)) = Append(was, m)
  BY <1>1, <1>2, <1>3, SourceNextMember
<1>5. was \in Seq(Mems) /\ is \in Seq(Mems) /\ Matched(k, l, o, was, is) /\ Whole(a)
  BY <1>1, <1>2, <1>3, WholeType DEF InStepAt
<1>6. Dropped(k, l, m)
  BY <1>1, <1>3
<1>7. Matched(k, l, o, Append(was, m), is)
  BY <1>4, <1>5, <1>6, MatchedDrop
<1> QED
  BY <1>1, <1>3, <1>4, <1>5, <1>7 DEF InStepAt

(* A member goes into the file: the archive's own, or the one for it.      *)
LEMMA InStepPut ==
  ASSUME NEW k, NEW l, NEW o, o.archive \in Seq(Cells), NEW a, NEW p, InStepAt(k, l, o, a, p),
         Complete(o.archive, p + 1), NEW h \in Heads, NEW d \in Seq(Cells), Len(d) = Even(h.size),
         StandsIn(k, l, o, [name |-> h.name, data |-> SubSeq(d, 1, h.size)], MemberAt(o.archive, p + 1))
  PROVE  InStepAt(k, l, o, (a \o <<h>>) \o d, Behind(o.archive, p))
<1>1. PICK b, q : b = o.archive /\ q = Behind(b, p)
  OBVIOUS
<1>2. b \in Seq(Cells) /\ p \in 1 .. Len(b) /\ Whole(SubSeq(b, 1, p)) /\ Complete(b, p + 1)
  BY <1>1 DEF InStepAt
<1>3. PICK m, was, is : m = MemberAt(b, p + 1) /\ was = Members(SubSeq(b, 1, p)) /\ is = Members(a)
  OBVIOUS
<1>4. /\ q \in 1 .. Len(b) /\ Whole(SubSeq(b, 1, q)) /\ m \in Mems
      /\ Members(SubSeq(b, 1, q)) = Append(was, m)
  BY <1>1, <1>2, <1>3, SourceNextMember
<1>5. was \in Seq(Mems) /\ is \in Seq(Mems) /\ Matched(k, l, o, was, is) /\ Whole(a)
  BY <1>1, <1>2, <1>3, WholeType DEF InStepAt
<1>6. PICK n : n = [name |-> h.name, data |-> SubSeq(d, 1, h.size)]
  OBVIOUS
<1>7. n \in Mems
  <2>1. h.size \in Nat /\ h.name \in Paths
    BY DEF Heads
  <2>2. h.size <= Len(d)
    BY <2>1, EvenIs
  <2>3. SubSeq(d, 1, h.size) \in Seq(Cells)
    BY <2>1, <2>2, PrefixIs
  <2> QED
    BY <1>6, <2>1, <2>3 DEF Mems
<1>8. PICK c : c = (a \o <<h>>) \o d
  OBVIOUS
<1>9. Whole(c) /\ Members(c) = Append(is, n)
  BY <1>3, <1>5, <1>6, <1>8, TargetNextMember
<1>10. StandsIn(k, l, o, n, m)
  BY <1>1, <1>3, <1>6
<1>11. Matched(k, l, o, Append(was, m), Append(is, n))
  BY <1>4, <1>5, <1>7, <1>10, MatchedNext
<1> QED
  BY <1>1, <1>4, <1>8, <1>9, <1>11 DEF InStepAt

CellsOf(b, p) == SubSeq(b, p + 2, Behind(b, p))
CellsIn(b, p, h) == Behind(b, p) = p + 1 + Even(h.size) /\ Behind(b, p) <= Len(b)

(* A member is passed on, with its padding.                                *)
LEMMA InStepCopy ==
  ASSUME NEW k, NEW l, NEW o, o.archive \in Seq(Cells), NEW a, NEW p, InStepAt(k, l, o, a, p),
         Complete(o.archive, p + 1), NEW h, h = o.archive[p + 1]
  PROVE  /\ InStepAt(k, l, o, (a \o <<h>>) \o CellsOf(o.archive, p), Behind(o.archive, p))
         /\ CellsIn(o.archive, p, h)
<1>1. PICK b, q, n : b = o.archive /\ q = Behind(b, p) /\ n = h.size
  OBVIOUS
<1>2. b \in Seq(Cells) /\ p \in 1 .. Len(b) /\ Whole(SubSeq(b, 1, p)) /\ Complete(b, p + 1)
  BY <1>1 DEF InStepAt
<1>3. q \in 1 .. Len(b) /\ h \in Heads
  BY <1>1, <1>2, SourceNextMember
<1>4. n \in Nat /\ Even(n) \in Nat /\ n <= Even(n)
  <2>1. n \in Nat
    BY <1>1, <1>3 DEF Heads
  <2> QED
    BY <2>1, EvenIs
<1>5. q = p + 1 + Even(n)
  BY <1>1 DEF Behind
<1>6. PICK d : d = SubSeq(b, p + 2, q)
  OBVIOUS
<1>7. d \in Seq(Cells) /\ Len(d) = Even(n) /\ \A i \in 1 .. Even(n) : d[i] = b[p + 1 + i]
  <2>1. p + 2 \in Nat /\ p + 2 > 0 /\ q \in Nat /\ q <= Len(b) /\ p + 2 <= q + 1 /\ q - (p + 2) + 1 = Even(n)
    <3>1. Len(b) \in Nat /\ p \in Nat /\ q \in Nat /\ q <= Len(b)
      BY <1>2, <1>3
    <3>2. PICK e \in Nat : e = Even(n)
      BY <1>4
    <3>3. q = p + 1 + e
      BY <1>5, <3>2
    <3> QED
      BY <3>1, <3>2, <3>3
  <2>2. \A i \in 1 .. Even(n) : p + 2 + i - 1 = p + 1 + i
    BY <1>2, <1>4
  <2>3. /\ SubSeq(b, p + 2, q) \in Seq(Cells) /\ Len(SubSeq(b, p + 2, q)) = q - (p + 2) + 1
        /\ \A x \in 1 .. q - (p + 2) + 1 : SubSeq(b, p + 2, q)[x] = b[p + 2 + x - 1]
    BY <1>2, <2>1, SubSeqType
  <2> QED
    BY <1>6, <2>1, <2>2, <2>3
<1>8. SubSeq(d, 1, n) = SubSeq(b, p + 2, p + 1 + n)
  <2>1. PICK u, v, j : u = SubSeq(d, 1, n) /\ v = SubSeq(b, p + 2, j) /\ j = p + 1 + n
    OBVIOUS
  <2>2. u \in Seq(Cells) /\ Len(u) = n /\ \A i \in 1 .. n : u[i] = d[i]
    BY <1>4, <1>7, <2>1, PrefixIs
  <2>3. v \in Seq(Cells) /\ Len(v) = n /\ \A i \in 1 .. n : v[i] = b[p + 1 + i]
    <3>0. q <= Len(b) /\ Len(b) \in Nat /\ p \in Nat /\ j = p + 1 + n /\ j <= q /\ q \in Nat
      <4>1. Len(b) \in Nat /\ p \in Nat /\ q \in Nat /\ q <= Len(b)
        BY <1>2, <1>3
      <4>2. PICK e \in Nat : e = Even(n)
        BY <1>4
      <4>3. j = p + 1 + n /\ q = p + 1 + e /\ n <= e /\ n \in Nat
        BY <1>4, <1>5, <2>1, <4>2
      <4>4. j <= q
        BY <4>1, <4>2, <4>3
      <4> QED
        BY <4>1, <4>3, <4>4
    <3>1. p + 2 \in Nat /\ p + 2 > 0 /\ j \in Nat /\ j <= Len(b) /\ p + 2 <= j + 1 /\ j - (p + 2) + 1 = n
      BY <1>4, <3>0
    <3>2. \A i \in 1 .. n : p + 2 + i - 1 = p + 1 + i
      BY <1>2, <1>4
    <3>3. /\ SubSeq(b, p + 2, j) \in Seq(Cells) /\ Len(SubSeq(b, p + 2, j)) = j - (p + 2) + 1
          /\ \A x \in 1 .. j - (p + 2) + 1 : SubSeq(b, p + 2, j)[x] = b[p + 2 + x - 1]
      BY <1>2, <3>1, SubSeqType
    <3> QED
      BY <2>1, <3>1, <3>2, <3>3
  <2>4. \A i \in 1 .. n : d[i] = b[p + 1 + i]
    BY <1>4, <1>7
  <2>5. u = v
    BY <2>2, <2>3, <2>4, SeqsEqual
  <2> QED
    BY <2>1, <2>5
<1>9. [name |-> h.name, data |-> SubSeq(d, 1, h.size)] = MemberAt(b, p + 1)
  <2>1. p + 1 + 1 = p + 2
    BY <1>2
  <2> QED
    BY <1>1, <1>8, <2>1 DEF MemberAt
<1>10. Len(d) = Even(h.size)
  BY <1>1, <1>7
<1>11. StandsIn(k, l, o, [name |-> h.name, data |-> SubSeq(d, 1, h.size)], MemberAt(o.archive, p + 1))
  BY <1>1, <1>9 DEF StandsIn
<1>12. InStepAt(k, l, o, (a \o <<h>>) \o d, Behind(o.archive, p))
  BY <1>1, <1>2, <1>3, <1>7, <1>10, <1>11, InStepPut
<1>13. d = CellsOf(o.archive, p)
  BY <1>1, <1>6 DEF CellsOf
<1>14. CellsIn(o.archive, p, h)
  BY <1>1, <1>3, <1>5 DEF CellsIn
<1> QED
  BY <1>12, <1>13, <1>14

(* A file takes the place of the member, with its own header and padding.  *)
LEMMA InStepReplace ==
  ASSUME NEW l, NEW o, o.archive \in Seq(Cells), NEW a, NEW p, InStepAt("r", l, o, a, p),
         Complete(o.archive, p + 1), NEW i \in DOMAIN l, l[i] \in Paths,
         Tail14[l[i]] = o.archive[p + 1].name, NEW f \in Seq(Cells), f = o.files[l[i]],
         NEW h, h = Header(Tail14[l[i]], Len(f)),
         NEW z, z = IF Len(f) % 2 = 1 THEN <<Pad>> ELSE <<>>
  PROVE  InStepAt("r", l, o, (a \o <<h>>) \o (f \o z), Behind(o.archive, p)) /\ h \in Heads
<1>1. PICK n, d : n = Len(f) /\ d = f \o z
  OBVIOUS
<1>2. h \in Heads /\ h.size = n /\ h.name = Tail14[l[i]] /\ n \in Nat
  BY <1>1, ArAssumption DEF Heads, Header
<1>3. z \in Seq(Cells) /\ Len(z) = IF n % 2 = 1 THEN 1 ELSE 0
  <2>1. CASE n % 2 = 1
    <3>1. z = <<Pad>>
      BY <1>1, <2>1
    <3>2. <<Pad>> \in Seq(Cells) /\ Len(<<Pad>>) = 1
      BY PadType
    <3>3. z \in Seq(Cells) /\ Len(z) = 1
      BY <3>1, <3>2
    <3> QED
      BY <2>1, <3>3
  <2>2. CASE n % 2 # 1
    <3>1. z = <<>>
      BY <1>1, <2>2
    <3>2. <<>> \in Seq(Cells) /\ Len(<<>>) = 0
      OBVIOUS
    <3>3. z \in Seq(Cells) /\ Len(z) = 0
      BY <3>1, <3>2
    <3> QED
      BY <2>2, <3>3
  <2> QED
    BY <2>1, <2>2
<1>4. d \in Seq(Cells) /\ Len(d) = n + Len(z) /\ \A j \in 1 .. n : d[j] = f[j]
  <2>1. f \o z \in Seq(Cells) /\ Len(f \o z) = Len(f) + Len(z) /\ \A j \in 1 .. Len(f) : (f \o z)[j] = f[j]
    <3>1. PICK x, y : x = f /\ y = z
      OBVIOUS
    <3>2. x \in Seq(Cells) /\ y \in Seq(Cells)
      BY <1>3, <3>1
    <3>3. x \o y \in Seq(Cells) /\ Len(x \o y) = Len(x) + Len(y) /\ \A j \in 1 .. Len(x) : (x \o y)[j] = x[j]
      BY <3>2, CatIs, Zenon
    <3> QED
      BY <3>1, <3>3, Zenon
  <2> QED
    BY <1>1, <2>1
<1>5. Len(d) = Even(n)
  <2>1. n % 2 \in {0, 1}
    BY <1>2
  <2> QED
    BY <1>2, <1>3, <1>4, <2>1 DEF Even
<1>6. SubSeq(d, 1, n) = f
  <2>1. n <= Len(d)
    BY <1>2, <1>5, EvenIs
  <2>2. /\ SubSeq(d, 1, n) \in Seq(Cells) /\ Len(SubSeq(d, 1, n)) = n
        /\ \A j \in 1 .. n : SubSeq(d, 1, n)[j] = d[j]
    <3>1. d \in Seq(Cells) /\ n \in Nat
      BY <1>2, <1>4
    <3> QED
      BY <2>1, <3>1, PrefixIs, Zenon
  <2>3. PICK u : u = SubSeq(d, 1, n)
    OBVIOUS
  <2>4. u \in Seq(Cells) /\ Len(u) = Len(f) /\ \A j \in 1 .. Len(u) : u[j] = f[j]
    <3>1. u \in Seq(Cells) /\ Len(u) = n /\ \A j \in 1 .. n : u[j] = d[j]
      BY <2>2, <2>3
    <3> QED
      BY <1>1, <1>4, <3>1
  <2>5. u = f
    BY <2>4, SeqsEqual
  <2> QED
    BY <2>3, <2>5
<1>7. StandsIn("r", l, o, [name |-> h.name, data |-> SubSeq(d, 1, h.size)], MemberAt(o.archive, p + 1))
  BY <1>2, <1>6 DEF StandsIn, MemberAt
<1>8. Len(d) = Even(h.size)
  BY <1>2, <1>5
<1>9. InStepAt("r", l, o, (a \o <<h>>) \o d, Behind(o.archive, p))
  BY <1>2, <1>4, <1>7, <1>8, InStepPut
<1> QED
  BY <1>1, <1>2, <1>9

(* What a file has, it has when more is written to it.                     *)
LEMMA HoldsLonger ==
  ASSUME NEW k, NEW l, NEW o, o.archive \in Seq(Cells) \cup {None}, NEW a \in Seq(Cells), NEW b \in Seq(Cells),
         Begins(a, b), Holds(k, l, o, a)
  PROVE  Holds(k, l, o, b)
<1>1. PICK w, m, n : w = Members(o.archive) /\ m = Members(a) /\ n = Members(b)
  OBVIOUS
<1>2. w \in Seq(Mems) /\ m \in Seq(Mems) /\ n \in Seq(Mems)
  BY <1>1, MembersType
<1>3. Begins(m, n)
  BY <1>1, MembersLonger
<1>4. Covers(k, l, o, w, m)
  BY <1>1 DEF Holds
<1>5. Covers(k, l, o, w, n)
  BY <1>2, <1>3, <1>4, CoversLonger
<1> QED
  BY <1>1, <1>5 DEF Holds

(* The archive as it was has what it had;                                  *)
LEMMA HoldsSelf ==
  ASSUME NEW k, NEW l, NEW o, o.archive \in Seq(Cells) \cup {None}
  PROVE  Holds(k, l, o, o.archive)
  BY MembersType, CoversSelf DEF Holds

(* so has one that was appended to,                                        *)
LEMMA HoldsGrown ==
  ASSUME NEW k, NEW l, NEW o, o.archive \in Seq(Cells), NEW a \in Seq(Cells), Begins(o.archive, a)
  PROVE  Holds(k, l, o, a)
<1>1. PICK b \in Seq(Cells) : b = o.archive
  OBVIOUS
<1>2. Holds(k, l, o, b)
  BY <1>1, HoldsSelf
<1> QED
  BY <1>1, <1>2, HoldsLonger

(* and any file has, if it had nothing.                                    *)
LEMMA HoldsNone ==
  ASSUME NEW k, NEW l, NEW o, o.archive \in Seq(Cells) \cup {None}, Members(o.archive) = <<>>,
         NEW a \in Seq(Cells) \cup {None}
  PROVE  Holds(k, l, o, a)
  BY MembersType, CoversNone DEF Holds

-----------------------------------------------------------------------------
(* The invariant.                                                          *)

Contents == Seq(Cells) \cup {None}
Updates == {"d", "r"}       \* the commands that write the temporary file

TypeInv ==
  /\ archive \in Contents /\ tmp \in Contents /\ files \in [Paths -> Contents]
  /\ pc \in {"idle", "settmp", "open", "openq", "loop", "member", "copy", "append", "recreate",
             "recopy", "end"}
  /\ key \in {"d", "q", "r", "t", "x"} /\ list \in Seq(Paths) /\ pos \in Nat /\ head \in Heads
  /\ old.archive \in Contents /\ old.files \in [Paths -> Contents]

(* Which files are there, and what the command is, by the place.           *)
PlaceInv ==
  /\ pc \in {"loop", "member", "copy", "append", "recreate", "recopy"} => archive # None
  /\ pc \in {"loop", "member", "copy", "append", "recreate", "recopy"} /\ key \in Updates => tmp # None
  /\ pc \in {"settmp", "recreate", "recopy"} => key \in Updates
  /\ pc \in {"open", "loop", "member"} => key # "q"
  /\ pc = "append" => key \in {"q", "r"}
  /\ pc = "openq" => key = "q"
  /\ pc = "open" /\ key \in Updates => tmp = <<Magic>>
  /\ pc = "recopy" => pos <= Len(tmp)

(* A copy has n bytes to go, and its header if todo begins with PutHead.   *)
Goes(td, s, n, outf, inf) ==
  Source(s, n, outf, inf) /\ td \in {Chunks(n, outf, inf), <<PutHead>> \o Chunks(n, outf, inf)}
CopyInv ==
  pc = "copy" =>
    /\ \E n \in Nat, outf \in Flags, inf \in Flags : Goes(todo, src, n, outf, inf)
    /\ ret \in {"loop", "append"} /\ key # "t"
    /\ ret = "append" => key \in {"q", "r"}
    /\ key = "q" => out = "ar" /\ ret = "append"
    /\ key \in Updates => out = "tmp"
    /\ key = "x" => out \in Paths /\ files[out] # None /\ ret = "loop"

(* What the disk holds of what it held when the command was given, unless  *)
(* d or r took a read that failed for an answer.                           *)
DiskInv ==
  ~unread =>
    /\ key # "x" /\ pc # "idle" => files = old.files
    /\ key = "q" /\ pc # "idle" =>
         old.archive = None \/ (archive # None /\ Begins(old.archive, archive))
    /\ pc # "idle" /\ (key \in {"t", "x"} \/ (key \in Updates /\ pc \notin {"recopy", "end"})) =>
         archive = old.archive
    /\ pc = "end" /\ key \in Updates => Holds(key, list, old, archive)
    /\ pc = "idle" => Holds(key, list, old, archive) \/ Holds(key, list, old, tmp)
    /\ pc = "recopy" => archive = SubSeq(tmp, 1, pos)

(* The temporary file keeps up with the archive, until it has all of it.   *)
Picked(k, l, o, h, t, p) ==
  \E q \in Nat : p = q + 1 /\ InStepAt(k, l, o, t, q) /\ Complete(o.archive, p) /\ h = o.archive[p]
WithHead(td, t, h, n, inf) == IF td = Chunks(n, "EVEN", inf) THEN t ELSE t \o <<h>>
KeepsUp(k, l, o, h, t, td, s, p, n, inf) ==
  /\ s # None \/ p + Even(n) <= Len(o.archive)
  /\ InStepAt(k, l, o, WithHead(td, t, h, n, inf) \o Rest(o.archive, s, p, n), Stop(s, p, n))
TmpInv ==
  ~unread /\ key \in Updates =>
    /\ pc \in {"append", "recreate", "recopy"} => Holds(key, list, old, tmp)
    /\ pc = "loop" => Holds(key, list, old, tmp) \/ InStepAt(key, list, old, tmp, pos)
    /\ pc = "member" => Holds(key, list, old, tmp) \/ Picked(key, list, old, head, tmp, pos)
    /\ pc = "copy" =>
         \/ Holds(key, list, old, tmp)
         \/ /\ ret = "loop"
            /\ \E n \in Nat, inf \in Flags :
                 /\ Goes(todo, src, n, "EVEN", inf)
                 /\ KeepsUp(key, list, old, head, tmp, todo, src, pos, n, inf)

Inv == TypeInv /\ PlaceInv /\ CopyInv /\ DiskInv /\ TmpInv

USE DEF Contents

-----------------------------------------------------------------------------
(* Every action keeps it.                                                  *)

(* A file that is there is made of cells; one that is not has no members.  *)
LEMMA NoneIs ==
  /\ None \notin Seq(Cells) /\ Members(None) = <<>>
  /\ \A a \in Contents : a # None => a \in Seq(Cells)
  BY ArAssumption DEF Members

(* With the invariant, archive or temporary file has every member.         *)
LEMMA InvHolds ==
  ASSUME Inv, ~unread
  PROVE  Holds(key, list, old, archive) \/ Holds(key, list, old, tmp)
<1>1. CASE archive = old.archive
  <2>1. Holds(key, list, old, old.archive)
    BY HoldsSelf DEF Inv, TypeInv
  <2> QED
    BY <1>1, <2>1
<1>2. CASE key = "q" /\ pc # "idle"
  <2>1. CASE old.archive = None
    <3>1. Members(old.archive) = <<>>
      BY <2>1, NoneIs
    <3> QED
      BY <3>1, HoldsNone DEF Inv, TypeInv
  <2>2. CASE old.archive # None
    <3>1. archive \in Seq(Cells) /\ old.archive \in Seq(Cells) /\ Begins(old.archive, archive)
      BY <1>2, <2>2 DEF Inv, TypeInv, DiskInv
    <3> QED
      BY <3>1, HoldsGrown
  <2> QED
    BY <2>1, <2>2
<1>3. CASE pc = "idle"
  BY <1>3 DEF Inv, DiskInv
<1>4. CASE key \in Updates /\ pc \in {"recopy", "end"}
  BY <1>4 DEF Inv, DiskInv, TmpInv
<1>5. key \in {"q", "t", "x"} \cup Updates
  BY DEF Inv, TypeInv, Updates
<1>6. pc # "idle" /\ (key \in {"t", "x"} \/ (key \in Updates /\ pc \notin {"recopy", "end"})) => archive = old.archive
  BY DEF Inv, DiskInv
<1> QED
  BY <1>1, <1>2, <1>3, <1>4, <1>5, <1>6

(* It holds before the first command.                                      *)
LEMMA InitInv == Init => Inv
<1> SUFFICES ASSUME Init PROVE Inv
  OBVIOUS
<1>1. archive \in Contents /\ tmp \in Contents /\ files \in [Paths -> Contents]
  BY ArAssumption DEF Init
<1>2. head \in Heads
  <2>1. (CHOOSE p \in Paths : TRUE) \in Paths
    BY ArAssumption
  <2> QED
    BY <2>1 DEF Init, Header, Heads
<1>3. old.archive = archive /\ old.files = files /\ pc = "idle" /\ key = "t" /\ list = <<>> /\ pos = 0
  BY DEF Init
<1>4. list \in Seq(Paths)
  <2>1. <<>> \in Seq(Paths)
    OBVIOUS
  <2> QED
    BY <1>3, <2>1
<1>5. TypeInv
  BY <1>1, <1>2, <1>3, <1>4 DEF TypeInv
<1>6. Holds(key, list, old, old.archive)
  BY <1>5, HoldsSelf DEF TypeInv
<1>7. PlaceInv /\ CopyInv /\ TmpInv
  BY <1>3 DEF PlaceInv, CopyInv, TmpInv, Updates
<1>8. DiskInv
  BY <1>3, <1>6 DEF DiskInv
<1> QED
  BY <1>5, <1>7, <1>8 DEF Inv

(* Command: the disk is what it was, by definition.                        *)
LEMMA CommandInv == ASSUME Inv, Command PROVE Inv'
<1>1. /\ pc' = CASE key' \in {"d", "r"} -> "settmp" [] key' = "q" -> "openq" [] OTHER -> "open"
      /\ key' \in {"d", "q", "r", "t", "x"} /\ list' \in Seq(Paths)
      /\ old'.archive = archive /\ old'.files = files
      /\ archive' = archive /\ tmp' = tmp /\ files' = files /\ pos' = pos /\ head' = head
  BY ArAssumption DEF Command, disk
<1>2. \/ key' \in Updates /\ pc' = "settmp"
      \/ key' = "q" /\ pc' = "openq"
      \/ key' \in {"t", "x"} /\ pc' = "open"
  BY <1>1 DEF Updates
<1>3. TypeInv'
  BY <1>1, <1>2 DEF Inv, TypeInv
<1>4. PlaceInv' /\ CopyInv' /\ TmpInv'
  BY <1>2 DEF PlaceInv, CopyInv, TmpInv, Updates
<1>5. archive # None => Begins(archive, archive)
  BY DEF Inv, TypeInv, Begins
<1>6. DiskInv'
  BY <1>1, <1>2, <1>5 DEF DiskInv, Updates
<1> QED
  BY <1>3, <1>4, <1>6 DEF Inv

(* SetTmp: the temporary file has the magic word.                          *)
LEMMA SetTmpInv == ASSUME Inv, SetTmp PROVE Inv'
<1>1. /\ pc = "settmp" /\ tmp' = <<Magic>> /\ pc' = "open" /\ key' = key /\ list' = list /\ pos' = pos
      /\ head' = head /\ old' = old /\ unread' = unread /\ archive' = archive /\ files' = files
  BY DEF SetTmp
<1>2. <<Magic>> \in Seq(Cells)
  BY PadType
<1>3. TypeInv'
  BY <1>1, <1>2 DEF Inv, TypeInv
<1>4. PlaceInv' /\ CopyInv' /\ TmpInv' /\ DiskInv'
  BY <1>1 DEF Inv, PlaceInv, CopyInv, TmpInv, DiskInv, Updates
<1> QED
  BY <1>3, <1>4 DEF Inv

(* errex() and the end of a command that leave the files alone.            *)
LEMMA StopInv ==
  ASSUME Inv, pc' = "idle", UNCHANGED <<archive, tmp, files, key, list, pos, head, old, unread>>
  PROVE  Inv'
<1>1. TypeInv'
  BY DEF Inv, TypeInv
<1>2. PlaceInv' /\ CopyInv' /\ TmpInv'
  BY DEF PlaceInv, CopyInv, TmpInv
<1>3. DiskInv'
  <2>1. ~unread => Holds(key, list, old, archive) \/ Holds(key, list, old, tmp)
    BY InvHolds
  <2> QED
    BY <2>1 DEF DiskInv
<1> QED
  BY <1>1, <1>2, <1>3 DEF Inv

(* OpenArchive: the two files are in step behind it.                       *)
LEMMA OpenArchiveInv == ASSUME Inv, OpenArchive PROVE Inv'
<1>1. /\ pc = "open" /\ archive # None /\ UNCHANGED <<archive, tmp, files, key, list, head, old, unread>>
      /\ \/ pc' = "idle" /\ pos' = pos
         \/ pc' = "loop" /\ pos' = 1
  BY DEF OpenArchive, Errex, disk
<1>2. CASE pc' = "idle" /\ pos' = pos
  BY <1>1, <1>2, StopInv
<1>3. CASE pc' = "loop" /\ pos' = 1
  <2>1. TypeInv'
    BY <1>1, <1>3 DEF Inv, TypeInv
  <2>2. key \in Updates => tmp = <<Magic>> /\ tmp \in Seq(Cells)
    <3>1. <<Magic>> \in Seq(Cells)
      BY PadType
    <3> QED
      BY <1>1, <3>1 DEF Inv, PlaceInv
  <2>3. PlaceInv'
    BY <1>1, <1>3, <2>2, NoneIs DEF Inv, PlaceInv
  <2>4. CopyInv'
    BY <1>3 DEF CopyInv
  <2>5. DiskInv'
    BY <1>1, <1>3 DEF Inv, DiskInv
  <2>6. TmpInv'
    <3>1. SUFFICES ASSUME key \in Updates, ~unread
                   PROVE  Holds(key, list, old, tmp) \/ InStepAt(key, list, old, tmp, 1)
      BY <1>1, <1>3 DEF TmpInv
    <3>2. old.archive = archive /\ archive \in Seq(Cells)
      BY <1>1, <3>1, NoneIs DEF Inv, DiskInv, TypeInv
    <3>3. CASE archive = <<>>
      <4>1. Len(archive) <= 1
        BY <3>3
      <4>2. Members(old.archive) = <<>>
        BY <3>2, <4>1, MembersNone
      <4> QED
        BY <4>2, HoldsNone DEF Inv, TypeInv
    <3>4. CASE archive # <<>>
      <4>1. InStepAt(key, list, old, <<Magic>>, 1)
        BY <3>2, <3>4, InStepBegins
      <4> QED
        BY <2>2, <3>1, <4>1
    <3> QED
      BY <3>3, <3>4
  <2> QED
    BY <2>1, <2>3, <2>4, <2>5, <2>6 DEF Inv
<1> QED
  BY <1>1, <1>2, <1>3

(* OpenNoArchive: r becomes q, and there is nothing to lose.               *)
LEMMA OpenNoArchiveInv == ASSUME Inv, OpenNoArchive PROVE Inv'
<1>1. /\ pc = "open" /\ archive = None /\ UNCHANGED <<archive, tmp, files, list, pos, head, old, unread>>
      /\ \/ key = "r" /\ key' = "q" /\ pc' = "openq"
         \/ pc' = "idle" /\ key' = key
  BY DEF OpenNoArchive, Errex, disk
<1>2. CASE pc' = "idle" /\ key' = key
  BY <1>1, <1>2, StopInv
<1>3. CASE key = "r" /\ key' = "q" /\ pc' = "openq"
  <2>1. TypeInv'
    BY <1>1, <1>3 DEF Inv, TypeInv
  <2>2. PlaceInv' /\ CopyInv' /\ TmpInv'
    BY <1>3 DEF PlaceInv, CopyInv, TmpInv, Updates
  <2>3. ~unread => old.archive = None /\ files = old.files
    BY <1>1, <1>3 DEF Inv, DiskInv, Updates
  <2>4. DiskInv'
    BY <1>1, <1>3, <2>3 DEF DiskInv, Updates
  <2> QED
    BY <2>1, <2>2, <2>4 DEF Inv
<1> QED
  BY <1>1, <1>2, <1>3

(* OpenToAppend: the archive is there and begins with what it was.         *)
LEMMA OpenToAppendInv == ASSUME Inv, OpenToAppend PROVE Inv'
<1>1. /\ pc = "openq" /\ key = "q" /\ UNCHANGED <<tmp, files, key, list, pos, head, old, unread>>
      /\ \/ archive = None /\ archive' = <<Magic>> /\ pc' = "append"
         \/ archive # None /\ archive' = archive /\ pc' = "append"
         \/ archive' = archive /\ pc' = "idle"
  BY DEF OpenToAppend, Errex, Inv, PlaceInv
<1>2. CASE archive' = archive /\ pc' = "idle"
  BY <1>1, <1>2, StopInv
<1>3. CASE pc' = "append" /\ archive' # None /\ (~unread => old.archive = None \/ Begins(old.archive, archive'))
           /\ archive' \in Contents
  <2>1. TypeInv'
    BY <1>1, <1>3 DEF Inv, TypeInv
  <2>2. PlaceInv' /\ CopyInv' /\ TmpInv'
    BY <1>1, <1>3 DEF PlaceInv, CopyInv, TmpInv, Updates
  <2>3. DiskInv'
    BY <1>1, <1>3 DEF Inv, DiskInv, Updates
  <2> QED
    BY <2>1, <2>2, <2>3 DEF Inv
<1>4. ~unread => old.archive = None \/ (archive # None /\ Begins(old.archive, archive))
  BY <1>1 DEF Inv, DiskInv
<1>5. <<Magic>> \in Seq(Cells)
  BY PadType
<1>6. CASE archive = None /\ archive' = <<Magic>> /\ pc' = "append"
  BY <1>3, <1>4, <1>5, <1>6, NoneIs
<1>7. CASE archive # None /\ archive' = archive /\ pc' = "append"
  BY <1>3, <1>4, <1>7 DEF Inv, TypeInv
<1> QED
  BY <1>1, <1>2, <1>6, <1>7

(* ReadHead: the header is that of the next member, or the temporary file  *)
(* has all of them.                                                        *)
LEMMA ReadHeadInv == ASSUME Inv, ReadHead PROVE Inv'
<1>1. /\ pc = "loop" /\ pc' = "member" /\ pos < Len(archive) /\ pos' = pos + 1
      /\ UNCHANGED <<archive, tmp, files, key, list, old, unread>>
      /\ head' \in (IF archive[pos + 1].t = "head" THEN {archive[pos + 1]} ELSE Wild)
  BY DEF ReadHead, disk
<1>2. archive \in Seq(Cells) /\ pos \in Nat
  BY <1>1, NoneIs DEF Inv, TypeInv, PlaceInv
<1>3. head' \in Heads
  <2>1. pos + 1 \in 1 .. Len(archive)
    BY <1>1, <1>2
  <2>2. archive[pos + 1] \in Cells
    BY <1>2, <2>1
  <2>3. archive[pos + 1].t = "head" => archive[pos + 1] \in Heads
    BY <2>2 DEF Cells, Magic, Junk
  <2> QED
    BY <1>1, <2>3, ArAssumption
<1>4. TypeInv'
  BY <1>1, <1>2, <1>3 DEF Inv, TypeInv
<1>5. PlaceInv' /\ CopyInv'
  BY <1>1 DEF Inv, PlaceInv, CopyInv
<1>6. DiskInv'
  BY <1>1 DEF Inv, DiskInv
<1>7. TmpInv'
  <2>1. SUFFICES ASSUME key \in Updates, ~unread
                 PROVE  Holds(key, list, old, tmp) \/ Picked(key, list, old, head', tmp, pos + 1)
    BY <1>1 DEF TmpInv
  <2>2. old.archive = archive
    BY <1>1, <2>1 DEF Inv, DiskInv
  <2>3. SUFFICES ASSUME ~ Holds(key, list, old, tmp)
                 PROVE  Picked(key, list, old, head', tmp, pos + 1)
    OBVIOUS
  <2>4. InStepAt(key, list, old, tmp, pos)
    BY <1>1, <2>1, <2>3 DEF Inv, TmpInv
  <2>5. Complete(archive, pos + 1)
    BY <1>2, <2>2, <2>3, <2>4, InStepEnds
  <2>6. head' = archive[pos + 1]
    BY <1>1, <2>5 DEF Complete
  <2> QED
    BY <1>2, <2>2, <2>4, <2>5, <2>6 DEF Picked
<1> QED
  BY <1>4, <1>5, <1>6, <1>7 DEF Inv

(* EndLoop: at the end of the archive the temporary file has all of them.  *)
LEMMA EndLoopInv == ASSUME Inv, EndLoop PROVE Inv'
<1>1. /\ pc = "loop" /\ (pos < Len(archive) => archive[pos + 1].t # "head")
      /\ UNCHANGED <<archive, tmp, files, key, list, pos, head, old, unread>>
      /\ \/ key \notin Updates /\ pc' = "end"
         \/ key = "r" /\ pc' = "append"
         \/ key \in Updates /\ pc' = "recreate"
  BY DEF EndLoop, LeaveLoop, disk, Updates
<1>2. TypeInv'
  BY <1>1 DEF Inv, TypeInv
<1>3. PlaceInv' /\ CopyInv'
  BY <1>1 DEF Inv, PlaceInv, CopyInv, Updates
<1>4. DiskInv'
  BY <1>1 DEF Inv, DiskInv, Updates
<1>5. TmpInv'
  <2>1. SUFFICES ASSUME key \in Updates, ~unread PROVE Holds(key, list, old, tmp)
    BY <1>1 DEF TmpInv
  <2>2. old.archive = archive /\ archive \in Seq(Cells) /\ pos \in Nat
    BY <1>1, <2>1, NoneIs DEF Inv, DiskInv, TypeInv, PlaceInv
  <2>3. ~ Complete(archive, pos + 1)
    BY <1>1, <2>2 DEF Complete
  <2>4. InStepAt(key, list, old, tmp, pos) => Holds(key, list, old, tmp)
    BY <2>2, <2>3, InStepEnds
  <2> QED
    BY <1>1, <2>1, <2>4 DEF Inv, TmpInv
<1> QED
  BY <1>2, <1>3, <1>4, <1>5 DEF Inv

(* Table: t writes nothing.                                                *)
LEMMA TableInv == ASSUME Inv, Table PROVE Inv'
<1>1. /\ pc = "member" /\ key = "t" /\ pc' = "loop" /\ pos' = pos + Even(head.size)
      /\ UNCHANGED <<archive, tmp, files, key, list, head, old, unread>>
  BY DEF Table, disk, Skip
<1>2. pos' \in Nat
  <2>1. head.size \in Nat /\ pos \in Nat
    BY DEF Inv, TypeInv, Heads
  <2> QED
    BY <1>1, <2>1, EvenIs
<1>3. TypeInv'
  BY <1>1, <1>2 DEF Inv, TypeInv
<1>4. PlaceInv' /\ CopyInv' /\ DiskInv' /\ TmpInv'
  BY <1>1 DEF Inv, PlaceInv, CopyInv, DiskInv, TmpInv, Updates
<1> QED
  BY <1>3, <1>4 DEF Inv

(* BadRead gives up,                                                       *)
LEMMA BadReadInv == ASSUME Inv, BadRead PROVE Inv'
  BY StopInv DEF BadRead, Errex, disk

(* and so does a crash.                                                    *)
LEMMA DiesInv == ASSUME Inv, Dies PROVE Inv'
  BY StopInv DEF Dies, disk

(* EndCopy: nothing is left to write, and the files are in step again.     *)
LEMMA EndCopyInv == ASSUME Inv, EndCopy PROVE Inv'
<1>1. /\ pc = "copy" /\ todo = <<>> /\ pc' = ret
      /\ UNCHANGED <<archive, tmp, files, key, list, pos, head, old, unread>>
  BY DEF EndCopy, disk
<1>2. /\ ret \in {"loop", "append"} /\ (ret = "append" => key \in {"q", "r"}) /\ (ret = "loop" => key # "q")
  BY <1>1 DEF Inv, CopyInv
<1>3. TypeInv'
  BY <1>1, <1>2 DEF Inv, TypeInv
<1>4. PlaceInv' /\ CopyInv'
  BY <1>1, <1>2 DEF Inv, PlaceInv, CopyInv
<1>5. DiskInv'
  BY <1>1, <1>2 DEF Inv, DiskInv
<1>6. TmpInv'
  <2>1. SUFFICES ASSUME key \in Updates, ~unread
                 PROVE  Holds(key, list, old, tmp) \/ (ret = "loop" /\ InStepAt(key, list, old, tmp, pos))
    BY <1>1, <1>2 DEF TmpInv
  <2>2. SUFFICES ASSUME ~ Holds(key, list, old, tmp)
                 PROVE  ret = "loop" /\ InStepAt(key, list, old, tmp, pos)
    OBVIOUS
  <2>3. /\ ret = "loop"
        /\ \E n \in Nat, inf \in Flags :
             /\ Goes(todo, src, n, "EVEN", inf)
             /\ KeepsUp(key, list, old, head, tmp, todo, src, pos, n, inf)
    BY <1>1, <2>1, <2>2 DEF Inv, TmpInv
  <2>4. PICK n \in Nat, inf \in Flags :
             /\ Goes(todo, src, n, "EVEN", inf)
             /\ KeepsUp(key, list, old, head, tmp, todo, src, pos, n, inf)
    BY <2>3
  <2>5. "EVEN" \in Flags
    BY DEF Flags
  <2>6. Chunks(n, "EVEN", inf) = <<>> /\ n = 0
    <3>1. PICK S : Chunks(n, "EVEN", inf) \in Seq(S)
      BY <2>5, ChunksStep
    <3>2. <<PutHead>> \o Chunks(n, "EVEN", inf) # <<>>
      <4>1. PICK c : c = Chunks(n, "EVEN", inf)
        OBVIOUS
      <4>2. Len(<<PutHead>> \o c) = Len(c) + 1 /\ Len(c) \in Nat
        BY <3>1, <4>1
      <4>3. <<PutHead>> \o c # <<>>
        BY <4>2
      <4> QED
        BY <4>1, <4>3
    <3>3. Chunks(n, "EVEN", inf) = <<>>
      BY <1>1, <2>4, <3>2 DEF Goes
    <3>4. n > 0 => Chunks(n, "EVEN", inf) # <<>>
      BY <2>5, ChunksStep
    <3> QED
      BY <3>3, <3>4
  <2>7. WithHead(todo, tmp, head, n, inf) = tmp
    BY <1>1, <2>6 DEF WithHead
  <2>8. InStepAt(key, list, old, tmp \o Rest(old.archive, src, pos, n), Stop(src, pos, n))
    BY <2>4, <2>7 DEF KeepsUp
  <2>9. tmp \in Seq(Cells) /\ pos \in Nat /\ Even(n) = 0
    BY <1>1, <2>1, <2>6, NoneIs DEF Inv, TypeInv, PlaceInv, Even
  <2>10. Rest(old.archive, src, pos, n) = <<>>
    <3>1. CASE src = None
      <4>1. Rest(old.archive, src, pos, n) = SubSeq(old.archive, pos + 1, pos + 0)
        BY <2>9, <3>1 DEF Rest
      <4>2. pos + 0 < pos + 1
        BY <2>9
      <4>3. SubSeq(old.archive, pos + 1, pos + 0) = <<>>
        BY <2>9, <4>2
      <4> QED
        BY <4>1, <4>3
    <3>2. CASE src # None
      <4>1. src \in Seq(Cells) /\ Len(src) = 0
        BY <2>4, <2>6, <3>2 DEF Goes, Source
      <4>2. src = <<>>
        BY <4>1
      <4>3. Rest(old.archive, src, pos, n) = <<>> \o <<>>
        BY <2>6, <3>2, <4>2 DEF Rest
      <4> QED
        BY <4>3
    <3> QED
      BY <3>1, <3>2
  <2>11. Stop(src, pos, n) = pos
    BY <2>9 DEF Stop
  <2>12. tmp \o <<>> = tmp
    BY <2>9
  <2> QED
    BY <2>3, <2>8, <2>10, <2>11, <2>12
<1> QED
  BY <1>3, <1>4, <1>5, <1>6 DEF Inv

(* Recreate: the archive is empty, and the temporary file has it all.      *)
LEMMA RecreateInv == ASSUME Inv, Recreate PROVE Inv'
<1>1. /\ pc = "recreate" /\ UNCHANGED <<tmp, files, key, list, head, old, unread>>
      /\ \/ archive' = <<>> /\ pos' = 0 /\ pc' = "recopy"
         \/ archive' = archive /\ pos' = pos /\ pc' = "end"
  BY DEF Recreate
<1>2. key \in Updates /\ tmp # None /\ tmp \in Seq(Cells) /\ (~unread => Holds(key, list, old, tmp))
  BY <1>1, NoneIs DEF Inv, TypeInv, PlaceInv, TmpInv
<1>3. CASE archive' = <<>> /\ pos' = 0 /\ pc' = "recopy"
  <2>1. <<>> \in Seq(Cells) /\ <<>> # None
    <3>1. <<>> \in Seq(Cells)
      OBVIOUS
    <3> QED
      BY <3>1, NoneIs
  <2>2. TypeInv'
    <3>1. archive' \in Contents /\ pos' \in Nat
      BY <1>3, <2>1
    <3> QED
      BY <1>1, <1>3, <3>1 DEF Inv, TypeInv
  <2>5. SubSeq(tmp, 1, 0) = <<>> /\ 0 <= Len(tmp)
    BY <1>2
  <2>3. PlaceInv' /\ CopyInv'
    BY <1>1, <1>2, <1>3, <2>1, <2>5 DEF PlaceInv, CopyInv, Updates
  <2>4. TmpInv'
    BY <1>1, <1>2, <1>3 DEF TmpInv
  <2>6. DiskInv'
    BY <1>1, <1>2, <1>3, <2>5 DEF Inv, DiskInv, Updates
  <2> QED
    BY <2>2, <2>3, <2>4, <2>6 DEF Inv
<1>4. CASE archive' = archive /\ pos' = pos /\ pc' = "end"
  <2>1. TypeInv'
    BY <1>1, <1>4 DEF Inv, TypeInv
  <2>2. PlaceInv' /\ CopyInv' /\ TmpInv'
    BY <1>4 DEF PlaceInv, CopyInv, TmpInv
  <2>3. (~unread => archive = old.archive) /\ Holds(key, list, old, old.archive)
    <3>1. ~unread => archive = old.archive
      BY <1>1, <1>2 DEF Inv, DiskInv
    <3>2. old.archive \in Contents
      BY DEF Inv, TypeInv
    <3> QED
      BY <3>1, <3>2, HoldsSelf
  <2>4. DiskInv'
    BY <1>1, <1>2, <1>4, <2>3 DEF Inv, DiskInv, Updates
  <2> QED
    BY <2>1, <2>2, <2>4 DEF Inv
<1> QED
  BY <1>1, <1>3, <1>4

(* Recopy: the archive is the beginning of the temporary file, in the end  *)
(* all of it.                                                              *)
LEMMA RecopyInv == ASSUME Inv, Recopy PROVE Inv'
<1>1. /\ pc = "recopy" /\ UNCHANGED <<tmp, files, key, list, head, old, unread>>
      /\ archive' = archive \o Block /\ pos' = pos + Len(Block)
      /\ pc' = IF Block = <<>> THEN "end" ELSE "recopy"
  BY DEF Recopy
<1>2. /\ key \in Updates /\ tmp # None /\ tmp \in Seq(Cells) /\ archive \in Seq(Cells)
      /\ pos \in Nat /\ pos <= Len(tmp)
      /\ ~unread => Holds(key, list, old, tmp) /\ archive = SubSeq(tmp, 1, pos)
  BY <1>1, NoneIs DEF Inv, TypeInv, PlaceInv, TmpInv, DiskInv
<1>3. PICK j : j = IF pos + BLK > Len(tmp) THEN Len(tmp) ELSE pos + BLK
  OBVIOUS
<1>4. j \in Nat /\ pos <= j /\ j <= Len(tmp) /\ (j = pos => pos = Len(tmp)) /\ BLK \in Nat /\ BLK > 0
  BY <1>2, <1>3, ArAssumption
<1>5. Block = SubSeq(tmp, pos + 1, j)
  BY <1>3 DEF Block
<1>6. Block \in Seq(Cells) /\ Len(Block) = j - pos
  <2>1. pos + 1 \in Nat /\ pos + 1 > 0 /\ pos + 1 <= j + 1 /\ j - (pos + 1) + 1 = j - pos
    BY <1>2, <1>4
  <2>2. /\ SubSeq(tmp, pos + 1, j) \in Seq(Cells) /\ Len(SubSeq(tmp, pos + 1, j)) = j - (pos + 1) + 1
    BY <1>2, <1>4, <2>1, SubSeqType
  <2> QED
    BY <1>5, <2>1, <2>2
<1>7. pos' = j /\ (~unread => archive' = SubSeq(tmp, 1, j))
  <2>1. PICK z, k : z = 0 /\ k = pos
    OBVIOUS
  <2>2. z \in Nat /\ k \in Nat /\ z <= k /\ k <= j
    BY <1>2, <1>4, <2>1
  <2>3. SubSeq(tmp, z + 1, j) = SubSeq(tmp, z + 1, k) \o SubSeq(tmp, k + 1, j)
    BY <1>2, <1>4, <2>2, SubSeqSplit
  <2>4. z + 1 = 1
    BY <2>1
  <2>5. ~unread => SubSeq(tmp, 1, j) = archive \o Block
    BY <1>2, <1>5, <2>1, <2>3, <2>4
  <2> QED
    BY <1>1, <1>2, <1>4, <1>6, <2>5
<1>8. archive' \in Seq(Cells) /\ archive' # None
  BY <1>1, <1>2, <1>6, CatIs, NoneIs
<1>9. pc' \in {"end", "recopy"} /\ (pc' = "end" /\ ~unread => archive' = tmp)
  <2>1. Block = <<>> => j = pos
    BY <1>2, <1>4, <1>6
  <2>2. Block = <<>> /\ ~unread => archive' = SubSeq(tmp, 1, Len(tmp))
    BY <1>4, <1>7, <2>1
  <2>3. SubSeq(tmp, 1, Len(tmp)) = tmp
    BY <1>2
  <2> QED
    BY <1>1, <2>2, <2>3
<1>10. TypeInv'
  <2>1. archive' \in Contents /\ tmp' \in Contents /\ pos' \in Nat
    BY <1>1, <1>2, <1>4, <1>7, <1>8
  <2>2. /\ files' \in [Paths -> Contents] /\ key' \in {"d", "q", "r", "t", "x"} /\ list' \in Seq(Paths)
        /\ head' \in Heads /\ old'.archive \in Contents /\ old'.files \in [Paths -> Contents]
    BY <1>1 DEF Inv, TypeInv
  <2> QED
    BY <1>9, <2>1, <2>2 DEF TypeInv
<1>11. PlaceInv' /\ CopyInv'
  BY <1>1, <1>2, <1>4, <1>7, <1>8, <1>9 DEF PlaceInv, CopyInv, Updates
<1>12. TmpInv'
  BY <1>1, <1>2, <1>9 DEF TmpInv
<1>13. DiskInv'
  BY <1>1, <1>2, <1>4, <1>7, <1>9 DEF Inv, DiskInv, Updates
<1> QED
  BY <1>10, <1>11, <1>12, <1>13 DEF Inv

(* Finish: the temporary file is removed when the archive has it all.      *)
LEMMA FinishInv == ASSUME Inv, Finish PROVE Inv'
<1>1. /\ pc = "end" /\ pc' = "idle" /\ UNCHANGED <<archive, files, key, list, pos, head, old, unread>>
      /\ tmp' = IF key \in Updates THEN None ELSE tmp
  BY DEF Finish, Updates
<1>2. TypeInv'
  <2>1. tmp' \in Contents
    <3>1. tmp \in Contents /\ None \in Contents
      BY DEF Inv, TypeInv
    <3> QED
      BY <1>1, <3>1
  <2> QED
    BY <1>1, <2>1 DEF Inv, TypeInv
<1>3. PlaceInv' /\ CopyInv' /\ TmpInv'
  BY <1>1 DEF PlaceInv, CopyInv, TmpInv
<1>4. ~unread => Holds(key, list, old, archive) \/ Holds(key, list, old, tmp')
  BY <1>1, InvHolds DEF Inv, DiskInv
<1>5. DiskInv'
  BY <1>1, <1>4 DEF DiskInv
<1> QED
  BY <1>2, <1>3, <1>5 DEF Inv

(* The header before the chunks.                                           *)
LEMMA HeadFirst ==
  ASSUME NEW n \in Nat, NEW outf \in Flags, NEW inf \in Flags,
         NEW t, t = <<PutHead>> \o Chunks(n, outf, inf)
  PROVE  t # <<>> /\ Head(t) = PutHead /\ Tail(t) = Chunks(n, outf, inf) /\ t # Chunks(n, outf, inf)
<1>1. PICK c, h : c = Chunks(n, outf, inf) /\ h = PutHead
  OBVIOUS
<1>2. PICK S : c \in Seq(S)
  BY <1>1, ChunksStep
<1> DEFINE U == S \cup {h}
<1>3. c \in Seq(U) /\ h \in U
  BY <1>2
<1> HIDE DEF U
<1>4. <<h>> \in Seq(U) /\ t = <<h>> \o c
  BY <1>1, <1>3
<1>9. PICK s : s = t
  OBVIOUS
<1>10. s = <<h>> \o c /\ s \in Seq(U)
  BY <1>3, <1>4, <1>9
<1>11. Len(s) = Len(c) + 1 /\ s[1] = h /\ \A i \in 1 .. Len(c) : s[i + 1] = c[i]
  BY <1>3, <1>10
<1>5. /\ t \in Seq(U) /\ Len(t) = Len(c) + 1 /\ t[1] = h /\ \A i \in 1 .. Len(c) : t[i + 1] = c[i]
  BY <1>9, <1>10, <1>11
<1>6. t # <<>> /\ Head(t) = h /\ t # c
  BY <1>3, <1>5
<1>7. Tail(t) \in Seq(U) /\ Len(Tail(t)) = Len(c) /\ \A i \in 1 .. Len(c) : Tail(t)[i] = c[i]
  BY <1>3, <1>5
<1>8. Tail(t) = c
  BY <1>3, <1>7
<1> QED
  BY <1>1, <1>6, <1>8

(* Where skip() goes.                                                      *)
LEMMA SkipTo ==
  ASSUME NEW p \in Nat, NEW h, h.size \in Nat
  PROVE  p + Even(h.size) \in Nat
<1>1. PICK n \in Nat : n = h.size
  OBVIOUS
<1>2. Even(n) \in Nat
  BY EvenIs
<1> QED
  BY <1>1, <1>2

(* inlist() finds a name that becomes that of the member.                  *)
LEMMA HitIn ==
  ASSUME list \in Seq(Paths), Hits # {}
  PROVE  Hit \in DOMAIN list /\ Tail14[list[Hit]] = head.name /\ list[Hit] \in Paths
<1>1. Hits \in SUBSET Nat /\ Hits \subseteq DOMAIN list
  BY DEF Hits
<1>2. \E i \in Hits : \A j \in Hits : i <= j
  BY <1>1, NatMin
<1>3. Hit \in Hits
  BY <1>2 DEF Hit
<1> QED
  BY <1>3 DEF Hits

(* puthead() and copy() of a member of the archive, for d and r.           *)
LEMMA PassOnInv ==
  ASSUME Inv, pc = "member", key \in Updates,
         todo' = <<PutHead>> \o Chunks(head.size, "EVEN", "EVEN"),
         src' = None, out' = "tmp", ret' = "loop", pc' = "copy",
         UNCHANGED <<archive, tmp, files, key, list, pos, head, old, unread>>
  PROVE  Inv'
<1>1. PICK n : n = head.size
  OBVIOUS
<1>2. n \in Nat /\ "EVEN" \in Flags
  BY <1>1 DEF Inv, TypeInv, Heads, Flags
<1>3. Goes(todo', src', n, "EVEN", "EVEN")
  BY <1>1 DEF Goes, Source
<1>4. TypeInv'
  BY DEF Inv, TypeInv
<1>5. PlaceInv'
  BY DEF Inv, PlaceInv, Updates
<1>6. CopyInv'
  BY <1>2, <1>3 DEF CopyInv, Updates
<1>7. DiskInv'
  BY DEF Inv, DiskInv, Updates
<1>8. TmpInv'
  <2>1. SUFFICES ASSUME ~unread, ~ Holds(key, list, old, tmp)
                 PROVE  KeepsUp(key, list, old, head, tmp, todo', src', pos, n, "EVEN")
    BY <1>2, <1>3 DEF TmpInv
  <2>2. Picked(key, list, old, head, tmp, pos)
    BY <2>1 DEF Inv, TmpInv
  <2>3. PICK q \in Nat : /\ pos = q + 1 /\ InStepAt(key, list, old, tmp, q) /\ Complete(old.archive, pos)
                         /\ head = old.archive[pos]
    BY <2>2 DEF Picked
  <2>4. old.archive \in Seq(Cells)
    BY <2>1, NoneIs DEF Inv, DiskInv, TypeInv, PlaceInv, Updates
  <2>5. PICK e : e = Behind(old.archive, q)
    OBVIOUS
  <2>10. Complete(old.archive, q + 1) /\ head = old.archive[q + 1]
    BY <2>3
  <2>6. /\ InStepAt(key, list, old, (tmp \o <<head>>) \o SubSeq(old.archive, q + 2, e), e)
        /\ e = q + 1 + Even(n) /\ e <= Len(old.archive)
    <3>1. PICK k, l, o, a, h : k = key /\ l = list /\ o = old /\ a = tmp /\ h = head
      OBVIOUS
    <3>2. o.archive \in Seq(Cells) /\ InStepAt(k, l, o, a, q) /\ Complete(o.archive, q + 1) /\ h = o.archive[q + 1]
      BY <2>3, <2>4, <2>10, <3>1
    <3>3. InStepAt(k, l, o, (a \o <<h>>) \o CellsOf(o.archive, q), Behind(o.archive, q))
      BY <3>2, InStepCopy
    <3>4. CellsIn(o.archive, q, h)
      BY <3>2, InStepCopy
    <3> QED
      BY <1>1, <2>5, <3>1, <3>3, <3>4 DEF CellsOf, CellsIn
  <2>7. q + 2 = pos + 1 /\ e = pos + Even(n) /\ Even(n) \in Nat
    BY <1>2, <2>3, <2>6, EvenIs
  <2>8. Rest(old.archive, src', pos, n) = SubSeq(old.archive, q + 2, e) /\ Stop(src', pos, n) = e
    BY <2>7 DEF Rest, Stop
  <2>9. WithHead(todo', tmp, head, n, "EVEN") = tmp \o <<head>>
    BY <1>1, <1>2, HeadFirst DEF WithHead
  <2> QED
    BY <2>6, <2>7, <2>8, <2>9 DEF KeepsUp
<1> QED
  BY <1>4, <1>5, <1>6, <1>7, <1>8 DEF Inv

(* Delete: the member is deleted or passed on.                             *)
LEMMA DeleteInv == ASSUME Inv, Delete PROVE Inv'
<1>1. pc = "member" /\ key = "d" /\ key \in Updates /\ UNCHANGED <<archive, tmp, key, list, old, unread>>
  BY DEF Delete, Updates
<1>2. CASE Hits = {}
  <2>1. PassOn
    BY <1>2 DEF Delete
  <2> QED
    BY <1>1, <2>1, PassOnInv DEF PassOn
<1>3. CASE Hits # {}
  <2>1. pos' = pos + Even(head.size) /\ pc' = "loop" /\ UNCHANGED <<files, head>>
    BY <1>3 DEF Delete, Skip
  <2>2. list \in Seq(Paths) /\ pos \in Nat /\ head.size \in Nat
    BY DEF Inv, TypeInv, Heads
  <2>3. pos' \in Nat
    BY <2>1, <2>2, SkipTo
  <2>4. TypeInv'
    BY <1>1, <2>1, <2>3 DEF Inv, TypeInv
  <2>5. PlaceInv' /\ CopyInv'
    BY <1>1, <2>1 DEF Inv, PlaceInv, CopyInv
  <2>6. DiskInv'
    BY <1>1, <2>1 DEF Inv, DiskInv
  <2>7. TmpInv'
    <3>1. SUFFICES ASSUME ~unread, ~ Holds(key, list, old, tmp) PROVE InStepAt(key, list, old, tmp, pos')
      BY <1>1, <2>1 DEF TmpInv
    <3>2. Picked(key, list, old, head, tmp, pos)
      BY <1>1, <3>1 DEF Inv, TmpInv
    <3>3. PICK q \in Nat : /\ pos = q + 1 /\ InStepAt(key, list, old, tmp, q) /\ Complete(old.archive, pos)
                           /\ head = old.archive[pos]
      BY <3>2 DEF Picked
    <3>4. old.archive \in Seq(Cells)
      BY <1>1, <3>1, NoneIs DEF Inv, DiskInv, TypeInv, PlaceInv, Updates
    <3>5. PICK m : m = MemberAt(old.archive, pos)
      OBVIOUS
    <3>6. m \in Mems /\ m.name = head.name
      <4>1. pos >= 1
        BY <3>3
      <4>2. m \in Mems
        BY <2>2, <3>3, <3>4, <3>5, <4>1, CompleteType
      <4> QED
        BY <3>3, <3>5, <4>2 DEF MemberAt
    <3>7. Hit \in DOMAIN list /\ Tail14[list[Hit]] = m.name
      BY <1>3, <2>2, <3>6, HitIn
    <3>8. Dropped("d", list, m)
      BY <2>2, <3>6, <3>7, DroppedIs
    <3>9. InStepAt(key, list, old, tmp, Behind(old.archive, q))
      BY <1>1, <3>3, <3>4, <3>5, <3>8, InStepDrop
    <3>10. Behind(old.archive, q) = pos'
      BY <2>1, <3>3 DEF Behind
    <3> QED
      BY <3>9, <3>10
  <2> QED
    BY <2>4, <2>5, <2>6, <2>7 DEF Inv
<1> QED
  BY <1>2, <1>3

(* getfile() for r, in the place of the member.                            *)
LEMMA ReplaceInv == ASSUME Inv, Replace PROVE Inv'
<1>1. pc = "member" /\ key = "r" /\ key \in Updates /\ UNCHANGED <<archive, tmp, key, list, old, unread>>
  BY DEF Replace, Updates
<1>2. CASE Hits = {} /\ PassOn
  BY <1>1, <1>2, PassOnInv DEF PassOn
<1>3. CASE /\ todo' = <<PutHead>> \o Chunks(head.size, "EVEN", "EVEN")
           /\ src' = None /\ out' = "tmp" /\ ret' = "loop" /\ pc' = "copy" /\ UNCHANGED <<files, pos, head>>
  BY <1>1, <1>3, PassOnInv
<1>4. CASE Hits # {} /\ files[list[Hit]] # None /\ Skip /\ GetFile(Hit, "tmp", "loop") /\ UNCHANGED files
  <2>1. list \in Seq(Paths) /\ pos \in Nat /\ head.size \in Nat /\ files \in [Paths -> Contents]
    BY DEF Inv, TypeInv, Heads
  <2>2. PICK i : i = Hit
    OBVIOUS
  <2>3. i \in DOMAIN list /\ Tail14[list[i]] = head.name /\ list[i] \in Paths
    BY <1>4, <2>1, <2>2, HitIn
  <2>4. PICK f : f = files[list[i]]
    OBVIOUS
  <2>5. f \in Seq(Cells)
    BY <1>4, <2>1, <2>2, <2>3, <2>4
  <2>6. PICK n, h : n = Len(f) /\ h = Header(Tail14[list[i]], Len(f))
    OBVIOUS
  <2>7. /\ head' = h /\ todo' = <<PutHead>> \o Chunks(n, "EVEN", "ODD") /\ src' = f
        /\ out' = "tmp" /\ ret' = "loop" /\ pc' = "copy" /\ pos' = pos + Even(head.size) /\ files' = files
    BY <1>4, <2>2, <2>4, <2>6 DEF GetFile, Skip
  <2>8. n \in Nat /\ "EVEN" \in Flags /\ "ODD" \in Flags
    BY <2>5, <2>6 DEF Flags
  <2>9. h \in Heads
    BY <2>3, <2>6, <2>8, ArAssumption DEF Header, Heads
  <2>10. Goes(todo', src', n, "EVEN", "ODD")
    BY <2>5, <2>6, <2>7 DEF Goes, Source
  <2>11. pos' \in Nat
    BY <2>1, <2>7, SkipTo
  <2>12. TypeInv'
    BY <1>1, <2>7, <2>9, <2>11 DEF Inv, TypeInv
  <2>13. PlaceInv'
    BY <1>1, <2>7 DEF Inv, PlaceInv, Updates
  <2>14. CopyInv'
    BY <1>1, <2>7, <2>8, <2>10 DEF CopyInv, Updates
  <2>15. DiskInv'
    BY <1>1, <2>7 DEF Inv, DiskInv, Updates
  <2>16. TmpInv'
    <3>1. SUFFICES ASSUME ~unread, ~ Holds(key, list, old, tmp)
                   PROVE  KeepsUp(key, list, old, h, tmp, todo', src', pos', n, "ODD")
      BY <1>1, <2>7, <2>8, <2>10 DEF TmpInv
    <3>2. Picked(key, list, old, head, tmp, pos)
      BY <1>1, <3>1 DEF Inv, TmpInv
    <3>3. PICK q \in Nat : /\ pos = q + 1 /\ InStepAt(key, list, old, tmp, q) /\ Complete(old.archive, pos)
                           /\ head = old.archive[pos]
      BY <3>2 DEF Picked
    <3>4. old.archive \in Seq(Cells) /\ old.files = files
      BY <1>1, <3>1, NoneIs DEF Inv, DiskInv, TypeInv, PlaceInv, Updates
    <3>5. PICK z : z = IF Len(f) % 2 = 1 THEN <<Pad>> ELSE <<>>
      OBVIOUS
    <3>6. InStepAt("r", list, old, (tmp \o <<h>>) \o (f \o z), Behind(old.archive, q))
      <4>1. InStepAt("r", list, old, tmp, q) /\ Complete(old.archive, q + 1)
        BY <1>1, <3>3
      <4>2. Tail14[list[i]] = old.archive[q + 1].name
        BY <2>3, <3>3
      <4>3. f = old.files[list[i]]
        BY <2>4, <3>4
      <4> QED
        BY <2>3, <2>5, <2>6, <3>4, <3>5, <4>1, <4>2, <4>3, InStepReplace
    <3>7. Behind(old.archive, q) = pos'
      BY <2>7, <3>3 DEF Behind
    <3>8. src' # None
      BY <2>5, <2>7, NoneIs
    <3>9. Rest(old.archive, src', pos', n) = f \o z /\ Stop(src', pos', n) = pos'
      BY <2>6, <2>7, <3>5, <3>8 DEF Rest, Stop
    <3>10. WithHead(todo', tmp, h, n, "ODD") = tmp \o <<h>>
      BY <2>7, <2>8, HeadFirst DEF WithHead
    <3> QED
      BY <1>1, <3>6, <3>7, <3>8, <3>9, <3>10 DEF KeepsUp
  <2> QED
    BY <2>12, <2>13, <2>14, <2>15, <2>16 DEF Inv
<1> QED
  BY <1>2, <1>3, <1>4 DEF Replace

(* A command that ends, whatever it has written.                           *)
LEMMA GiveUpInv ==
  ASSUME Inv, pc' = "idle", UNCHANGED <<key, list, pos, head, old, unread>>,
         archive' \in Contents, tmp' \in Contents, files' \in [Paths -> Contents],
         ~unread => Holds(key, list, old, archive') \/ Holds(key, list, old, tmp')
  PROVE  Inv'
<1>1. TypeInv'
  BY DEF Inv, TypeInv
<1>2. PlaceInv' /\ CopyInv' /\ TmpInv'
  BY DEF PlaceInv, CopyInv, TmpInv
<1>3. DiskInv'
  BY DEF DiskInv
<1> QED
  BY <1>1, <1>2, <1>3 DEF Inv

(* The archive as it was, or longer, has what it had.                      *)
LEMMA HoldsAppended ==
  ASSUME Inv, NEW a \in Seq(Cells), old.archive = None \/ Begins(old.archive, a)
  PROVE  Holds(key, list, old, a)
<1>1. CASE old.archive = None
  <2>1. Members(old.archive) = <<>>
    BY <1>1, NoneIs
  <2> QED
    BY <2>1, HoldsNone DEF Inv, TypeInv
<1>2. CASE old.archive # None /\ Begins(old.archive, a)
  <2>1. old.archive \in Seq(Cells)
    BY <1>2 DEF Inv, TypeInv
  <2> QED
    BY <1>2, <2>1, HoldsGrown
<1> QED
  BY <1>1, <1>2

(* What begins a beginning begins the file.                                *)
LEMMA BeginsOn ==
  ASSUME NEW a \in Seq(Cells), NEW b \in Seq(Cells), NEW c \in Seq(Cells), Begins(a, b), Begins(b, c)
  PROVE  Begins(a, c)
  BY DEF Begins

(* Extract: x writes no archive.                                           *)
LEMMA ExtractInv == ASSUME Inv, Extract PROVE Inv'
<1>1. /\ pc = "member" /\ key = "x" /\ UNCHANGED <<archive, tmp, key, list, head, old, unread>>
      /\ \/ /\ out' \in RunsOn[head.name] /\ files' = [files EXCEPT ![out'] = <<>>]
            /\ todo' = Chunks(head.size, "ODD", "EVEN") /\ src' = None
            /\ ret' = "loop" /\ pc' = "copy" /\ pos' = pos
         \/ pos' = pos + Even(head.size) /\ pc' = "loop" /\ files' = files
  BY DEF Extract, Skip, copyvars
<1>2. pos \in Nat /\ head.size \in Nat /\ head.name \in Paths /\ files \in [Paths -> Contents]
  BY DEF Inv, TypeInv, Heads
<1>3. CASE /\ out' \in RunsOn[head.name] /\ files' = [files EXCEPT ![out'] = <<>>]
           /\ todo' = Chunks(head.size, "ODD", "EVEN") /\ src' = None
           /\ ret' = "loop" /\ pc' = "copy" /\ pos' = pos
  <2>1. PICK n, p : n = head.size /\ p = out'
    OBVIOUS
  <2>2. n \in Nat /\ p \in Paths /\ "ODD" \in Flags /\ "EVEN" \in Flags
    BY <1>2, <1>3, <2>1, ArAssumption DEF Flags
  <2>3. <<>> \in Seq(Cells)
    OBVIOUS
  <2>4. PICK none : none = <<>>
    OBVIOUS
  <2>5. none \in Contents /\ none # None
    BY <2>3, <2>4, NoneIs
  <2>6. files' = [files EXCEPT ![p] = none]
    BY <1>3, <2>1, <2>4
  <2>7. files' \in [Paths -> Contents] /\ files'[p] # None
    BY <1>2, <2>2, <2>5, <2>6
  <2>8. Goes(todo', src', n, "ODD", "EVEN")
    BY <1>3, <2>1 DEF Goes, Source
  <2>9. TypeInv'
    BY <1>1, <1>3, <2>7 DEF Inv, TypeInv
  <2>10. PlaceInv'
    BY <1>1, <1>3 DEF Inv, PlaceInv, Updates
  <2>11. CopyInv'
    <3>1. \E m \in Nat, outf \in Flags, inf \in Flags : Goes(todo', src', m, outf, inf)
      BY <2>2, <2>8
    <3>2. out' \in Paths /\ files'[out'] # None
      BY <1>3, <2>1, <2>2, <2>7
    <3> QED
      BY <1>1, <1>3, <3>1, <3>2 DEF CopyInv, Updates
  <2>12. DiskInv'
    BY <1>1, <1>3 DEF Inv, DiskInv, Updates
  <2>13. TmpInv'
    BY <1>1 DEF TmpInv, Updates
  <2> QED
    BY <2>9, <2>10, <2>11, <2>12, <2>13 DEF Inv
<1>4. CASE pos' = pos + Even(head.size) /\ pc' = "loop" /\ files' = files
  <2>1. pos' \in Nat
    BY <1>2, <1>4, SkipTo
  <2>2. TypeInv'
    BY <1>1, <1>4, <2>1 DEF Inv, TypeInv
  <2>3. PlaceInv' /\ CopyInv' /\ DiskInv' /\ TmpInv'
    BY <1>1, <1>4 DEF Inv, PlaceInv, CopyInv, DiskInv, TmpInv, Updates
  <2> QED
    BY <2>2, <2>3 DEF Inv
<1> QED
  BY <1>1, <1>3, <1>4

(* AppendFile: for q behind the archive, for r behind a temporary file     *)
(* that has all of it.                                                     *)
LEMMA AppendFileInv == ASSUME Inv, AppendFile PROVE Inv'
<1> DEFINE rest == {i \in DOMAIN list \ marks : files[list[i]] # None}
           f == CHOOSE i \in rest : \A j \in rest : i <= j
<1>1. /\ pc = "append" /\ UNCHANGED <<archive, tmp, files, key, list, pos, old, unread>>
      /\ \/ rest = {} /\ pc' = (IF key = "q" THEN "end" ELSE "recreate") /\ head' = head
         \/ rest # {} /\ GetFile(f, IF key = "q" THEN "ar" ELSE "tmp", "append")
  BY DEF AppendFile, disk
<1>2. key \in {"q", "r"} /\ archive # None /\ (key = "r" => tmp # None)
  BY <1>1 DEF Inv, PlaceInv, Updates
<1>3. list \in Seq(Paths) /\ pos \in Nat /\ files \in [Paths -> Contents]
  BY DEF Inv, TypeInv
<1>4. CASE rest = {} /\ pc' = (IF key = "q" THEN "end" ELSE "recreate") /\ head' = head
  <2>1. TypeInv'
    BY <1>1, <1>4 DEF Inv, TypeInv
  <2>2. PlaceInv' /\ CopyInv'
    BY <1>1, <1>2, <1>4 DEF PlaceInv, CopyInv, Updates
  <2>3. DiskInv'
    BY <1>1, <1>2, <1>4 DEF Inv, DiskInv, Updates
  <2>4. TmpInv'
    BY <1>1, <1>2, <1>4 DEF Inv, TmpInv, Updates
  <2> QED
    BY <2>1, <2>2, <2>3, <2>4 DEF Inv
<1>5. CASE rest # {} /\ GetFile(f, IF key = "q" THEN "ar" ELSE "tmp", "append")
  <2>1. f \in rest
    <3>1. rest \in SUBSET Nat
      BY <1>3
    <3> HIDE DEF rest
    <3>2. \E i \in rest : \A j \in rest : i <= j
      BY <1>5, <3>1, NatMin
    <3> QED
      BY <3>2
  <2>2. PICK i : i = f
    OBVIOUS
  <2>3. PICK d, n, h : d = files[list[i]] /\ n = Len(d) /\ h = Header(Tail14[list[i]], n)
    OBVIOUS
  <2>4. i \in DOMAIN list /\ files[list[i]] # None
    BY <2>1, <2>2
  <2>5. list[i] \in Paths /\ d \in Seq(Cells)
    BY <1>3, <2>3, <2>4
  <2>6. n \in Nat /\ h \in Heads
    <3>1. n \in Nat
      BY <2>3, <2>5
    <3> QED
      BY <2>3, <2>5, <3>1, ArAssumption DEF Header, Heads
  <2> HIDE DEF f, rest
  <2>7. /\ head' = h /\ todo' = <<PutHead>> \o Chunks(n, "EVEN", "ODD") /\ src' = d
        /\ out' = (IF key = "q" THEN "ar" ELSE "tmp") /\ ret' = "append" /\ pc' = "copy"
    BY <1>5, <2>2, <2>3 DEF GetFile
  <2>8. "EVEN" \in Flags /\ "ODD" \in Flags
    BY DEF Flags
  <2>9. Goes(todo', src', n, "EVEN", "ODD")
    BY <2>3, <2>5, <2>7 DEF Goes, Source
  <2>10. TypeInv'
    BY <1>1, <2>6, <2>7 DEF Inv, TypeInv
  <2>11. PlaceInv'
    BY <1>1, <1>2, <2>7 DEF PlaceInv, Updates
  <2>12. CopyInv'
    <3>1. \E m \in Nat, outf \in Flags, inf \in Flags : Goes(todo', src', m, outf, inf)
      BY <2>6, <2>8, <2>9
    <3> QED
      BY <1>1, <1>2, <2>7, <3>1 DEF CopyInv, Updates
  <2>13. DiskInv'
    BY <1>1, <1>2, <2>7 DEF Inv, DiskInv, Updates
  <2>14. TmpInv'
    BY <1>1, <1>2, <2>7 DEF Inv, TmpInv, Updates
  <2> QED
    BY <2>10, <2>11, <2>12, <2>13, <2>14 DEF Inv
<1> QED
  BY <1>1, <1>4, <1>5

(* The first of what copy() has to do: the header, or a chunk.             *)
HeadNext(td, n, outf, inf) ==
  Head(td) = PutHead /\ Tail(td) = Chunks(n, outf, inf) /\ td # Chunks(n, outf, inf)
ChunkNext(td, n, outf, inf) ==
  /\ n > 0 /\ td = Chunks(n, outf, inf) /\ Head(td) = Chunk(n, outf, inf)
  /\ Tail(td) = Chunks(LeftOver(n), outf, inf) /\ Head(td) # PutHead

(* What copy() does next is to write the header, or the next chunk.        *)
LEMMA FirstToDo ==
  ASSUME NEW td, NEW s, NEW n \in Nat, NEW outf \in Flags, NEW inf \in Flags,
         Goes(td, s, n, outf, inf), td # <<>>
  PROVE  HeadNext(td, n, outf, inf) \/ ChunkNext(td, n, outf, inf)
<1>1. CASE td = <<PutHead>> \o Chunks(n, outf, inf)
  BY <1>1, HeadFirst DEF HeadNext
<1>2. CASE td = Chunks(n, outf, inf)
  <2>1. n > 0
    <3>1. n = 0 => Chunks(n, outf, inf) = <<>>
      BY ChunksStep
    <3> QED
      BY <1>2, <3>1
  <2>2. PICK c : c = Chunks(n, outf, inf)
    OBVIOUS
  <2>3. Head(c) = Chunk(n, outf, inf) /\ Tail(c) = Chunks(LeftOver(n), outf, inf) /\ Chunk(n, outf, inf) # PutHead
    BY <2>1, <2>2, ChunksStep
  <2> QED
    BY <1>2, <2>1, <2>2, <2>3 DEF ChunkNext
<1> QED
  BY <1>1, <1>2 DEF Goes

(* copy() goes on with what follows the header or the chunk.               *)
LEMMA GoesOn ==
  ASSUME NEW b \in Seq(Cells), NEW p \in Nat, NEW td, NEW s, NEW n \in Nat,
         NEW outf \in Flags, NEW inf \in Flags, Goes(td, s, n, outf, inf), td # <<>>,
         Head(td) = PutHead \/ s # None \/ p + Head(td).get <= Len(b)
  PROVE  /\ Head(td) = PutHead => Goes(Tail(td), s, n, outf, inf)
         /\ Head(td) # PutHead =>
              /\ CopiedOf(b, s, p, Head(td)) \in Seq(Cells) /\ PosNext(s, p, Head(td)) \in Nat
              /\ Goes(Tail(td), SourceNext(s, Head(td)), LeftOver(n), outf, inf)
              /\ LeftOver(n) \in Nat
<1>1. Source(s, n, outf, inf)
  BY DEF Goes
<1>2. CASE Head(td) = PutHead
  <2>1. Tail(td) = Chunks(n, outf, inf)
    BY <1>2, FirstToDo DEF HeadNext, ChunkNext
  <2> QED
    BY <1>1, <1>2, <2>1 DEF Goes
<1>3. CASE Head(td) # PutHead
  <2>1. n > 0 /\ Head(td) = Chunk(n, outf, inf) /\ Tail(td) = Chunks(LeftOver(n), outf, inf)
    <3>1. ChunkNext(td, n, outf, inf)
      BY <1>3, FirstToDo DEF HeadNext
    <3> QED
      BY <3>1 DEF ChunkNext
  <2>2. PICK c : c = Head(td)
    OBVIOUS
  <2>3. s # None \/ p + Chunk(n, outf, inf).get <= Len(b)
    BY <1>3, <2>1
  <2>4. /\ CopiedOf(b, s, p, Chunk(n, outf, inf)) \in Seq(Cells)
        /\ Source(SourceNext(s, Chunk(n, outf, inf)), LeftOver(n), outf, inf)
        /\ PosNext(s, p, Chunk(n, outf, inf)) \in Nat
    BY <1>1, <2>1, <2>3, CopiedType
  <2>5. LeftOver(n) \in Nat
    BY ChunksStep
  <2> QED
    BY <1>3, <2>1, <2>4, <2>5 DEF Goes
<1> QED
  BY <1>2, <1>3

(* What is to be copied is made of cells.                                  *)
LEMMA RestType ==
  ASSUME NEW b \in Seq(Cells), NEW p \in Nat, NEW s, NEW n \in Nat, NEW inf \in Flags,
         Source(s, n, "EVEN", inf), s # None \/ p + Even(n) <= Len(b)
  PROVE  Rest(b, s, p, n) \in Seq(Cells)
<1>1. CASE s = None
  <2>1. PICK e : e = Even(n)
    OBVIOUS
  <2>2. e \in Nat
    BY <2>1, EvenIs
  <2>3. PICK q : q = p + e
    OBVIOUS
  <2>4. p + 1 \in Nat /\ p + 1 > 0 /\ q \in Nat /\ q <= Len(b) /\ p + 1 <= q + 1
    BY <1>1, <2>1, <2>2, <2>3
  <2>5. SubSeq(b, p + 1, q) \in Seq(Cells)
    BY <2>4, SubSeqType
  <2> QED
    BY <1>1, <2>1, <2>3, <2>5 DEF Rest
<1>2. CASE s # None
  <2>1. s \in Seq(Cells)
    BY <1>2 DEF Source
  <2>2. PICK z : z = (IF n % 2 = 1 THEN <<Pad>> ELSE <<>>)
    OBVIOUS
  <2>3. <<Pad>> \in Seq(Cells) /\ <<>> \in Seq(Cells)
    BY PadType
  <2>4. z \in Seq(Cells)
    BY <2>2, <2>3
  <2>5. s \o z \in Seq(Cells)
    BY <2>1, <2>4, CatIs
  <2> QED
    BY <1>2, <2>2, <2>5 DEF Rest
<1> QED
  BY <1>1, <1>2

(* The temporary file keeps up when the header or a chunk is written.      *)
LEMMA KeepsUpHead ==
  ASSUME NEW k, NEW l, NEW o, NEW h, NEW t, NEW td, NEW s, NEW p, NEW n \in Nat, NEW inf \in Flags,
         Goes(td, s, n, "EVEN", inf), td # <<>>, Head(td) = PutHead,
         KeepsUp(k, l, o, h, t, td, s, p, n, inf)
  PROVE  KeepsUp(k, l, o, h, t \o <<h>>, Tail(td), s, p, n, inf)
<1>1. "EVEN" \in Flags
  BY DEF Flags
<1>2. Tail(td) = Chunks(n, "EVEN", inf) /\ td # Chunks(n, "EVEN", inf)
  BY <1>1, FirstToDo DEF HeadNext, ChunkNext
<1>3. WithHead(td, t, h, n, inf) = t \o <<h>> /\ WithHead(Tail(td), t \o <<h>>, h, n, inf) = t \o <<h>>
  BY <1>2 DEF WithHead
<1> QED
  BY <1>3 DEF KeepsUp

(* And when a chunk is.                                                    *)
LEMMA KeepsUpChunk ==
  ASSUME NEW k, NEW l, NEW o, o.archive \in Seq(Cells), NEW h, NEW t \in Seq(Cells), NEW td, NEW s,
         NEW p \in Nat, NEW n \in Nat, NEW inf \in Flags,
         Goes(td, s, n, "EVEN", inf), td # <<>>, Head(td) # PutHead,
         KeepsUp(k, l, o, h, t, td, s, p, n, inf), NEW c, c = Head(td)
  PROVE  KeepsUp(k, l, o, h, t \o CopiedOf(o.archive, s, p, c), Tail(td), SourceNext(s, c), PosNext(s, p, c),
                 LeftOver(n), inf)
<1>1. "EVEN" \in Flags /\ None \notin Seq(Cells)
  BY NoneIs DEF Flags
<1>2. PICK b \in Seq(Cells) : b = o.archive
  OBVIOUS
<1>3. Source(s, n, "EVEN", inf) /\ (s # None \/ p + Even(n) <= Len(b))
  BY <1>2 DEF Goes, KeepsUp
<1>4. /\ n > 0 /\ td = Chunks(n, "EVEN", inf) /\ c = Chunk(n, "EVEN", inf)
      /\ Tail(td) = Chunks(LeftOver(n), "EVEN", inf)
  <2>1. ChunkNext(td, n, "EVEN", inf)
    BY <1>1, FirstToDo DEF HeadNext
  <2> QED
    BY <2>1 DEF ChunkNext
<1>5. PICK m, w, s2, p2 : m = LeftOver(n) /\ w = CopiedOf(b, s, p, c) /\ s2 = SourceNext(s, c) /\ p2 = PosNext(s, p, c)
  OBVIOUS
<1>6. /\ s # None \/ p + c.get <= Len(b)
      /\ Rest(b, s, p, n) = w \o Rest(b, s2, p2, m)
      /\ Stop(s2, p2, m) = Stop(s, p, n)
  <2>1. LET d == Chunk(n, "EVEN", inf) IN
         /\ s # None \/ p + d.get <= Len(b)
         /\ Rest(b, s, p, n)
              = CopiedOf(b, s, p, d) \o Rest(b, SourceNext(s, d), PosNext(s, p, d), LeftOver(n))
         /\ Stop(SourceNext(s, d), PosNext(s, p, d), LeftOver(n)) = Stop(s, p, n)
    BY <1>3, <1>4, CopiedRest, Zenon
  <2> QED
    BY <1>4, <1>5, <2>1
<1>7. w \in Seq(Cells) /\ Source(s2, m, "EVEN", inf) /\ p2 \in Nat /\ m \in Nat
  <2>1. s # None \/ p + Chunk(n, "EVEN", inf).get <= Len(b)
    BY <1>4, <1>6
  <2>2. /\ CopiedOf(b, s, p, Chunk(n, "EVEN", inf)) \in Seq(Cells)
        /\ Source(SourceNext(s, Chunk(n, "EVEN", inf)), LeftOver(n), "EVEN", inf)
        /\ PosNext(s, p, Chunk(n, "EVEN", inf)) \in Nat
    BY <1>1, <1>3, <1>4, <2>1, CopiedType
  <2>3. LeftOver(n) \in Nat
    BY <1>1, ChunksStep
  <2> QED
    BY <1>4, <1>5, <2>2, <2>3
<1>8. s2 # None \/ p2 + Even(m) <= Len(b)
  <2>1. CASE s = None
    <3>1. s2 = None
      BY <1>5, <2>1 DEF SourceNext
    <3>2. p2 + Even(m) = p + Even(n)
      BY <1>6, <2>1, <3>1 DEF Stop
    <3> QED
      BY <1>3, <2>1, <3>2
  <2>2. CASE s # None
    <3>1. inf = "ODD"
      BY <1>3, <2>2 DEF Source
    <3>2. s2 \in Seq(Cells)
      BY <1>7, <3>1 DEF Source
    <3> QED
      BY <1>1, <3>2
  <2> QED
    BY <2>1, <2>2
<1>9. PICK r : r = Rest(b, s2, p2, m)
  OBVIOUS
<1>10. r \in Seq(Cells)
  BY <1>7, <1>8, <1>9, RestType
<1>11. WithHead(td, t, h, n, inf) = t /\ WithHead(Tail(td), t \o w, h, m, inf) = t \o w
  BY <1>4, <1>5 DEF WithHead
<1>12. InStepAt(k, l, o, t \o (w \o r), Stop(s2, p2, m))
  BY <1>2, <1>6, <1>9, <1>11 DEF KeepsUp
<1>13. (t \o w) \o r = t \o (w \o r)
  BY <1>7, <1>10, CatAssoc, Zenon
<1>14. InStepAt(k, l, o, WithHead(Tail(td), t \o w, h, m, inf) \o Rest(o.archive, s2, p2, m), Stop(s2, p2, m))
  BY <1>2, <1>9, <1>11, <1>12, <1>13
<1>15. KeepsUp(k, l, o, h, t \o w, Tail(td), s2, p2, m, inf)
  BY <1>2, <1>8, <1>14 DEF KeepsUp
<1> QED
  BY <1>2, <1>5, <1>15

(* Where a write of copy() goes, by the command.                           *)
LEMMA WrittenIs ==
  ASSUME Inv, pc = "copy", NEW w \in Seq(Cells), Written(w)
  PROVE  /\ archive' \in Contents /\ tmp' \in Contents /\ files' \in [Paths -> Contents]
         /\ archive' # None /\ (tmp # None => tmp' # None)
         /\ key = "q" => /\ archive' \in Seq(Cells) /\ files' = files
                         /\ ~unread => old.archive = None \/ Begins(old.archive, archive')
         /\ key # "q" => archive' = archive
         /\ key \in Updates => tmp' = tmp \o w /\ files' = files
         /\ key = "x" => files'[out] # None
         /\ key \in Updates \cup {"q", "x"}
<1>1. /\ key \in {"d", "q", "r", "t", "x"} /\ archive \in Contents /\ tmp \in Contents
      /\ files \in [Paths -> Contents] /\ old.archive \in Contents
  BY DEF Inv, TypeInv
<1>2. /\ key # "t" /\ (key = "q" => out = "ar") /\ (key \in Updates => out = "tmp")
      /\ (key = "x" => out \in Paths /\ files[out] # None)
  BY DEF Inv, CopyInv
<1>3. archive # None /\ archive \in Seq(Cells) /\ (key \in Updates => tmp # None /\ tmp \in Seq(Cells))
  BY <1>1, NoneIs DEF Inv, PlaceInv
<1>4. CASE key = "q"
  <2>1. archive' = archive \o w /\ tmp' = tmp /\ files' = files
    BY <1>2, <1>4 DEF Written
  <2>2. archive' \in Seq(Cells) /\ Begins(archive, archive')
    BY <1>3, <2>1, CatBegins
  <2>3. ~unread => old.archive = None \/ Begins(old.archive, archive)
    BY <1>4 DEF Inv, DiskInv
  <2>4. ~unread => old.archive = None \/ Begins(old.archive, archive')
    <3>1. CASE Begins(old.archive, archive) /\ old.archive # None
      <4>1. old.archive \in Seq(Cells)
        BY <1>1, <3>1
      <4> QED
        BY <1>3, <2>2, <3>1, <4>1, BeginsOn
    <3> QED
      BY <2>3, <3>1
  <2>5. archive' # None
    BY <2>2, NoneIs
  <2> QED
    BY <1>1, <1>4, <2>1, <2>2, <2>4, <2>5 DEF Updates
<1>5. CASE key \in Updates
  <2>1. archive' = archive /\ tmp' = tmp \o w /\ files' = files
    BY <1>2, <1>5 DEF Written
  <2>2. tmp' \in Seq(Cells)
    BY <1>3, <1>5, <2>1, CatBegins
  <2>3. tmp' # None
    BY <2>2, NoneIs
  <2> QED
    BY <1>1, <1>3, <1>5, <2>1, <2>2, <2>3 DEF Updates
<1>6. CASE key = "x"
  <2>1. out # "ar" /\ out # "tmp" /\ out \in Paths /\ files[out] \in Seq(Cells)
    BY <1>1, <1>2, <1>6, ArAssumption
  <2>2. archive' = archive /\ tmp' = tmp /\ files' = [files EXCEPT ![out] = @ \o w]
    BY <2>1 DEF Written
  <2>3. PICK p, d : p = out /\ d = files[out] \o w
    OBVIOUS
  <2>4. files[out] \o w \in Seq(Cells)
    BY <2>1, CatIs
  <2>5. d \in Contents /\ d # None /\ p \in Paths
    BY <2>1, <2>3, <2>4, NoneIs
  <2>6. files' = [files EXCEPT ![p] = d]
    BY <2>2, <2>3
  <2>7. files' \in [Paths -> Contents] /\ files'[p] # None
    BY <1>1, <2>5, <2>6
  <2> QED
    BY <1>1, <1>3, <1>6, <2>2, <2>3, <2>7 DEF Updates
<1> QED
  BY <1>1, <1>2, <1>4, <1>5, <1>6 DEF Updates

(* What copy() has read, and where it goes on.                             *)
LEMMA CopiedIs ==
  ASSUME Inv, pc = "copy", todo # <<>>, ReadOK(Head(todo))
  PROVE  /\ Head(todo) = PutHead => Copied(Head(todo)) = <<head>>
         /\ Head(todo) # PutHead => /\ Copied(Head(todo)) = CopiedOf(archive, src, pos, Head(todo))
                                    /\ src # None \/ pos + Head(todo).get <= Len(archive)
         /\ Copied(Head(todo)) \in Seq(Cells)
<1>1. PICK c : c = Head(todo)
  OBVIOUS
<1>2. /\ c = PutHead => Copied(c) = <<head>>
      /\ c # PutHead => /\ Copied(c) = CopiedOf(archive, src, pos, c)
                        /\ src # None \/ pos + c.get <= Len(archive)
  <2>1. c = PutHead => Copied(c) = <<head>>
    BY DEF Copied
  <2>2. c # PutHead => Copied(c) = CopiedOf(archive, src, pos, c)
    BY DEF Copied, CopiedOf
  <2>3. c # PutHead => src # None \/ pos + c.get <= Len(archive)
    BY <1>1 DEF ReadOK
  <2> QED
    BY <2>1, <2>2, <2>3
<1>3. PICK n \in Nat, outf \in Flags, inf \in Flags : Goes(todo, src, n, outf, inf)
  BY DEF Inv, CopyInv
<1>4. archive \in Seq(Cells) /\ pos \in Nat /\ head \in Cells
  <2>1. archive \in Contents /\ archive # None /\ pos \in Nat /\ head \in Heads
    BY DEF Inv, TypeInv, PlaceInv
  <2> QED
    BY <2>1, NoneIs, PadType
<1>5. Copied(c) \in Seq(Cells)
  <2>1. CASE c = PutHead
    <3>1. <<head>> \in Seq(Cells)
      BY <1>4
    <3> QED
      BY <1>2, <2>1, <3>1
  <2>2. CASE c # PutHead
    <3>1. PICK s, p, b, t : s = src /\ p = pos /\ b = archive /\ t = todo
      OBVIOUS
    <3>2. /\ b \in Seq(Cells) /\ p \in Nat /\ Goes(t, s, n, outf, inf) /\ t # <<>> /\ Head(t) # PutHead
          /\ (Head(t) = PutHead \/ s # None \/ p + Head(t).get <= Len(b))
      BY <1>1, <1>2, <1>3, <1>4, <2>2, <3>1
    <3>3. CopiedOf(b, s, p, Head(t)) \in Seq(Cells)
      BY <3>2, GoesOn
    <3> QED
      BY <1>1, <1>2, <2>2, <3>1, <3>3
  <2> QED
    BY <2>1, <2>2
<1> QED
  BY <1>1, <1>2, <1>5

(* CopyChunk: one write of copy().                                         *)
LEMMA CopyChunkInv == ASSUME Inv, CopyChunk PROVE Inv'
<1>1. /\ pc = "copy" /\ todo # <<>> /\ ReadOK(Head(todo)) /\ Written(Copied(Head(todo)))
      /\ Advance(Head(todo)) /\ UNCHANGED <<pc, key, list, head, out, ret, old, unread>>
  BY DEF CopyChunk
<1>2. PICK c, w : c = Head(todo) /\ w = Copied(Head(todo))
  OBVIOUS
<1>3. /\ c = PutHead => w = <<head>>
      /\ c # PutHead => w = CopiedOf(archive, src, pos, c) /\ (src # None \/ pos + c.get <= Len(archive))
      /\ w \in Seq(Cells) /\ Written(w)
  <2>1. /\ Head(todo) = PutHead => Copied(Head(todo)) = <<head>>
        /\ Head(todo) # PutHead => /\ Copied(Head(todo)) = CopiedOf(archive, src, pos, Head(todo))
                                   /\ src # None \/ pos + Head(todo).get <= Len(archive)
        /\ Copied(Head(todo)) \in Seq(Cells)
    BY <1>1, CopiedIs
  <2>2. Written(Copied(Head(todo)))
    BY <1>1
  <2>3. Written(w)
    BY <1>2, <2>2 DEF Written
  <2> QED
    BY <1>2, <2>1, <2>3
<1>4. /\ archive' \in Contents /\ tmp' \in Contents /\ files' \in [Paths -> Contents]
      /\ archive' # None /\ (tmp # None => tmp' # None)
      /\ key = "q" => /\ archive' \in Seq(Cells) /\ files' = files
                      /\ ~unread => old.archive = None \/ Begins(old.archive, archive')
      /\ key # "q" => archive' = archive
      /\ key \in Updates => tmp' = tmp \o w /\ files' = files
      /\ key = "x" => files'[out] # None
      /\ key \in Updates \cup {"q", "x"}
  BY <1>1, <1>3, WrittenIs
<1>5. archive \in Seq(Cells) /\ pos \in Nat /\ head \in Heads
  BY <1>1, NoneIs DEF Inv, TypeInv, PlaceInv
<1>6. /\ todo' = Tail(todo)
      /\ c = PutHead => src' = src /\ pos' = pos
      /\ c # PutHead => src' = SourceNext(src, c) /\ pos' = PosNext(src, pos, c)
  <2>1. Advance(c)
    BY <1>1, <1>2 DEF Advance
  <2>2. c = PutHead => src' = src /\ pos' = pos
    <3>1. SUFFICES ASSUME c = PutHead PROVE src' = src /\ pos' = pos
      OBVIOUS
    <3>2. c.get = 0
      BY <3>1 DEF PutHead
    <3>3. pos' = IF src = None THEN pos + 0 ELSE pos
      BY <2>1, <3>2 DEF Advance
    <3> QED
      BY <1>5, <2>1, <3>1, <3>3 DEF Advance
  <2>3. c # PutHead => src' = SourceNext(src, c) /\ pos' = PosNext(src, pos, c)
    BY <2>1 DEF Advance, SourceNext, PosNext
  <2> QED
    BY <2>1, <2>2, <2>3 DEF Advance
(* One step of a copy that goes, whichever its length and flags are.       *)
<1>7. ASSUME NEW n \in Nat, NEW outf \in Flags, NEW inf \in Flags, Goes(todo, src, n, outf, inf)
      PROVE  /\ c = PutHead => Goes(todo', src', n, outf, inf)
             /\ c # PutHead => Goes(todo', src', LeftOver(n), outf, inf) /\ LeftOver(n) \in Nat /\ pos' \in Nat
  <2>1. PICK s, p, b, t : s = src /\ p = pos /\ b = archive /\ t = todo
    OBVIOUS
  <2>2. /\ b \in Seq(Cells) /\ p \in Nat /\ Goes(t, s, n, outf, inf) /\ t # <<>>
        /\ (Head(t) = PutHead \/ s # None \/ p + Head(t).get <= Len(b))
    BY <1>1, <1>2, <1>3, <1>5, <1>7, <2>1
  <2>3. /\ Head(t) = PutHead => Goes(Tail(t), s, n, outf, inf)
        /\ Head(t) # PutHead => /\ PosNext(s, p, Head(t)) \in Nat /\ LeftOver(n) \in Nat
                                /\ Goes(Tail(t), SourceNext(s, Head(t)), LeftOver(n), outf, inf)
    BY <2>2, GoesOn
  <2> QED
    BY <1>2, <1>6, <2>1, <2>3
<1>8. PICK n \in Nat, outf \in Flags, inf \in Flags : Goes(todo, src, n, outf, inf)
  BY <1>1 DEF Inv, CopyInv
<1>9. pos' \in Nat /\ \E m \in Nat : Goes(todo', src', m, outf, inf)
  BY <1>5, <1>6, <1>7, <1>8
<1>10. TypeInv'
  BY <1>1, <1>4, <1>9 DEF Inv, TypeInv
<1>11. PlaceInv'
  BY <1>1, <1>4 DEF Inv, PlaceInv, Updates
<1>12. CopyInv'
  <2>1. \E m \in Nat, outg \in Flags, ing \in Flags : Goes(todo', src', m, outg, ing)
    BY <1>9
  <2>2. UNCHANGED <<pc, key, out, ret>>
    BY <1>1
  <2>3. /\ ret \in {"loop", "append"} /\ key # "t" /\ (ret = "append" => key \in {"q", "r"})
        /\ (key = "q" => out = "ar" /\ ret = "append") /\ (key \in Updates => out = "tmp")
        /\ (key = "x" => out \in Paths /\ ret = "loop")
    BY <1>1 DEF Inv, CopyInv
  <2> QED
    BY <1>4, <2>1, <2>2, <2>3 DEF CopyInv
<1>13. DiskInv'
  BY <1>1, <1>4 DEF Inv, DiskInv, Updates
<1>14. TmpInv'
  <2>1. SUFFICES ASSUME key \in Updates, ~unread
                 PROVE  \/ Holds(key, list, old, tmp')
                        \/ /\ ret = "loop"
                           /\ \E m \in Nat, inf2 \in Flags :
                                /\ Goes(todo', src', m, "EVEN", inf2)
                                /\ KeepsUp(key, list, old, head, tmp', todo', src', pos', m, inf2)
    BY <1>1 DEF TmpInv
  <2>2. tmp \in Seq(Cells) /\ tmp' = tmp \o w /\ old.archive = archive
    BY <1>1, <1>4, <2>1, NoneIs DEF Inv, TypeInv, PlaceInv, DiskInv
  <2>3. CASE Holds(key, list, old, tmp)
    <3>1. tmp' \in Seq(Cells) /\ Begins(tmp, tmp')
      BY <1>3, <2>2, CatBegins
    <3>2. old.archive \in Seq(Cells) \cup {None}
      BY DEF Inv, TypeInv
    <3>3. Holds(key, list, old, tmp')
      BY <2>2, <2>3, <3>1, <3>2, HoldsLonger
    <3> QED
      BY <3>3
  <2>4. CASE ~ Holds(key, list, old, tmp)
    <3>1. ret = "loop"
      BY <1>1, <2>1, <2>4 DEF Inv, TmpInv
    <3>2. PICK m \in Nat, f \in Flags : /\ Goes(todo, src, m, "EVEN", f)
                                        /\ KeepsUp(key, list, old, head, tmp, todo, src, pos, m, f)
      BY <1>1, <2>1, <2>4 DEF Inv, TmpInv
    <3>3. "EVEN" \in Flags
      BY DEF Flags
    <3>4. PICK s, p, td, h, t, o, k, l : /\ s = src /\ p = pos /\ td = todo /\ h = head /\ t = tmp /\ o = old
                                         /\ k = key /\ l = list
      OBVIOUS
    <3>5. /\ o.archive \in Seq(Cells) /\ t \in Seq(Cells) /\ p \in Nat /\ Goes(td, s, m, "EVEN", f) /\ td # <<>>
          /\ KeepsUp(k, l, o, h, t, td, s, p, m, f) /\ c = Head(td)
      BY <1>1, <1>2, <1>5, <2>2, <3>2, <3>4
    <3>6. CASE c = PutHead
      <4>1. KeepsUp(k, l, o, h, t \o <<h>>, Tail(td), s, p, m, f)
        BY <3>5, <3>6, KeepsUpHead
      <4>2. KeepsUp(key, list, old, head, tmp', todo', src', pos', m, f)
        BY <1>3, <1>6, <2>2, <3>4, <3>6, <4>1
      <4>3. Goes(todo', src', m, "EVEN", f)
        BY <1>7, <3>2, <3>3, <3>6
      <4> QED
        BY <3>1, <4>2, <4>3
    <3>7. CASE c # PutHead
      <4>1. KeepsUp(k, l, o, h, t \o CopiedOf(o.archive, s, p, c), Tail(td), SourceNext(s, c), PosNext(s, p, c),
                    LeftOver(m), f)
        BY <3>5, <3>7, KeepsUpChunk
      <4>2. KeepsUp(key, list, old, head, tmp', todo', src', pos', LeftOver(m), f)
        BY <1>3, <1>6, <2>2, <3>4, <3>7, <4>1
      <4>3. Goes(todo', src', LeftOver(m), "EVEN", f) /\ LeftOver(m) \in Nat
        BY <1>7, <3>2, <3>3, <3>7
      <4> QED
        BY <3>1, <4>2, <4>3
    <3> QED
      BY <3>6, <3>7
  <2> QED
    BY <2>3, <2>4
<1> QED
  BY <1>10, <1>11, <1>12, <1>13, <1>14 DEF Inv

(* A part of a write is a write of something.                              *)
LEMMA PartlyIs ==
  ASSUME NEW cells \in Seq(Cells), Partly(cells)
  PROVE  \E w \in Seq(Cells) : Written(w)
<1>1. PICK k \in 0 .. Len(cells) - 1 :
        Written(IF cells = <<head>> THEN (IF k = 0 THEN <<Junk>> ELSE <<>>) ELSE SubSeq(cells, 1, k))
  BY DEF Partly
<1>2. PICK w : w = IF cells = <<head>> THEN (IF k = 0 THEN <<Junk>> ELSE <<>>) ELSE SubSeq(cells, 1, k)
  OBVIOUS
<1>3. w \in Seq(Cells)
  <2>1. <<Junk>> \in Seq(Cells) /\ <<>> \in Seq(Cells)
    BY PadType
  <2>2. k \in Nat /\ k <= Len(cells)
    OBVIOUS
  <2>3. SubSeq(cells, 1, k) \in Seq(Cells)
    BY <2>2, PrefixIs
  <2> QED
    BY <1>2, <2>1, <2>3
<1>4. Written(w)
  BY <1>1, <1>2 DEF Written
<1> QED
  BY <1>3, <1>4

(* WriteFails: for d, r, t and x the archive is what it was, for q it      *)
(* begins with it, and while it is written again the temporary file has it *)
(* all.                                                                    *)
LEMMA WriteFailsInv == ASSUME Inv, WriteFails PROVE Inv'
<1>1. /\ pc' = "idle" /\ UNCHANGED <<key, list, pos, head, old, unread>>
      /\ \/ pc = "settmp" /\ tmp' = <<>> /\ UNCHANGED <<archive, files>>
         \/ pc = "openq" /\ archive = None /\ archive' = <<>> /\ UNCHANGED <<tmp, files>>
         \/ pc = "copy" /\ todo # <<>> /\ ReadOK(Head(todo)) /\ Partly(Copied(Head(todo)))
         \/ /\ pc = "recopy" /\ UNCHANGED <<tmp, files>>
            /\ \E k \in 0 .. Len(Block) - 1 : archive' = archive \o SubSeq(Block, 1, k)
  BY DEF WriteFails, Errex
<1>2. archive \in Contents /\ tmp \in Contents /\ files \in [Paths -> Contents] /\ old.archive \in Contents
  BY DEF Inv, TypeInv
<1>3. <<>> \in Seq(Cells)
  OBVIOUS
<1>4. old.archive \in Seq(Cells) \cup {None}
  BY <1>2
<1>5. archive = old.archive => Holds(key, list, old, archive)
  BY <1>4, HoldsSelf
<1>6. CASE pc = "settmp" /\ tmp' = <<>> /\ UNCHANGED <<archive, files>>
  <2>1. ~unread => archive = old.archive
    BY <1>6 DEF Inv, PlaceInv, DiskInv, Updates
  <2> QED
    BY <1>1, <1>2, <1>3, <1>5, <1>6, <2>1, GiveUpInv
<1>7. CASE pc = "openq" /\ archive = None /\ archive' = <<>> /\ UNCHANGED <<tmp, files>>
  <2>1. ~unread => old.archive = None
    BY <1>7 DEF Inv, PlaceInv, DiskInv
  <2>2. archive' \in Seq(Cells)
    BY <1>3, <1>7
  <2>3. ~unread => Holds(key, list, old, archive')
    BY <2>1, <2>2, HoldsAppended
  <2> QED
    BY <1>1, <1>2, <1>7, <2>2, <2>3, GiveUpInv
<1>8. CASE pc = "copy" /\ todo # <<>> /\ ReadOK(Head(todo)) /\ Partly(Copied(Head(todo)))
  <2>1. PICK cells : cells = Copied(Head(todo))
    OBVIOUS
  <2>2. cells \in Seq(Cells)
    BY <1>8, <2>1, CopiedIs
  <2>3. Partly(cells)
    BY <1>8, <2>1 DEF Partly, Written
  <2>4. PICK w \in Seq(Cells) : Written(w)
    BY <2>2, <2>3, PartlyIs
  <2>5. /\ archive' \in Contents /\ tmp' \in Contents /\ files' \in [Paths -> Contents]
        /\ key = "q" => /\ archive' \in Seq(Cells)
                        /\ ~unread => old.archive = None \/ Begins(old.archive, archive')
        /\ key # "q" => archive' = archive
        /\ key \in Updates \cup {"q", "x"}
    BY <1>8, <2>4, WrittenIs
  <2>6. ~unread => Holds(key, list, old, archive')
    <3> SUFFICES ASSUME ~unread PROVE Holds(key, list, old, archive')
      OBVIOUS
    <3>1. CASE key = "q"
      BY <2>5, <3>1, HoldsAppended
    <3>2. CASE key \in Updates \cup {"x"}
      <4>1. archive = old.archive /\ archive' = archive
        BY <1>8, <2>5, <3>2 DEF Inv, DiskInv, Updates
      <4> QED
        BY <1>5, <4>1
    <3> QED
      BY <2>5, <3>1, <3>2
  <2> QED
    BY <1>1, <2>5, <2>6, GiveUpInv
<1>9. CASE /\ pc = "recopy" /\ UNCHANGED <<tmp, files>>
           /\ \E k \in 0 .. Len(Block) - 1 : archive' = archive \o SubSeq(Block, 1, k)
  <2>1. PICK k \in 0 .. Len(Block) - 1 : archive' = archive \o SubSeq(Block, 1, k)
    BY <1>9
  <2>2. archive \in Seq(Cells) /\ tmp \in Seq(Cells) /\ (~unread => Holds(key, list, old, tmp)) /\ pos \in Nat /\ pos <= Len(tmp)
    BY <1>9, NoneIs DEF Inv, TypeInv, PlaceInv, TmpInv, DiskInv
  <2>3. Block \in Seq(Cells)
    <3>1. PICK j : j = IF pos + BLK > Len(tmp) THEN Len(tmp) ELSE pos + BLK
      OBVIOUS
    <3>2. j \in Nat /\ pos <= j /\ j <= Len(tmp)
      BY <2>2, <3>1, ArAssumption
    <3>3. pos + 1 \in Nat /\ pos + 1 > 0 /\ pos + 1 <= j + 1
      BY <2>2, <3>2
    <3>4. SubSeq(tmp, pos + 1, j) \in Seq(Cells)
      BY <2>2, <3>2, <3>3, SubSeqType
    <3> QED
      BY <3>1, <3>4 DEF Block
  <2>4. PICK b : b = Block
    OBVIOUS
  <2>5. b \in Seq(Cells) /\ k \in Nat /\ k <= Len(b)
    BY <2>3, <2>4
  <2>6. SubSeq(b, 1, k) \in Seq(Cells)
    BY <2>5, PrefixIs
  <2>7. archive' \in Seq(Cells)
    BY <2>1, <2>2, <2>4, <2>6, CatIs
  <2> QED
    BY <1>1, <1>2, <1>9, <2>2, <2>7, GiveUpInv
<1> QED
  BY <1>1, <1>6, <1>7, <1>8, <1>9

(* ReadFails: where d and r do not see it, no more is claimed of the disk  *)
(* until the next command; for t and x the archive is what it was.         *)
LEMMA ReadFailsInv == ASSUME Inv, ReadFails PROVE Inv'
<1>1. /\ UNCHANGED <<archive, tmp, files, key, list, head, old>>
      /\ \/ pc = "loop" /\ LeaveLoop /\ unread' = (unread \/ key \in {"d", "r"}) /\ pos' = pos
         \/ pc = "recopy" /\ pc' = "end" /\ unread' = TRUE /\ pos' = pos
         \/ /\ pc = "open" /\ archive # None /\ pc' = "loop" /\ pos' = 0
            /\ unread' = (unread \/ key \in {"d", "r"})
         \/ pc = "openq" /\ archive # None /\ pc' = "append" /\ pos' = pos /\ unread' = unread
         \/ pc' = "idle" /\ pos' = pos /\ unread' = unread
  BY DEF ReadFails, Errex, disk
<1>2. /\ key \in {"d", "q", "r", "t", "x"} /\ (pc \in {"open", "loop"} => key # "q")
      /\ (pc = "openq" => key = "q")
  BY DEF Inv, TypeInv, PlaceInv
<1>3. CASE pc = "loop" /\ LeaveLoop /\ unread' = (unread \/ key \in {"d", "r"}) /\ pos' = pos
  <2>1. \/ key \in {"t", "x"} /\ pc' = "end" /\ (~unread' => ~unread)
        \/ unread' /\ key = "r" /\ pc' = "append"
        \/ unread' /\ key \in Updates /\ pc' = "recreate"
    BY <1>2, <1>3 DEF LeaveLoop, Updates
  <2>2. TypeInv'
    BY <1>1, <1>3, <2>1 DEF Inv, TypeInv
  <2>3. PlaceInv' /\ CopyInv'
    BY <1>1, <1>3, <2>1 DEF Inv, PlaceInv, CopyInv, Updates
  <2>4. DiskInv' /\ TmpInv'
    BY <1>1, <1>3, <2>1 DEF Inv, DiskInv, TmpInv, Updates
  <2> QED
    BY <2>2, <2>3, <2>4 DEF Inv
<1>4. CASE pc = "recopy" /\ pc' = "end" /\ unread' = TRUE /\ pos' = pos
  <2>1. TypeInv'
    BY <1>1, <1>4 DEF Inv, TypeInv
  <2>2. PlaceInv' /\ CopyInv' /\ DiskInv' /\ TmpInv'
    BY <1>4 DEF PlaceInv, CopyInv, DiskInv, TmpInv
  <2> QED
    BY <2>1, <2>2 DEF Inv
<1>5. CASE /\ pc = "open" /\ archive # None /\ pc' = "loop" /\ pos' = 0
           /\ unread' = (unread \/ key \in {"d", "r"})
  <2>1. (key \in {"t", "x"} /\ (~unread' => ~unread)) \/ (unread' /\ key \in Updates)
    BY <1>2, <1>5 DEF Updates
  <2>2. TypeInv'
    BY <1>1, <1>5 DEF Inv, TypeInv
  <2>3. <<Magic>> # None
    <3>1. <<Magic>> \in Seq(Cells)
      BY PadType
    <3> QED
      BY <3>1, NoneIs
  <2>4. PlaceInv' /\ CopyInv'
    BY <1>1, <1>2, <1>5, <2>3 DEF Inv, PlaceInv, CopyInv, Updates
  <2>5. DiskInv' /\ TmpInv'
    BY <1>1, <1>5, <2>1 DEF Inv, DiskInv, TmpInv, Updates
  <2> QED
    BY <2>2, <2>4, <2>5 DEF Inv
<1>6. CASE pc = "openq" /\ archive # None /\ pc' = "append" /\ pos' = pos /\ unread' = unread
  <2>1. TypeInv'
    BY <1>1, <1>6 DEF Inv, TypeInv
  <2>2. PlaceInv' /\ CopyInv' /\ TmpInv'
    BY <1>1, <1>2, <1>6 DEF PlaceInv, CopyInv, TmpInv, Updates
  <2>3. DiskInv'
    BY <1>1, <1>2, <1>6 DEF Inv, DiskInv, Updates
  <2> QED
    BY <2>1, <2>2, <2>3 DEF Inv
<1>7. CASE pc' = "idle" /\ pos' = pos /\ unread' = unread
  BY <1>1, <1>7, StopInv
<1> QED
  BY <1>1, <1>3, <1>4, <1>5, <1>6, <1>7

(* Every step of ar8k keeps the invariant.                                 *)
LEMMA NextInv == ASSUME Inv, [Next]_vars PROVE Inv'
<1>1. CASE Command BY <1>1, CommandInv
<1>2. CASE SetTmp BY <1>2, SetTmpInv
<1>3. CASE OpenArchive BY <1>3, OpenArchiveInv
<1>4. CASE OpenNoArchive BY <1>4, OpenNoArchiveInv
<1>5. CASE OpenToAppend BY <1>5, OpenToAppendInv
<1>6. CASE ReadHead BY <1>6, ReadHeadInv
<1>7. CASE EndLoop BY <1>7, EndLoopInv
<1>8. CASE Delete BY <1>8, DeleteInv
<1>9. CASE Replace BY <1>9, ReplaceInv
<1>10. CASE Table BY <1>10, TableInv
<1>11. CASE Extract BY <1>11, ExtractInv
<1>12. CASE AppendFile BY <1>12, AppendFileInv
<1>13. CASE CopyChunk BY <1>13, CopyChunkInv
<1>14. CASE BadRead BY <1>14, BadReadInv
<1>15. CASE EndCopy BY <1>15, EndCopyInv
<1>16. CASE Recreate BY <1>16, RecreateInv
<1>17. CASE Recopy BY <1>17, RecopyInv
<1>18. CASE Finish BY <1>18, FinishInv
<1>19. CASE WriteFails BY <1>19, WriteFailsInv
<1>20. CASE Dies BY <1>20, DiesInv
<1>22. CASE ReadFails BY <1>22, ReadFailsInv
<1>21. CASE UNCHANGED vars
  <2>1. /\ UNCHANGED <<archive, tmp, files, pc, key, list, pos, head, todo, src, out, ret, old, unread>>
    BY <1>21 DEF vars, disk, copyvars
  <2>2. TypeInv' /\ PlaceInv'
    BY <2>1 DEF Inv, TypeInv, PlaceInv
  <2>3. CopyInv'
    BY <2>1 DEF Inv, CopyInv
  <2>4. DiskInv' /\ TmpInv'
    BY <2>1 DEF Inv, DiskInv, TmpInv
  <2> QED
    BY <2>2, <2>3, <2>4 DEF Inv
<1> QED
  BY <1>1, <1>2, <1>3, <1>4, <1>5, <1>6, <1>7, <1>8, <1>9, <1>10, <1>11, <1>12, <1>13, <1>14, <1>15,
     <1>16, <1>17, <1>18, <1>19, <1>20, <1>21, <1>22 DEF Next, Done

(* The invariant holds whatever is in the files, whatever the commands,    *)
(* and wherever a read or a write fails or ar8k dies.                      *)
THEOREM ArInvariant == Spec => []Inv
<1> QED
  BY InitInv, NextInv, PTL DEF Spec

(* Whatever write or creat fails and whenever ar8k dies, archive or        *)
(* ar8kxxxx.tmp has every member that the command was not to delete, in    *)
(* order, those that r replaces in their old or their new form (main(),    *)
(* copy(), append()); so it is when a read fails, but for d and r that     *)
(* take it for the end of a file or for the magic word (unread).           *)
THEOREM NothingIsLost == Spec => []NothingLost
<1>1. Inv => NothingLost
  BY InvHolds, KeepsIs DEF NothingLost, Holds
<1> QED
  BY <1>1, ArInvariant, PTL
=============================================================================
