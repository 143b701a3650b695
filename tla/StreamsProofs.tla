--------------------------- MODULE StreamsProofs ---------------------------
(***************************************************************************)
(* Streams own their channels: the proof of StreamsOwnChannels of Streams, *)
(* for any numbers of streams and channels, any size of the buffers, and   *)
(* for programs that run into the defects named by Traps as well.          *)
(*                                                                         *)
(* The invariant is stated of a disk and the streams, Owned(d, io), and    *)
(* not of the variables, since freopen() closes and opens in one step.     *)
(***************************************************************************)
EXTENDS Streams, InductionLemmas, TLAPS

ChannelFields == {"used", "flags", "file", "pos"}
StreamFields == {"fd", "flag", "base", "ptr", "cnt", "buf"}

(* A disk as the operators of Streams take and give it; a channel that is  *)
(* open is not free.                                                       *)
Shaped(d) ==
  /\ DOMAIN d = {"files", "chan"} /\ DOMAIN d.chan = Channels
  /\ \A c \in Channels : DOMAIN d.chan[c] = ChannelFields
  /\ \A c \in Channels : "OPENED" \in d.chan[c].flags => d.chan[c].used

(* Nobody has opened or closed a channel between the disks d and e.        *)
SameMode(a, b) ==
  /\ a.used = b.used
  /\ "OPENED" \in a.flags <=> "OPENED" \in b.flags
  /\ "ISREAD" \in a.flags <=> "ISREAD" \in b.flags
Keeps(d, e) == Shaped(e) /\ \A c \in Channels : SameMode(e.chan[c], d.chan[c])

(* Channel x has been closed.                                              *)
Closes(d, e, x) ==
  /\ Shaped(e) /\ ~IsOpen(e, x)
  /\ \A c \in Channels \ {x} : SameMode(e.chan[c], d.chan[c])

(* Channel x, which was free, has been opened.                             *)
Opens(d, e, x, read) ==
  /\ Shaped(e) /\ x \in Channels /\ ~d.chan[x].used /\ e.chan[x].used
  /\ "OPENED" \in e.chan[x].flags /\ ("ISREAD" \in e.chan[x].flags <=> read)
  /\ \A c \in Channels \ {x} : SameMode(e.chan[c], d.chan[c])

(* Nothing has been opened, but a channel may have been lost: _creat()     *)
(* keeps the one it took when the system refuses.                          *)
OpensNone(d, e) ==
  /\ Shaped(e)
  /\ \A c \in Channels : \/ SameMode(e.chan[c], d.chan[c])
                         \/ ~d.chan[c].used /\ "OPENED" \notin e.chan[c].flags

Wellformed(io) ==
  /\ DOMAIN io = Slots
  /\ \A s \in Slots : DOMAIN io[s] = StreamFields /\ ~({"READ", "WRT"} \subseteq io[s].flag)

(* The invariant.                                                          *)
Owned(d, io) ==
  /\ Shaped(d) /\ Wellformed(io)
  /\ \A s \in Slots : InUse(io[s]) =>
       /\ IsOpen(d, io[s].fd)
       /\ "ISREAD" \in d.chan[io[s].fd].flags <=> "READ" \in io[s].flag
       /\ \A t \in Slots \ {s} : InUse(io[t]) => io[t].fd /= io[s].fd
  /\ \A c \in Channels : IsOpen(d, c) => \E s \in Slots : InUse(io[s]) /\ io[s].fd = c
-----------------------------------------------------------------------------
(* The operators on channels.                                              *)

(* Any disk keeps what it has.                                             *)
LEMMA KeepsSelf == ASSUME NEW d, Shaped(d) PROVE Keeps(d, d)
BY DEF Keeps, SameMode

(* What two steps keep, both together keep.                                *)
LEMMA KeepsAlso ==
  ASSUME NEW d, NEW e, NEW f, Keeps(d, e), Keeps(e, f)
  PROVE  Keeps(d, f)
BY DEF Keeps, SameMode

(* lseek() opens and closes nothing.                                       *)
LEMMA LseekKeeps ==
  ASSUME NEW d, Shaped(d), NEW fd, NEW offs, NEW sense
  PROVE  Keeps(d, Lseek(d, fd, offs, sense).disk)
<1> DEFINE L == Lseek(d, fd, offs, sense).disk
<1>1. CASE ~IsOpen(d, fd)
  <2>1. L = d
    BY <1>1 DEF Lseek
  <2> QED
    BY <2>1, KeepsSelf
<1>2. CASE IsOpen(d, fd)
  <2>1. PICK p : L = [d EXCEPT !.chan[fd].flags = @ \ {"ATEOF"}, !.chan[fd].pos = p]
    BY <1>2 DEF Lseek
  <2>2. /\ fd \in Channels /\ DOMAIN d = {"files", "chan"} /\ DOMAIN d.chan = Channels
        /\ DOMAIN d.chan[fd] = ChannelFields
    BY <1>2 DEF IsOpen, Shaped
  <2>3. /\ DOMAIN L = {"files", "chan"} /\ DOMAIN L.chan = Channels
        /\ \A x \in Channels \ {fd} : L.chan[x] = d.chan[x]
        /\ DOMAIN L.chan[fd] = ChannelFields
        /\ L.chan[fd].used = d.chan[fd].used /\ L.chan[fd].flags = d.chan[fd].flags \ {"ATEOF"}
    BY <2>1, <2>2 DEF ChannelFields
  <2>4. SameMode(L.chan[fd], d.chan[fd])
    BY <2>3 DEF SameMode
  <2> QED
    BY <2>2, <2>3, <2>4 DEF Keeps, SameMode, Shaped
<1> QED
  BY <1>1, <1>2

(* write() opens and closes nothing.                                       *)
LEMMA WriteKeeps ==
  ASSUME NEW d, Shaped(d), NEW fd, NEW s
  PROVE  Keeps(d, Write(d, fd, s).disk)
<1> DEFINE L == Write(d, fd, s).disk
<1>1. CASE ~IsOpen(d, fd) \/ "ISREAD" \in d.chan[fd].flags
  <2>1. L = d
    BY <1>1 DEF Write
  <2> QED
    BY <2>1, KeepsSelf
<1>2. CASE ~(~IsOpen(d, fd) \/ "ISREAD" \in d.chan[fd].flags)
  <2>1. PICK x, n : L = [d EXCEPT !.files[d.chan[fd].file] = x, !.chan[fd].pos = @ + n]
    BY <1>2 DEF Write
  <2>2. /\ fd \in Channels /\ DOMAIN d = {"files", "chan"} /\ DOMAIN d.chan = Channels
        /\ DOMAIN d.chan[fd] = ChannelFields
    BY <1>2 DEF IsOpen, Shaped
  <2>3. /\ DOMAIN L = {"files", "chan"} /\ DOMAIN L.chan = Channels
        /\ \A c \in Channels \ {fd} : L.chan[c] = d.chan[c]
        /\ DOMAIN L.chan[fd] = ChannelFields
        /\ L.chan[fd].used = d.chan[fd].used /\ L.chan[fd].flags = d.chan[fd].flags
    BY <2>1, <2>2 DEF ChannelFields
  <2>4. SameMode(L.chan[fd], d.chan[fd])
    BY <2>3 DEF SameMode
  <2> QED
    BY <2>2, <2>3, <2>4 DEF Keeps, SameMode, Shaped
<1> QED
  BY <1>1, <1>2

(* read() opens and closes nothing.                                        *)
LEMMA ReadKeeps ==
  ASSUME NEW d, Shaped(d), NEW fd \in Channels, NEW n, NEW behind
  PROVE  Keeps(d, Read(d, fd, n, behind).disk)
<1> DEFINE L == Read(d, fd, n, behind).disk
<1>1. CASE "ATEOF" \in d.chan[fd].flags
  <2>1. L = d
    BY <1>1 DEF Read
  <2> QED
    BY <2>1, KeepsSelf
<1>2. CASE "ATEOF" \notin d.chan[fd].flags
  <2>1. PICK x, q : L = [d EXCEPT !.chan[fd].pos = @ + x,
                                  !.chan[fd].flags = @ \cup (IF q THEN {"ATEOF"} ELSE {})]
    BY <1>2 DEF Read
  <2>2. /\ DOMAIN d = {"files", "chan"} /\ DOMAIN d.chan = Channels
        /\ DOMAIN d.chan[fd] = ChannelFields
    BY DEF Shaped
  <2>3. /\ DOMAIN L = {"files", "chan"} /\ DOMAIN L.chan = Channels
        /\ \A c \in Channels \ {fd} : L.chan[c] = d.chan[c]
        /\ DOMAIN L.chan[fd] = ChannelFields
        /\ L.chan[fd].used = d.chan[fd].used
        /\ L.chan[fd].flags = d.chan[fd].flags \cup (IF q THEN {"ATEOF"} ELSE {})
    BY <2>1, <2>2 DEF ChannelFields
  <2>4. SameMode(L.chan[fd], d.chan[fd])
    BY <2>3 DEF SameMode
  <2> QED
    BY <2>2, <2>3, <2>4 DEF Keeps, SameMode, Shaped
<1> QED
  BY <1>1, <1>2

(* close() closes its channel, if that is open, and no other.              *)
LEMMA CloseCloses ==
  ASSUME NEW d, Shaped(d), NEW fd
  PROVE  Closes(d, Close(d, fd), fd)
<1> DEFINE L == Close(d, fd)
<1>1. CASE ~IsOpen(d, fd)
  BY <1>1 DEF Close, Closes, SameMode
<1>2. CASE IsOpen(d, fd)
  <2>1. L = [d EXCEPT !.chan[fd] = ClosedChannel]
    BY <1>2 DEF Close
  <2>2. /\ fd \in Channels /\ DOMAIN d = {"files", "chan"} /\ DOMAIN d.chan = Channels
    BY <1>2 DEF IsOpen, Shaped
  <2>3. /\ DOMAIN L = {"files", "chan"} /\ L.chan = [d.chan EXCEPT ![fd] = ClosedChannel]
    BY <2>1, <2>2
  <2>4. DOMAIN ClosedChannel = ChannelFields /\ ClosedChannel.flags = {}
    BY DEF ClosedChannel, ChannelFields
  <2> QED
    BY <2>2, <2>3, <2>4 DEF Closes, SameMode, Shaped, IsOpen
<1> QED
  BY <1>1, <1>2
-----------------------------------------------------------------------------
(* Opening.                                                                *)

(* The allocator gives out a channel that is free.                         *)
LEMMA FreeChannel ==
  ASSUME NEW d, FreeChannels(d) # {}
  PROVE  Min(FreeChannels(d)) \in Channels /\ ~d.chan[Min(FreeChannels(d))].used
<1>1. FreeChannels(d) \in SUBSET Nat
  BY StreamsAssumption DEF FreeChannels, Channels
<1>2. \E x \in FreeChannels(d) : \A y \in FreeChannels(d) : x <= y
  BY <1>1, NatMin
<1>3. Min(FreeChannels(d)) \in FreeChannels(d)
  BY <1>2 DEF Min
<1> QED
  BY <1>3 DEF FreeChannels

(* A channel that is given out is opened in the mode asked for.            *)
LEMMA AttachOpens ==
  ASSUME NEW d, Shaped(d), NEW c \in Channels, ~d.chan[c].used, NEW f, NEW flags
  PROVE  Opens(d, Attach(d, c, f, flags), c, "ISREAD" \in flags)
<1> DEFINE new == [used |-> TRUE, flags |-> flags \cup {"OPENED"}, file |-> f, pos |-> 0]
           L == Attach(d, c, f, flags)
<1>1. DOMAIN d = {"files", "chan"} /\ DOMAIN d.chan = Channels
  BY DEF Shaped
<1>2. DOMAIN L = {"files", "chan"} /\ L.chan = [d.chan EXCEPT ![c] = new]
  BY <1>1 DEF Attach
<1>3. DOMAIN new = ChannelFields /\ new.used /\ new.flags = flags \cup {"OPENED"}
  BY DEF ChannelFields
<1> QED
  BY <1>1, <1>2, <1>3 DEF Opens, SameMode, Shaped

(* What a call that opens may do: open a channel that was free and return  *)
(* it, or return -1 and open none.                                         *)
Outcome(d, r, read) ==
  \/ r.ret = -1 /\ OpensNone(d, r.disk)
  \/ r.ret \in Channels /\ Opens(d, r.disk, r.ret, read)

(* _open().                                                                *)
LEMMA OpenOutcome ==
  ASSUME NEW d, Shaped(d), NEW f, NEW mode, NEW asc, NEW r \in OpenC(d, f, mode, asc)
  PROVE  Outcome(d, r, mode = "r") /\ (r.ret = -1 => r.disk = d)
<1> DEFINE c == Min(FreeChannels(d))
           fl == (IF mode = "r" THEN {"ISREAD"} ELSE {}) \cup (IF asc THEN {"ISASCII"} ELSE {})
<1>1. OpensNone(d, d)
  BY DEF OpensNone, SameMode
<1>2. CASE r = [disk |-> d, ret |-> -1]
  BY <1>1, <1>2 DEF Outcome
<1>3. CASE FreeChannels(d) # {} /\ r = [disk |-> Attach(d, c, f, fl), ret |-> c]
  <2>1. c \in Channels /\ ~d.chan[c].used
    BY <1>3, FreeChannel
  <2>2. Opens(d, Attach(d, c, f, fl), c, "ISREAD" \in fl)
    BY <2>1, AttachOpens
  <2>3. "ISREAD" \in fl <=> mode = "r"
    OBVIOUS
  <2>4. Opens(d, Attach(d, c, f, fl), c, mode = "r")
    BY <2>2, <2>3 DEF Opens
  <2>5. c # -1
    BY <2>1, StreamsAssumption DEF Channels
  <2> QED
    BY <1>3, <2>1, <2>4, <2>5 DEF Outcome
<1> QED
  BY <1>2, <1>3 DEF OpenC

(* _creat(), which empties the file, or keeps the channel when refused.    *)
LEMMA CreatOutcome ==
  ASSUME NEW d, Shaped(d), NEW f, NEW asc, NEW r \in CreatC(d, f, asc)
  PROVE  Outcome(d, r, FALSE)
<1> DEFINE c == Min(FreeChannels(d))
           fl == IF asc THEN {"ISASCII"} ELSE {}
           given == Attach(d, c, f, fl)
           kept == [ClosedChannel EXCEPT !.used = TRUE, !.flags = fl]
<1>1. CASE r = [disk |-> d, ret |-> -1]
  <2>1. OpensNone(d, d)
    BY DEF OpensNone, SameMode
  <2> QED
    BY <1>1, <2>1 DEF Outcome
<1>2. CASE FreeChannels(d) # {} /\ r = [disk |-> [given EXCEPT !.files[f] = <<>>], ret |-> c]
  <2>1. c \in Channels /\ ~d.chan[c].used
    BY <1>2, FreeChannel
  <2>2. Opens(d, given, c, "ISREAD" \in fl)
    BY <2>1, AttachOpens
  <2>3. "ISREAD" \notin fl
    OBVIOUS
  <2>4. DOMAIN given = {"files", "chan"}
    BY <2>2 DEF Opens, Shaped
  <2>5. DOMAIN r.disk = {"files", "chan"} /\ r.disk.chan = given.chan
    BY <1>2, <2>4
  <2>6. Opens(d, r.disk, c, FALSE)
    BY <2>2, <2>3, <2>5 DEF Opens, Shaped
  <2> QED
    BY <1>2, <2>1, <2>6 DEF Outcome
<1>3. CASE FreeChannels(d) # {} /\ r = [disk |-> [d EXCEPT !.chan[c] = kept], ret |-> -1]
  <2>1. c \in Channels /\ ~d.chan[c].used
    BY <1>3, FreeChannel
  <2>2. DOMAIN d = {"files", "chan"} /\ DOMAIN d.chan = Channels
    BY DEF Shaped
  <2>3. DOMAIN r.disk = {"files", "chan"} /\ r.disk.chan = [d.chan EXCEPT ![c] = kept]
    BY <1>3, <2>2
  <2>4. DOMAIN kept = ChannelFields /\ kept.flags = fl /\ "OPENED" \notin kept.flags
    BY DEF ClosedChannel, ChannelFields
  <2>5. OpensNone(d, r.disk)
    BY <2>1, <2>2, <2>3, <2>4 DEF OpensNone, SameMode, Shaped
  <2> QED
    BY <1>3, <2>5 DEF Outcome
<1> QED
  BY <1>1, <1>2, <1>3 DEF CreatC

(* The channel for a mode of fopen() or freopen(); one to append to is     *)
(* opened, or else created, and then put at the end of its file.           *)
LEMMA OpenedOutcome ==
  ASSUME NEW d, Shaped(d), NEW f, NEW mode \in {"r", "w", "a"}, NEW asc,
         NEW r \in Opened(d, f, mode, asc)
  PROVE  Outcome(d, r, mode = "r")
<1>1. CASE mode = "r"
  BY <1>1, OpenOutcome DEF Opened
<1>2. CASE mode = "w"
  BY <1>2, CreatOutcome DEF Opened
<1>3. CASE mode = "a"
  <2>1. PICK q \in OpenC(d, f, mode, asc) :
          r \in IF q.ret = -1 THEN CreatC(q.disk, f, asc)
                ELSE {[q EXCEPT !.disk = Lseek(q.disk, q.ret, 0, "end").disk]}
    BY <1>3 DEF Opened
  <2>2. Outcome(d, q, FALSE) /\ (q.ret = -1 => q.disk = d)
    <3>1. Outcome(d, q, mode = "r") /\ (q.ret = -1 => q.disk = d)
      BY OpenOutcome
    <3> QED
      BY <1>3, <3>1 DEF Outcome, Opens
  <2>3. CASE q.ret = -1
    BY <1>3, <2>1, <2>2, <2>3, CreatOutcome
  <2>4. CASE q.ret # -1
    <3> DEFINE e == Lseek(q.disk, q.ret, 0, "end").disk
    <3>1. q.ret \in Channels /\ Opens(d, q.disk, q.ret, FALSE)
      BY <2>2, <2>4 DEF Outcome
    <3>2. Keeps(q.disk, e)
      BY <3>1, LseekKeeps DEF Opens
    <3>3. Opens(d, e, q.ret, FALSE)
      BY <3>1, <3>2 DEF Opens, Keeps, SameMode
    <3>4. r = [q EXCEPT !.disk = e]
      BY <2>1, <2>4
    <3>5. DOMAIN q = {"disk", "ret"}
      BY DEF OpenC
    <3>6. r.disk = e /\ r.ret = q.ret
      BY <3>4, <3>5
    <3> QED
      BY <1>3, <3>1, <3>3, <3>6 DEF Outcome
  <2> QED
    BY <2>3, <2>4
<1> QED
  BY <1>1, <1>2, <1>3
-----------------------------------------------------------------------------
(* The operators on streams.                                               *)

(* A stream goes on as it is, apart from its buffer.                       *)
StaysOpen(st, new) ==
  /\ DOMAIN new = StreamFields /\ new.fd = st.fd
  /\ "READ" \in new.flag <=> "READ" \in st.flag
  /\ "WRT" \in new.flag <=> "WRT" \in st.flag

(* What a call on one stream may do: r has a disk and a stream.            *)
OnlyBuffer(d, st, r) == Keeps(d, r.disk) /\ StaysOpen(st, r.st)

(* fflush().                                                               *)
LEMMA FflushKeeps ==
  ASSUME NEW d, Shaped(d), NEW st, DOMAIN st = StreamFields
  PROVE  OnlyBuffer(d, st, Fflush(d, st))
<1> DEFINE r == Fflush(d, st)
           w == Write(d, st.fd, Pending(st))
           l == Lseek(d, st.fd, -st.cnt, "cur")
<1>1. Keeps(d, d) /\ Keeps(d, w.disk) /\ Keeps(d, l.disk)
  BY KeepsSelf, WriteKeeps, LseekKeeps
<1>2. r.disk \in {d, w.disk, l.disk}
  BY DEF Fflush
<1>3. StaysOpen(st, r.st)
  BY DEF Fflush, StaysOpen, StreamFields
<1> QED
  BY <1>1, <1>2, <1>3 DEF OnlyBuffer

(* fputc() with what _flsbuf() does.                                       *)
LEMMA PutsKeeps ==
  ASSUME NEW d, Shaped(d), NEW st, DOMAIN st = StreamFields, NEW c, NEW r \in Puts(d, st, c)
  PROVE  OnlyBuffer(d, st, r)
<1>1. \A s : Keeps(d, d) /\ Keeps(d, Write(d, st.fd, s).disk)
  BY KeepsSelf, WriteKeeps
<1>2. StaysOpen(st, Store(st, c)) /\ Store(st, c).flag = st.flag
  BY DEF StaysOpen, StreamFields, Store
<1>3. CASE r = [disk |-> d, st |-> [Store(st, c) EXCEPT !.cnt = @ - 1], ret |-> c]
  <2>1. StaysOpen(st, r.st)
    BY <1>2, <1>3 DEF StaysOpen, StreamFields
  <2> QED
    BY <1>1, <1>3, <2>1 DEF OnlyBuffer
<1>4. CASE r = PutNow(d, st, c)
  <2>1. StaysOpen(st, r.st)
    BY <1>4 DEF PutNow, StaysOpen, StreamFields
  <2>2. r.disk = Write(d, st.fd, <<c>>).disk
    BY <1>4 DEF PutNow
  <2> QED
    BY <1>1, <2>1, <2>2 DEF OnlyBuffer
<1>5. CASE r = PutFirst(d, st, c)
  <2>1. StaysOpen(st, r.st)
    BY <1>5 DEF PutFirst, StaysOpen, StreamFields
  <2>2. r.disk = d
    BY <1>5 DEF PutFirst
  <2> QED
    BY <1>1, <2>1, <2>2 DEF OnlyBuffer
<1>6. CASE r = PutFull(d, st, c)
  <2>1. StaysOpen(st, r.st)
    BY <1>2, <1>6 DEF PutFull, StaysOpen, StreamFields
  <2>2. r.disk = Write(d, st.fd, Pending(Store(st, c))).disk
    BY <1>6 DEF PutFull
  <2> QED
    BY <1>1, <2>1, <2>2 DEF OnlyBuffer
<1> QED
  BY <1>3, <1>4, <1>5, <1>6 DEF Puts, Flsbuf

(* fgetc() with what _filbuf() does.                                       *)
LEMMA GetsKeeps ==
  ASSUME NEW d, Shaped(d), NEW st, DOMAIN st = StreamFields, st.fd \in Channels, NEW r \in Gets(d, st)
  PROVE  OnlyBuffer(d, st, r)
<1>1. CASE st.cnt >= 1
  <2>1. r.disk = d /\ r.st = [st EXCEPT !.cnt = @ - 1, !.ptr = @ + 1]
    BY <1>1 DEF Gets
  <2>2. StaysOpen(st, r.st)
    BY <2>1 DEF StaysOpen, StreamFields
  <2> QED
    BY <2>1, <2>2, KeepsSelf DEF OnlyBuffer
<1>2. CASE ~ (st.cnt >= 1)
  <2>1. PICK b \in Buffers(st), x \in Beyond : r = Fill(d, b, x)
    BY <1>2 DEF Gets
  <2>2. StaysOpen(st, b)
    <3>1. \/ b = st
          \/ b = [st EXCEPT !.base = "onebuf"]
          \/ b = [st EXCEPT !.base = "memory"]
          \/ b = [st EXCEPT !.base = "onebuf", !.flag = @ \cup {"NBF"}]
      BY <2>1 DEF Buffers
    <3>2. CASE b = st
      BY <3>2 DEF StaysOpen
    <3>3. CASE b = [st EXCEPT !.base = "onebuf"]
      BY <3>3 DEF StaysOpen, StreamFields
    <3>4. CASE b = [st EXCEPT !.base = "memory"]
      BY <3>4 DEF StaysOpen, StreamFields
    <3>5. CASE b = [st EXCEPT !.base = "onebuf", !.flag = @ \cup {"NBF"}]
      BY <3>5 DEF StaysOpen, StreamFields
    <3> QED
      BY <3>1, <3>2, <3>3, <3>4, <3>5
  <2>3. b.fd \in Channels /\ DOMAIN b = StreamFields
    BY <2>2 DEF StaysOpen
  <2>4. \A n : Keeps(d, Read(d, b.fd, n, x).disk)
    BY <2>3, ReadKeeps
  <2>5. Keeps(d, r.disk)
    BY <2>1, <2>4 DEF Fill
  <2>6. StaysOpen(b, r.st)
    BY <2>1, <2>3 DEF Fill, StaysOpen, StreamFields
  <2> QED
    BY <2>2, <2>5, <2>6 DEF OnlyBuffer, StaysOpen
<1> QED
  BY <1>1, <1>2

(* fclose() closes the channel, and nobody takes the stream for open.      *)
LEMMA FcloseCloses ==
  ASSUME NEW d, Shaped(d), NEW st, DOMAIN st = StreamFields
  PROVE  /\ Closes(d, Fclose(d, st).disk, st.fd)
         /\ DOMAIN Fclose(d, st).st = StreamFields /\ ~InUse(Fclose(d, st).st)
<1> DEFINE b == IF InUse(st) THEN Fflush(d, st).disk ELSE d
<1>1. Keeps(d, b)
  BY FflushKeeps, KeepsSelf DEF OnlyBuffer
<1>2. Closes(b, Close(b, st.fd), st.fd)
  BY <1>1, CloseCloses DEF Keeps
<1>3. Closes(d, Close(b, st.fd), st.fd)
  BY <1>1, <1>2 DEF Closes, Keeps, SameMode
<1>4. Fclose(d, st) = [disk |-> Close(b, st.fd), st |-> Closed(st)]
  BY DEF Fclose
<1>5. DOMAIN Closed(st) = StreamFields /\ ~InUse(Closed(st))
  BY DEF Closed, InUse, StreamFields
<1> QED
  BY <1>3, <1>4, <1>5
-----------------------------------------------------------------------------
(* The invariant and the steps.                                            *)

(* A call that changes only the buffer of one stream.                      *)
LEMMA OwnedBuffer ==
  ASSUME NEW d, NEW io, Owned(d, io), NEW s \in Slots, NEW e, Keeps(d, e),
         NEW new, StaysOpen(io[s], new)
  PROVE  Owned(e, [io EXCEPT ![s] = new])
<1> DEFINE io2 == [io EXCEPT ![s] = new]
<1>1. /\ DOMAIN io2 = Slots /\ io2[s] = new
      /\ \A t \in Slots \ {s} : io2[t] = io[t]
  BY DEF Owned, Wellformed
<1>2. /\ Wellformed(io2)
      /\ \A t \in Slots : /\ io2[t].fd = io[t].fd /\ (InUse(io2[t]) <=> InUse(io[t]))
                          /\ "READ" \in io2[t].flag <=> "READ" \in io[t].flag
  BY <1>1 DEF Owned, Wellformed, StaysOpen, InUse
<1>3. \A c \in Channels : SameMode(e.chan[c], d.chan[c]) /\ (IsOpen(e, c) <=> IsOpen(d, c))
  BY DEF Keeps, SameMode, IsOpen
<1>4. \A c : IsOpen(e, c) <=> IsOpen(d, c)
  BY <1>3 DEF IsOpen
<1>5. ASSUME NEW t \in Slots, InUse(io2[t])
      PROVE  /\ IsOpen(e, io2[t].fd)
             /\ "ISREAD" \in e.chan[io2[t].fd].flags <=> "READ" \in io2[t].flag
             /\ \A u \in Slots \ {t} : InUse(io2[u]) => io2[u].fd /= io2[t].fd
  <2>1. InUse(io[t]) /\ io2[t].fd = io[t].fd
    BY <1>2, <1>5
  <2>2. IsOpen(d, io[t].fd) /\ io[t].fd \in Channels
    BY <2>1 DEF Owned, IsOpen
  <2>3. "ISREAD" \in d.chan[io[t].fd].flags <=> "READ" \in io[t].flag
    BY <2>1 DEF Owned
  <2>4. "ISREAD" \in e.chan[io[t].fd].flags <=> "ISREAD" \in d.chan[io[t].fd].flags
    BY <2>2, <1>3 DEF SameMode
  <2>5. \A u \in Slots \ {t} : InUse(io[u]) => io[u].fd /= io[t].fd
    BY <2>1 DEF Owned
  <2> QED
    BY <1>2, <1>4, <2>1, <2>2, <2>3, <2>4, <2>5
<1>6. \A c \in Channels : IsOpen(e, c) => \E t \in Slots : InUse(io2[t]) /\ io2[t].fd = c
  BY <1>2, <1>4 DEF Owned
<1> QED
  BY <1>2, <1>5, <1>6 DEF Owned, Keeps

(* A stream is closed, and with it its channel.                            *)
LEMMA OwnedClosed ==
  ASSUME NEW d, NEW io, Owned(d, io), NEW s \in Slots, InUse(io[s]),
         NEW e, Closes(d, e, io[s].fd), NEW new, DOMAIN new = StreamFields, ~InUse(new)
  PROVE  Owned(e, [io EXCEPT ![s] = new])
<1> DEFINE io2 == [io EXCEPT ![s] = new]
           x == io[s].fd
<1>1. /\ DOMAIN io2 = Slots /\ io2[s] = new
      /\ \A t \in Slots \ {s} : io2[t] = io[t]
  BY DEF Owned, Wellformed
<1>2. Wellformed(io2)
  BY <1>1 DEF Owned, Wellformed, InUse
<1>3. \A t \in Slots : InUse(io2[t]) => t # s /\ InUse(io[t]) /\ io2[t] = io[t] /\ io[t].fd # x
  BY <1>1 DEF Owned
<1>4. /\ \A c \in Channels \ {x} : SameMode(e.chan[c], d.chan[c]) /\ (IsOpen(e, c) <=> IsOpen(d, c))
      /\ ~IsOpen(e, x)
  BY DEF Closes, SameMode, IsOpen
<1>5. ASSUME NEW t \in Slots, InUse(io2[t])
      PROVE  /\ IsOpen(e, io2[t].fd)
             /\ "ISREAD" \in e.chan[io2[t].fd].flags <=> "READ" \in io2[t].flag
             /\ \A u \in Slots \ {t} : InUse(io2[u]) => io2[u].fd /= io2[t].fd
  <2>1. InUse(io[t]) /\ io2[t] = io[t] /\ io[t].fd # x
    BY <1>3, <1>5
  <2>2. IsOpen(d, io[t].fd) /\ io[t].fd \in Channels \ {x}
    BY <2>1 DEF Owned, IsOpen
  <2>3. "ISREAD" \in d.chan[io[t].fd].flags <=> "READ" \in io[t].flag
    BY <2>1 DEF Owned
  <2>4. /\ "ISREAD" \in e.chan[io[t].fd].flags <=> "ISREAD" \in d.chan[io[t].fd].flags
        /\ IsOpen(e, io[t].fd)
    BY <2>2, <1>4 DEF SameMode
  <2>5. \A u \in Slots \ {t} : InUse(io[u]) => io[u].fd /= io[t].fd
    BY <2>1 DEF Owned
  <2> QED
    BY <1>3, <2>1, <2>3, <2>4, <2>5
<1>6. \A c \in Channels : IsOpen(e, c) => \E t \in Slots : InUse(io2[t]) /\ io2[t].fd = c
  <2> SUFFICES ASSUME NEW c \in Channels, IsOpen(e, c)
               PROVE  \E t \in Slots : InUse(io2[t]) /\ io2[t].fd = c
    OBVIOUS
  <2>1. c # x /\ IsOpen(d, c)
    BY <1>4
  <2>2. PICK t \in Slots : InUse(io[t]) /\ io[t].fd = c
    BY <2>1 DEF Owned
  <2> QED
    BY <2>1, <2>2, <1>1
<1> QED
  BY <1>2, <1>5, <1>6 DEF Owned, Closes

(* A stream that was not in use gets a channel that was free.              *)
LEMMA OwnedOpened ==
  ASSUME NEW d, NEW io, Owned(d, io), NEW s \in Slots, ~InUse(io[s]),
         NEW e, NEW x, NEW mode, NEW asc, Opens(d, e, x, mode = "r")
  PROVE  Owned(e, [io EXCEPT ![s] = NewStream(x, mode, asc)])
<1> DEFINE new == NewStream(x, mode, asc)
           io2 == [io EXCEPT ![s] = new]
<1>1. /\ DOMAIN io2 = Slots /\ io2[s] = new
      /\ \A t \in Slots \ {s} : io2[t] = io[t]
  BY DEF Owned, Wellformed
<1>2. /\ DOMAIN new = StreamFields /\ new.fd = x /\ InUse(new)
      /\ "READ" \in new.flag <=> mode = "r"
      /\ "WRT" \in new.flag <=> mode # "r"
  BY DEF NewStream, StreamFields, InUse
<1>3. Wellformed(io2)
  BY <1>1, <1>2 DEF Owned, Wellformed
<1>4. /\ x \in Channels /\ ~IsOpen(d, x) /\ IsOpen(e, x)
      /\ "ISREAD" \in e.chan[x].flags <=> mode = "r"
      /\ \A c \in Channels \ {x} : SameMode(e.chan[c], d.chan[c]) /\ (IsOpen(e, c) <=> IsOpen(d, c))
  BY DEF Opens, SameMode, IsOpen, Owned, Shaped
<1>5. \A t \in Slots \ {s} : InUse(io2[t]) => /\ InUse(io[t]) /\ io2[t] = io[t]
                                              /\ IsOpen(d, io[t].fd) /\ io[t].fd # x
  BY <1>1, <1>4 DEF Owned
<1>6. ASSUME NEW t \in Slots, InUse(io2[t])
      PROVE  /\ IsOpen(e, io2[t].fd)
             /\ "ISREAD" \in e.chan[io2[t].fd].flags <=> "READ" \in io2[t].flag
             /\ \A u \in Slots \ {t} : InUse(io2[u]) => io2[u].fd /= io2[t].fd
  <2>1. CASE t = s
    BY <2>1, <1>1, <1>2, <1>4, <1>5
  <2>2. CASE t # s
    <3>1. /\ InUse(io[t]) /\ io2[t] = io[t] /\ IsOpen(d, io[t].fd)
          /\ io[t].fd \in Channels \ {x}
      BY <2>2, <1>5, <1>6 DEF IsOpen
    <3>2. "ISREAD" \in d.chan[io[t].fd].flags <=> "READ" \in io[t].flag
      BY <3>1 DEF Owned
    <3>3. /\ "ISREAD" \in e.chan[io[t].fd].flags <=> "ISREAD" \in d.chan[io[t].fd].flags
          /\ IsOpen(e, io[t].fd)
      BY <3>1, <1>4 DEF SameMode
    <3>4. \A u \in Slots \ {t} : InUse(io[u]) => io[u].fd /= io[t].fd
      BY <3>1 DEF Owned
    <3> QED
      BY <1>1, <1>2, <1>5, <3>1, <3>2, <3>3, <3>4
  <2> QED
    BY <2>1, <2>2
<1>7. \A c \in Channels : IsOpen(e, c) => \E t \in Slots : InUse(io2[t]) /\ io2[t].fd = c
  <2> SUFFICES ASSUME NEW c \in Channels, IsOpen(e, c)
               PROVE  \E t \in Slots : InUse(io2[t]) /\ io2[t].fd = c
    OBVIOUS
  <2>1. CASE c = x
    BY <2>1, <1>1, <1>2
  <2>2. CASE c # x
    <3>1. IsOpen(d, c)
      BY <2>2, <1>4
    <3>2. PICK t \in Slots : InUse(io[t]) /\ io[t].fd = c
      BY <3>1 DEF Owned
    <3> QED
      BY <3>2, <1>1
  <2> QED
    BY <2>1, <2>2
<1> QED
  BY <1>3, <1>6, <1>7 DEF Owned, Opens

(* Nothing could be opened.                                                *)
LEMMA OwnedRefused ==
  ASSUME NEW d, NEW io, Owned(d, io), NEW e, OpensNone(d, e)
  PROVE  Owned(e, io)
<1>1. \A c \in Channels : /\ IsOpen(e, c) <=> IsOpen(d, c)
                          /\ IsOpen(d, c) => SameMode(e.chan[c], d.chan[c])
  BY DEF Owned, Shaped, OpensNone, SameMode, IsOpen
<1>2. ASSUME NEW t \in Slots, InUse(io[t])
      PROVE  /\ IsOpen(e, io[t].fd)
             /\ "ISREAD" \in e.chan[io[t].fd].flags <=> "READ" \in io[t].flag
  <2>1. IsOpen(d, io[t].fd) /\ io[t].fd \in Channels
    BY <1>2 DEF Owned, IsOpen
  <2>2. "ISREAD" \in d.chan[io[t].fd].flags <=> "READ" \in io[t].flag
    BY <1>2 DEF Owned
  <2> QED
    BY <1>1, <2>1, <2>2 DEF SameMode
<1> QED
  BY <1>1, <1>2 DEF Owned, OpensNone
-----------------------------------------------------------------------------
(* The theorem.                                                            *)
OwnedNow == Owned(Disk, iob)

(* At first, and after exit(), no channel is open and no stream in use.    *)
LEMMA FreshOwned ==
  ASSUME NEW f
  PROVE  Owned([files |-> f, chan |-> [c \in Channels |-> ClosedChannel]], FreshStreams)
<1> DEFINE d == [files |-> f, chan |-> [c \in Channels |-> ClosedChannel]]
<1>1. /\ DOMAIN d = {"files", "chan"} /\ DOMAIN d.chan = Channels
      /\ \A c \in Channels : DOMAIN d.chan[c] = ChannelFields /\ d.chan[c].flags = {}
  BY DEF ClosedChannel, ChannelFields
<1>2. ASSUME NEW s \in Slots
      PROVE  DOMAIN FreshStreams[s] = StreamFields /\ FreshStreams[s].flag = {}
  <2>1. FreshStreams[s] = [Closed(NewStream(s, "r", FALSE)) EXCEPT !.fd = s]
    BY DEF FreshStreams
  <2>2. /\ DOMAIN Closed(NewStream(s, "r", FALSE)) = StreamFields
        /\ Closed(NewStream(s, "r", FALSE)).flag = {}
    BY DEF Closed, NewStream, StreamFields
  <2> QED
    BY <2>1, <2>2 DEF StreamFields
<1>3. DOMAIN FreshStreams = Slots
  BY DEF FreshStreams
<1> QED
  BY <1>1, <1>2, <1>3 DEF Owned, Shaped, Wellformed, InUse, IsOpen

(* The disk that a step makes its own is the one an operator gave.         *)
LEMMA OwnedBecomes ==
  ASSUME NEW d, Owned(d, iob'), Become(d)
  PROVE  OwnedNow'
<1>1. DOMAIN d = {"files", "chan"} /\ DOMAIN Disk' = {"files", "chan"} /\ Disk'.chan = d.chan
  BY DEF Owned, Shaped, Become, Disk
<1>2. \A c : IsOpen(Disk', c) <=> IsOpen(d, c)
  BY <1>1 DEF IsOpen
<1>3. Shaped(Disk')
  BY <1>1 DEF Owned, Shaped
<1> QED
  BY <1>1, <1>2, <1>3 DEF OwnedNow, Owned

(* A step that changes one stream's buffer and keeps the channels.         *)
LEMMA BufferStep ==
  ASSUME OwnedNow, NEW s \in Slots, NEW r, OnlyBuffer(Disk, iob[s], r),
         Become(r.disk), iob' = [iob EXCEPT ![s] = r.st]
  PROVE  OwnedNow'
<1>1. Owned(r.disk, [iob EXCEPT ![s] = r.st])
  BY OwnedBuffer DEF OwnedNow, OnlyBuffer
<1> QED
  BY <1>1, OwnedBecomes

(* A step that leaves the channels alone, and of the streams changes at    *)
(* most the buffer of one.                                                 *)
LEMMA StreamStep ==
  ASSUME OwnedNow, NEW s \in Slots, NEW new, StaysOpen(iob[s], new),
         iob' = [iob EXCEPT ![s] = new], UNCHANGED <<files, chan>>
  PROVE  OwnedNow'
<1>1. Disk' = Disk /\ Shaped(Disk)
  BY DEF Disk, OwnedNow, Owned
<1>2. Owned(Disk, [iob EXCEPT ![s] = new])
  BY <1>1, KeepsSelf, OwnedBuffer DEF OwnedNow
<1> QED
  BY <1>1, <1>2 DEF OwnedNow

(* What is known of a stream.                                              *)
LEMMA StreamIs ==
  ASSUME OwnedNow, NEW s \in Slots
  PROVE  /\ Shaped(Disk) /\ DOMAIN iob = Slots /\ DOMAIN iob[s] = StreamFields
         /\ InUse(iob[s]) => iob[s].fd \in Channels
         /\ s \in Reading \/ s \in Writing => InUse(iob[s])
BY DEF OwnedNow, Owned, Wellformed, IsOpen, InUse, Reading, Writing

(* fopen().                                                                *)
LEMMA FopenStep ==
  ASSUME OwnedNow, NEW o \in Openings, Fopen(o[1], o[2], o[3])
  PROVE  OwnedNow'
<1> DEFINE free == {s \in Slots : ~InUse(iob[s])}
           s == Min(free)
<1>1. o[2] \in {"r", "w", "a"}
  BY StreamsAssumption
<1>2. CASE free = {}
  <2>1. UNCHANGED <<files, chan, iob>>
    BY <1>2 DEF Fopen
  <2> QED
    BY <2>1 DEF OwnedNow, Disk
<1>3. CASE free # {}
  <2>1. PICK r \in Opened(Disk, o[1], o[2], o[3]) :
          /\ Become(r.disk)
          /\ iob' = IF r.ret = -1 THEN iob ELSE [iob EXCEPT ![s] = NewStream(r.ret, o[2], o[3])]
    BY <1>3 DEF Fopen
  <2>2. s \in Slots /\ ~InUse(iob[s])
    <3>1. free \in SUBSET Nat
      BY StreamsAssumption DEF Slots
    <3>2. \E x \in free : \A y \in free : x <= y
      BY <1>3, <3>1, NatMin
    <3>3. s \in free
      BY <3>2 DEF Min
    <3> QED
      BY <3>3
  <2>3. Outcome(Disk, r, o[2] = "r")
    BY <1>1, OpenedOutcome DEF OwnedNow, Owned
  <2>4. CASE r.ret = -1
    <3>1. OpensNone(Disk, r.disk)
      BY <2>3, <2>4, StreamsAssumption DEF Outcome, Channels
    <3>2. Owned(r.disk, iob')
      BY <2>1, <2>4, <3>1, OwnedRefused DEF OwnedNow
    <3> QED
      BY <2>1, <3>2, OwnedBecomes
  <2>5. CASE r.ret # -1
    <3>1. Opens(Disk, r.disk, r.ret, o[2] = "r")
      BY <2>3, <2>5 DEF Outcome
    <3>2. Owned(r.disk, iob')
      BY <2>1, <2>2, <2>5, <3>1, OwnedOpened DEF OwnedNow
    <3> QED
      BY <2>1, <3>2, OwnedBecomes
  <2> QED
    BY <2>4, <2>5
<1> QED
  BY <1>2, <1>3

(* freopen(): the stream is closed, and what was its channel may be the    *)
(* one it gets again.                                                      *)
LEMMA FreopenStep ==
  ASSUME OwnedNow, NEW o \in Openings, NEW s \in Slots, Freopen(o[1], o[2], o[3], s)
  PROVE  OwnedNow'
<1> DEFINE c == Fclose(Disk, iob[s])
           closed == [iob EXCEPT ![s] = c.st]
<1>1. o[2] \in {"r", "w", "a"}
  BY StreamsAssumption
<1>2. PICK r \in Opened(c.disk, o[1], o[2], o[3]) :
        /\ Become(r.disk)
        /\ iob' = [iob EXCEPT ![s] = IF r.ret = -1 THEN c.st ELSE NewStream(r.ret, o[2], o[3])]
  BY DEF Freopen
<1>3. InUse(iob[s])
  BY DEF Freopen
<1>4. Closes(Disk, c.disk, iob[s].fd) /\ DOMAIN c.st = StreamFields /\ ~InUse(c.st)
  BY StreamIs, FcloseCloses
<1>5. Owned(c.disk, closed)
  BY <1>3, <1>4, OwnedClosed DEF OwnedNow
<1>6. closed[s] = c.st /\ ~InUse(closed[s])
  BY <1>4, StreamIs
<1>7. Outcome(c.disk, r, o[2] = "r")
  BY <1>1, <1>5, OpenedOutcome DEF Owned
<1>8. CASE r.ret = -1
  <2>1. OpensNone(c.disk, r.disk)
    BY <1>7, <1>8, StreamsAssumption DEF Outcome, Channels
  <2>2. Owned(r.disk, iob')
    BY <1>2, <1>5, <1>8, <2>1, OwnedRefused
  <2> QED
    BY <1>2, <2>2, OwnedBecomes
<1>9. CASE r.ret # -1
  <2> DEFINE new == NewStream(r.ret, o[2], o[3])
  <2>1. Opens(c.disk, r.disk, r.ret, o[2] = "r")
    BY <1>7, <1>9 DEF Outcome
  <2>2. Owned(r.disk, [closed EXCEPT ![s] = new])
    BY <1>5, <1>6, <2>1, OwnedOpened
  <2>3. iob' = [closed EXCEPT ![s] = new]
    BY <1>2, <1>9
  <2> QED
    BY <1>2, <2>2, <2>3, OwnedBecomes
<1> QED
  BY <1>8, <1>9

(* fclose().                                                               *)
LEMMA FcloseStep ==
  ASSUME OwnedNow, NEW s \in Slots, FcloseS(s)
  PROVE  OwnedNow'
<1> DEFINE c == Fclose(Disk, iob[s])
<1>1. InUse(iob[s]) /\ Become(c.disk) /\ iob' = [iob EXCEPT ![s] = c.st]
  BY DEF FcloseS
<1>2. Closes(Disk, c.disk, iob[s].fd) /\ DOMAIN c.st = StreamFields /\ ~InUse(c.st)
  BY StreamIs, FcloseCloses
<1>3. Owned(c.disk, [iob EXCEPT ![s] = c.st])
  BY <1>1, <1>2, OwnedClosed DEF OwnedNow
<1> QED
  BY <1>1, <1>3, OwnedBecomes

(* Every step keeps the invariant.                                         *)
LEMMA NextOwned == OwnedNow /\ [Next]_vars => OwnedNow'
<1> SUFFICES ASSUME OwnedNow, [Next]_vars PROVE OwnedNow'
  OBVIOUS
<1>1. CASE UNCHANGED vars
  BY <1>1 DEF vars, OwnedNow, Disk
<1>2. CASE Exit
  <2>1. iob' = FreshStreams /\ chan' = [c \in Channels |-> ClosedChannel]
    BY <1>2 DEF Exit
  <2>2. Owned([files |-> files', chan |-> [c \in Channels |-> ClosedChannel]], FreshStreams)
    BY FreshOwned
  <2> QED
    BY <2>1, <2>2 DEF OwnedNow, Disk
<1>3. ASSUME NEW o \in Openings, Fopen(o[1], o[2], o[3]) PROVE OwnedNow'
  BY <1>3, FopenStep
<1>4. ASSUME NEW o \in Openings, NEW s \in Slots, Freopen(o[1], o[2], o[3], s) PROVE OwnedNow'
  BY <1>4, FreopenStep
<1>5. ASSUME NEW s \in Slots, FcloseS(s) PROVE OwnedNow'
  BY <1>5, FcloseStep
<1>6. ASSUME NEW s \in Slots, Fgetc(s) PROVE OwnedNow'
  <2>1. PICK r \in Gets(Disk, iob[s]) : Become(r.disk) /\ iob' = [iob EXCEPT ![s] = r.st]
    BY <1>6 DEF Fgetc
  <2>2. iob[s].fd \in Channels
    BY <1>6, StreamIs DEF Fgetc
  <2>3. OnlyBuffer(Disk, iob[s], r)
    BY <2>2, StreamIs, GetsKeeps
  <2> QED
    BY <2>1, <2>3, BufferStep
<1>7. ASSUME NEW s \in Slots, Ungetc(s) PROVE OwnedNow'
  <2>1. CASE UNCHANGED iob
    BY <1>7, <2>1 DEF Ungetc, OwnedNow, Disk
  <2>2. CASE iob' = [iob EXCEPT ![s].ptr = @ - 1, ![s].cnt = @ + 1, ![s].buf[iob[s].ptr] = last.ret]
    <3> DEFINE new == [iob[s] EXCEPT !.ptr = @ - 1, !.cnt = @ + 1, !.buf[iob[s].ptr] = last.ret]
    <3>1. StaysOpen(iob[s], new)
      BY StreamIs DEF StaysOpen, StreamFields
    <3>2. iob' = [iob EXCEPT ![s] = new]
      BY <2>2, StreamIs DEF StreamFields
    <3>3. UNCHANGED <<files, chan>>
      BY <1>7 DEF Ungetc
    <3> QED
      BY <3>1, <3>2, <3>3, StreamStep
  <2> QED
    BY <1>7, <2>1, <2>2 DEF Ungetc
<1>8. ASSUME NEW s \in Slots, NEW c \in Bytes, Fputc(s, c) PROVE OwnedNow'
  <2>1. PICK r \in Puts(Disk, iob[s], c) : Become(r.disk) /\ iob' = [iob EXCEPT ![s] = r.st]
    BY <1>8 DEF Fputc
  <2>2. OnlyBuffer(Disk, iob[s], r)
    BY StreamIs, PutsKeeps
  <2> QED
    BY <2>1, <2>2, BufferStep
<1>9. ASSUME NEW s \in Slots, FflushS(s) PROVE OwnedNow'
  <2>1. OnlyBuffer(Disk, iob[s], Fflush(Disk, iob[s]))
    BY StreamIs, FflushKeeps
  <2> QED
    BY <1>9, <2>1, BufferStep DEF FflushS
<1>10. ASSUME NEW s \in Slots, NEW sk \in Seeks, Fseek(s, sk[1], sk[2]) PROVE OwnedNow'
  <2> DEFINE f == Fflush(Disk, iob[s])
             l == Lseek(f.disk, iob[s].fd, sk[1], sk[2])
             r == [disk |-> l.disk, st |-> f.st]
  <2>1. OnlyBuffer(Disk, iob[s], f)
    BY StreamIs, FflushKeeps
  <2>2. Keeps(f.disk, l.disk)
    BY <2>1, LseekKeeps DEF OnlyBuffer, Keeps
  <2>3. Keeps(Disk, l.disk)
    BY <2>1, <2>2, KeepsAlso DEF OnlyBuffer
  <2>4. OnlyBuffer(Disk, iob[s], r)
    BY <2>1, <2>3 DEF OnlyBuffer
  <2>5. Become(r.disk) /\ iob' = [iob EXCEPT ![s] = r.st]
    BY <1>10 DEF Fseek
  <2> QED
    BY <2>4, <2>5, BufferStep
<1>11. ASSUME NEW s \in Slots, Ftell(s) PROVE OwnedNow'
  <2> DEFINE l == Lseek(Disk, iob[s].fd, 0, "cur")
  <2>1. Keeps(Disk, l.disk)
    BY StreamIs, LseekKeeps
  <2>2. OpensNone(Disk, l.disk)
    BY <2>1 DEF Keeps, OpensNone
  <2>3. Owned(l.disk, iob)
    BY <2>2, OwnedRefused DEF OwnedNow
  <2>4. Become(l.disk) /\ UNCHANGED iob
    BY <1>11 DEF Ftell
  <2> QED
    BY <2>3, <2>4, OwnedBecomes
<1>12. ASSUME NEW s \in Slots, Setbuf(s, TRUE) PROVE OwnedNow'
  <2> DEFINE new == [iob[s] EXCEPT !.base = "memory", !.ptr = 0, !.flag = @ \ {"NBF"}]
  <2>1. StaysOpen(iob[s], new)
    BY StreamIs DEF StaysOpen, StreamFields
  <2>2. UNCHANGED <<files, chan>> /\ iob' = [iob EXCEPT ![s] = new]
    BY <1>12 DEF Setbuf
  <2> QED
    BY <2>1, <2>2, StreamStep
<1>13. ASSUME NEW s \in Slots, Setbuf(s, FALSE) PROVE OwnedNow'
  <2> DEFINE new == [iob[s] EXCEPT !.flag = @ \cup {"NBF"}]
  <2>1. StaysOpen(iob[s], new)
    BY StreamIs DEF StaysOpen, StreamFields
  <2>2. UNCHANGED <<files, chan>> /\ iob' = [iob EXCEPT ![s] = new]
    BY <1>13 DEF Setbuf
  <2> QED
    BY <2>1, <2>2, StreamStep
<1>14. ASSUME NEW s \in Slots, NEW buf \in BOOLEAN, Setbuf(s, buf) PROVE OwnedNow'
  <2>1. CASE buf = TRUE
    BY <1>14, <2>1, <1>12
  <2>2. CASE buf = FALSE
    BY <1>14, <2>2, <1>13
  <2> QED
    BY <2>1, <2>2
<1> QED
  BY <1>1, <1>2, <1>3, <1>4, <1>5, <1>6, <1>7, <1>8, <1>9, <1>10, <1>11, <1>14 DEF Next

(* Open streams have open channels of their own, which the allocator does  *)
(* not give away, in the mode of the stream; and no open channel is lost   *)
(* (src/libcpm/fopen.c, fclose.c, freopen.c, open.c, create.c, close.c).   *)
THEOREM ChannelsCorrect == Spec => []StreamsOwnChannels
<1>1. Init => OwnedNow
  BY FreshOwned DEF Init, OwnedNow, Disk
<1>2. OwnedNow => StreamsOwnChannels
  BY DEF OwnedNow, Owned, Shaped, IsOpen, StreamsOwnChannels, Reading, Disk
<1> QED
  BY <1>1, <1>2, NextOwned, PTL DEF Spec
=============================================================================
