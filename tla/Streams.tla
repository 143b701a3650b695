------------------------------- MODULE Streams -------------------------------
(***************************************************************************)
(* The streams of libcpm and the channels under them (src/libcpm), in the  *)
(* configuration of osif.h, for files on disk.  The calls of the operating *)
(* system (open, read, write and seek on its handles) are external.        *)
(***************************************************************************)
EXTENDS Integers, Sequences, SequencesExt, FiniteSets, FiniteSetsExt

CONSTANTS
  Names,      \* names of files
  Openings,   \* how the program opens them: <<name, mode, text file?>>
  Contents,   \* what the files may be at first
  Bytes,      \* what a program puts
  Seeks,      \* with what it calls fseek(): <<offset, sense>>
  Beyond,     \* what the byte behind a buffer may be
  Traps,      \* the calls with which a program may hit a defect, see Safe
  MAXFILES, MAXCCBS, BUFSIZ,
  MAXLEN,     \* bound on the length of files
  None, EOF, CR, LF, SUB, FF

ASSUME StreamsAssumption ==
  /\ MAXFILES \in Nat \ {0} /\ MAXCCBS \in Nat \ {0} /\ BUFSIZ \in Nat \ {0, 1}
  /\ EOF = -1 /\ Cardinality({EOF, CR, LF, SUB, FF}) = 5
  /\ \A o \in Openings : o[1] \in Names /\ o[2] \in {"r", "w", "a"} /\ o[3] \in BOOLEAN

VARIABLES
  files,      \* name -> bytes on the disk, or None
  chan,       \* _chvec and the ccbs: channel -> [used, flags, file, pos]
  iob,        \* _iob: stream -> [fd, flag, base, ptr, cnt, buf]
  last        \* the latest call of the program: [op, stream, arg, ret];
              \* "quiet" stands for those without effect for the program
vars == <<files, chan, iob, last>>

Slots == 1 .. MAXFILES
Channels == 1 .. MAXCCBS
Call(op, s, arg, ret) == last' = [op |-> op, stream |-> s, arg |-> arg, ret |-> ret]

(***************************************************************************)
(* Channels.  Their operators take and give a disk [files, chan].          *)
(***************************************************************************)
Disk == [files |-> files, chan |-> chan]
Expand(s) == FlattenSeq([i \in DOMAIN s |-> IF s[i] = LF THEN <<CR, LF>> ELSE <<s[i]>>])
Collapse(s) == LET n == SelectInSeq(s, LAMBDA c : c = SUB)
               IN SelectSeq(IF n = 0 THEN s ELSE SubSeq(s, 1, n - 1), LAMBDA c : c /= CR)
Patch(s, p, new) == SubSeq(s, 1, p) \o new \o SubSeq(s, p + Len(new) + 1, Len(s))

ClosedChannel == [used |-> FALSE, flags |-> {}, file |-> None, pos |-> 0]
IsOpen(d, fd) == fd \in Channels /\ "OPENED" \in d.chan[fd].flags
FreeChannels(d) == {c \in Channels : ~d.chan[c].used}

(* mutant: a seek leaves the mark of the end of file. *)
LseekAtEof(d, fd, offs, sense) ==
  LET c == d.chan[fd]
      p == offs + CASE sense = "set" -> 0 [] sense = "cur" -> c.pos
                    [] sense = "end" -> Len(d.files[c.file])
      in == IsOpen(d, fd) /\ p \in 0 .. Len(d.files[c.file])
  IN [disk |-> IF in THEN [d EXCEPT !.chan[fd].pos = p] ELSE d, ret |-> IF in THEN p ELSE -64]
Lseek(d, fd, offs, sense) ==
  LET c == d.chan[fd]
      p == offs + CASE sense = "set" -> 0 [] sense = "cur" -> c.pos
                    [] sense = "end" -> Len(d.files[c.file])
      in == p \in 0 .. Len(d.files[c.file])
  IN IF ~IsOpen(d, fd) THEN [disk |-> d, ret |-> -1]
     ELSE [disk |-> [d EXCEPT !.chan[fd].flags = @ \ {"ATEOF"}, !.chan[fd].pos = IF in THEN p ELSE @],
           ret |-> IF in THEN p ELSE -64]

Attach(d, c, f, flags) ==
  [d EXCEPT !.chan[c] = [used |-> TRUE, flags |-> flags \cup {"OPENED"}, file |-> f, pos |-> 0]]
(* The disks after _open() and _creat(), with the channel or -1: the       *)
(* system may refuse either.                                               *)
OpenC(d, f, mode, asc) ==
  LET c == Min(FreeChannels(d))
      fl == (IF mode = "r" THEN {"ISREAD"} ELSE {}) \cup (IF asc THEN {"ISASCII"} ELSE {})
      refused == [disk |-> d, ret |-> -1] IN
  IF FreeChannels(d) = {} \/ d.files[f] = None THEN {refused}
  ELSE {refused, [disk |-> Attach(d, c, f, fl), ret |-> c]}
CreatC(d, f, asc) ==
  LET c == Min(FreeChannels(d))
      fl == IF asc THEN {"ISASCII"} ELSE {} IN
  IF FreeChannels(d) = {} THEN {[disk |-> d, ret |-> -1]}
  ELSE {[disk |-> [Attach(d, c, f, fl) EXCEPT !.files[f] = <<>>], ret |-> c],
        [disk |-> [d EXCEPT !.chan[c] = [ClosedChannel EXCEPT !.used = TRUE, !.flags = fl]],
         ret |-> -1]}
Close(d, fd) ==
  IF ~IsOpen(d, fd) THEN d ELSE [d EXCEPT !.chan[fd] = ClosedChannel]

Write(d, fd, s) ==
  LET c == d.chan[fd]
      raw == IF "ISASCII" \in c.flags THEN Expand(s) ELSE s IN
  IF ~IsOpen(d, fd) \/ "ISREAD" \in c.flags THEN [disk |-> d, ret |-> -1]
  ELSE [disk |-> [d EXCEPT !.files[c.file] = Patch(@, c.pos, raw),
                           !.chan[fd].pos = @ + Len(raw)],
        ret |-> Len(s)]

(* A text file is read in chunks until n bytes are left of them without    *)
(* carriage returns; each chunk is searched for the end mark including the *)
(* byte behind it.                                                         *)
RdAsc(r, n, behind) ==
  LET rd[i \in 0 .. Len(r), k \in 0 .. n] ==
        LET c == SubSeq(r, i + 1, Min({i + k, Len(r)}))
            v == Collapse(c) IN
        CASE k = 0 -> [data |-> <<>>, used |-> i, eof |-> FALSE]
          [] c = <<>> \/ SUB \in ToSet(c) \/ (Len(c) = k /\ behind = SUB)
             -> [data |-> v, used |-> i + Len(c), eof |-> TRUE]
          [] OTHER -> LET q == rd[i + Len(c), k - Len(v)] IN [q EXCEPT !.data = v \o @]
  IN rd[0, n]
RdBin(r, n) ==
  LET c == SubSeq(r, 1, Min({n, Len(r)})) IN [data |-> c, used |-> Len(c), eof |-> c = <<>>]
Read(d, fd, n, behind) ==
  LET c == d.chan[fd]
      raw == SubSeq(d.files[c.file], c.pos + 1, Len(d.files[c.file]))
      got == IF "ISASCII" \in c.flags THEN RdAsc(raw, n, behind) ELSE RdBin(raw, n) IN
  IF "ATEOF" \in c.flags THEN [disk |-> d, data |-> <<>>]
  ELSE [disk |-> [d EXCEPT !.chan[fd].pos = @ + got.used,
                           !.chan[fd].flags = @ \cup (IF got.eof THEN {"ATEOF"} ELSE {})],
        data |-> got.data]

(***************************************************************************)
(* Streams.  base is "null", or where the buffer is: in the "memory" of    *)
(* malloc() or the program, in "onebuf", or in "csave", a variable of a    *)
(* call that has returned.  ptr counts from base and is -1 for a null      *)
(* pointer; buf is what the buffer holds.                                  *)
(***************************************************************************)
InUse(st) == st.flag \cap {"READ", "WRT"} /= {}
Closed(st) == [st EXCEPT !.flag = @ \cap {"ASCI"}, !.base = "null", !.ptr = -1, !.cnt = 0, !.buf = <<>>]
Pending(st) == IF st.base = "memory" THEN SubSeq(st.buf, 1, st.ptr) ELSE <<>>

Fflush(d, st) ==
  LET isWrt == "WRT" \in st.flag
      buffered == isWrt /\ "NBF" \notin st.flag /\ st.ptr > 0
      w == Write(d, st.fd, Pending(st))
      home == IF st.base = "null" THEN -1 ELSE 0 IN
  IF buffered /\ w.ret /= st.ptr
  THEN [disk |-> w.disk, st |-> [st EXCEPT !.flag = @ \cup {"ERR"}], ret |-> -1]
  ELSE IF isWrt
  THEN [disk |-> IF buffered THEN w.disk ELSE d, ret |-> 0,
        st |-> [st EXCEPT !.ptr = home, !.buf = <<>>,
                          !.cnt = IF st.base = "null" THEN @
                                  ELSE IF "NBF" \in st.flag THEN 1 ELSE BUFSIZ - 1]]
  ELSE [disk |-> Lseek(d, st.fd, -st.cnt, "cur").disk, ret |-> 0,
        st |-> [st EXCEPT !.ptr = home, !.cnt = 0, !.buf = <<>>]]

(* mutant: the flags of the mode stay. *)
FcloseKeepsMode(d, st) ==
  LET b == IF InUse(st) THEN Fflush(d, st).disk ELSE d
  IN [disk |-> Close(b, st.fd), st |-> [Closed(st) EXCEPT !.flag = st.flag]]
Fclose(d, st) ==
  LET b == IF InUse(st) THEN Fflush(d, st).disk ELSE d
  IN [disk |-> Close(b, st.fd), st |-> Closed(st)]

(* What fputc() does: with room, store; else _flsbuf().                    *)
Store(st, c) ==
  [st EXCEPT !.ptr = @ + 1, !.buf = IF st.base = "memory" THEN Append(Pending(st), c) ELSE <<>>]
PutNow(d, st, c) == \* a stream without a buffer
  [disk |-> Write(d, st.fd, <<c>>).disk, ret |-> c,
   st |-> [st EXCEPT !.flag = @ \cup {"NBF"}, !.base = "csave", !.ptr = 1, !.cnt = 0, !.buf = <<>>]]
PutFirst(d, st, c) == \* the buffer has been allocated
  [disk |-> d, ret |-> IF c = FF THEN EOF ELSE c,
   st |-> [st EXCEPT !.base = "memory", !.ptr = 1,
                     !.cnt = BUFSIZ - 2, !.buf = <<c>>]]
PutFull(d, st, c) ==
  LET full == Store(st, c) IN
  [disk |-> Write(d, st.fd, Pending(full)).disk, ret |-> c,
   st |-> [full EXCEPT !.cnt = BUFSIZ - 1, !.ptr = 0, !.buf = <<>>]]
Flsbuf(d, st, c) ==
  IF "NBF" \in st.flag THEN {PutNow(d, st, c)}
  ELSE IF st.base = "null" THEN {PutNow(d, st, c), PutFirst(d, st, c)}
  ELSE {PutFull(d, st, c)}
Puts(d, st, c) ==
  IF st.cnt >= 1 THEN {[disk |-> d, st |-> [Store(st, c) EXCEPT !.cnt = @ - 1], ret |-> c]}
  ELSE Flsbuf(d, st, c)

(* What fgetc() does: _filbuf() where nothing is left.                     *)
Buffers(st) ==
  IF "NBF" \in st.flag THEN {[st EXCEPT !.base = "onebuf"]}
  ELSE IF st.base = "null"
  THEN {[st EXCEPT !.base = "onebuf", !.flag = @ \cup {"NBF"}],
        [st EXCEPT !.base = "memory"]}
  ELSE {st}
Fill(d, st, behind) ==
  LET r == Read(d, st.fd, IF "NBF" \in st.flag THEN 1 ELSE BUFSIZ, behind) IN
  IF r.data = <<>>
  THEN [disk |-> r.disk, st |-> [st EXCEPT !.cnt = 0], ret |-> EOF]
  ELSE [disk |-> r.disk, ret |-> Head(r.data),
        st |-> [st EXCEPT !.cnt = Len(r.data) - 1, !.ptr = 1, !.buf = r.data]]
Gets(d, st) ==
  IF st.cnt >= 1
  THEN {[disk |-> d, st |-> [st EXCEPT !.cnt = @ - 1, !.ptr = @ + 1], ret |-> st.buf[st.ptr + 1]]}
  ELSE {Fill(d, b, x) : b \in Buffers(st), x \in Beyond}

(* The position ftell() works out from the channel's; null - base is taken *)
(* for a negative number, as it is where addresses are above 0.            *)
LFs(s) == Cardinality({i \in DOMAIN s : s[i] = LF})
Told(d, st) ==
  LET p == Lseek(d, st.fd, 0, "cur").ret
      n == IF st.ptr = -1 THEN -MAXLEN - 1 ELSE st.ptr
      left == SubSeq(st.buf, st.ptr + 1, Len(st.buf))
      asc == "ASCI" \in st.flag IN
  IF st.base = "null" THEN p
  ELSE IF "WRT" \in st.flag THEN p + n + (IF asc THEN LFs(Pending(st)) ELSE 0)
  ELSE IF p + n > 0 THEN p - st.cnt - (IF asc THEN LFs(left) ELSE 0)
  ELSE p + n

(***************************************************************************)
(* The program.  It uses what it has opened, and does not open a file that *)
(* is open.                                                                *)
(***************************************************************************)
FileOf(s) == chan[iob[s].fd].file
Reading == {s \in Slots : "READ" \in iob[s].flag}
Writing == {s \in Slots : "WRT" \in iob[s].flag}
MayOpen(f, others) == \A s \in others : FileOf(s) /= f
Room(s) == Len(files[FileOf(s)]) + 2 * Len(iob[s].buf) + 2 <= MAXLEN

(* Calls that meet a defect of the library (see the README), by its name.  *)
Unbuffered(s) == s \in Writing /\ "NBF" \in iob[s].flag /\ iob[s].base /= "null"
TextFile(s) == s \in Reading /\ "ASCI" \in iob[s].flag
Plain(s) == ToSet(files[FileOf(s)]) \cap {CR, SUB} = {}
Paired(r) == \A i \in DOMAIN r : /\ r[i] /= SUB
                                 /\ r[i] = LF => i > 1 /\ r[i - 1] = CR
                                 /\ r[i] = CR => i < Len(r) /\ r[i + 1] = LF
FlushTrap(s) == (IF Unbuffered(s) THEN {"unbuffered flush"} ELSE {})
                \cup (IF TextFile(s) /\ ~Plain(s) THEN {"text"} ELSE {})
SeekTrap(s, sense) == FlushTrap(s) \ (IF sense = "cur" THEN {} ELSE {"text"})
TellTrap(s) == (IF Unbuffered(s) THEN {"unbuffered tell"} ELSE {})
               \cup (IF TextFile(s) /\ ~Paired(files[FileOf(s)]) THEN {"text"} ELSE {})
               \cup (IF s \in Reading /\ iob[s].base /= "null" /\ iob[s].ptr = -1
                     THEN {"unread"} ELSE {})
ReopenTrap(s) == IF \E t \in Slots : t < s /\ ~InUse(iob[t]) THEN {"gap"} ELSE {}

(* The channel for a mode of fopen() or freopen().                         *)
Opened(d, f, mode, asc) ==
  CASE mode = "r" -> OpenC(d, f, mode, asc)
    [] mode = "w" -> CreatC(d, f, asc)
    [] mode = "a" -> UNION {IF r.ret = -1 THEN CreatC(r.disk, f, asc)
                            ELSE {[r EXCEPT !.disk = Lseek(r.disk, r.ret, 0, "end").disk]} :
                            r \in OpenC(d, f, mode, asc)}
NewStream(fd, mode, asc) ==
  [fd |-> fd, flag |-> {IF mode = "r" THEN "READ" ELSE "WRT"} \cup (IF asc THEN {"ASCI"} ELSE {}),
   base |-> "null", ptr |-> -1, cnt |-> 0, buf |-> <<>>]
Become(d) == files' = d.files /\ chan' = d.chan
(* A refused append to a file that is there would empty it: see the README. *)
Honest(d, f, mode, r) == mode = "a" /\ d.files[f] \notin {None, <<>>} /\ r.ret /= -1
                           => r.disk.files[f] = d.files[f]

Fopen(f, mode, asc) ==
  LET free == {s \in Slots : ~InUse(iob[s])}  s == Min(free) IN
  /\ MayOpen(f, Slots \ free)
  /\ IF free = {} THEN Call("quiet", 0, 0, 0) /\ UNCHANGED <<files, chan, iob>>
     ELSE \E r \in Opened(Disk, f, mode, asc) :
            /\ Honest(Disk, f, mode, r)
            /\ Become(r.disk)
            /\ IF r.ret = -1 THEN Call("quiet", 0, 0, 0) ELSE Call("fopen", s, mode, s)
            /\ iob' = IF r.ret = -1 THEN iob ELSE [iob EXCEPT ![s] = NewStream(r.ret, mode, asc)]
Freopen(f, mode, asc, s) ==
  LET c == Fclose(Disk, iob[s]) IN
  /\ InUse(iob[s]) /\ ReopenTrap(s) \subseteq Traps
  /\ MayOpen(f, {t \in Slots \ {s} : InUse(iob[t])})
  /\ \E r \in Opened(c.disk, f, mode, asc) :
       /\ Honest(c.disk, f, mode, r)
       /\ Become(r.disk) /\ Call("freopen", s, mode, IF r.ret = -1 THEN 0 ELSE s)
       /\ iob' = [iob EXCEPT ![s] = IF r.ret = -1 THEN c.st ELSE NewStream(r.ret, mode, asc)]
FcloseS(s) ==
  LET c == Fclose(Disk, iob[s]) IN
  /\ InUse(iob[s])
  /\ Become(c.disk) /\ iob' = [iob EXCEPT ![s] = c.st] /\ Call("fclose", s, 0, 0)

Fgetc(s) ==
  /\ s \in Reading
  /\ \E r \in Gets(Disk, iob[s]) :
       Become(r.disk) /\ iob' = [iob EXCEPT ![s] = r.st] /\ Call("fgetc", s, 0, r.ret)
(* A program pushes back the character that it has just read.              *)
Ungetc(s) ==
  LET st == iob[s] IN
  /\ s \in Reading /\ last.op = "fgetc" /\ last.stream = s /\ last.ret /= EOF
  /\ IF st.base /= "null" /\ st.ptr > 0
     THEN /\ iob' = [iob EXCEPT ![s].ptr = @ - 1, ![s].cnt = @ + 1, ![s].buf[st.ptr] = last.ret]
          /\ Call("ungetc", s, last.ret, last.ret)
     ELSE Call("ungetc", s, last.ret, EOF) /\ UNCHANGED iob
  /\ UNCHANGED <<files, chan>>
Fputc(s, c) ==
  /\ s \in Writing /\ Room(s)
  /\ \E r \in Puts(Disk, iob[s], c) :
       Become(r.disk) /\ iob' = [iob EXCEPT ![s] = r.st] /\ Call("fputc", s, c, r.ret)

FflushS(s) ==
  LET r == Fflush(Disk, iob[s]) IN
  /\ InUse(iob[s]) /\ FlushTrap(s) \subseteq Traps
  /\ Become(r.disk) /\ iob' = [iob EXCEPT ![s] = r.st] /\ Call("quiet", 0, 0, 0)
Fseek(s, offs, sense) ==
  LET r == Fflush(Disk, iob[s])  l == Lseek(r.disk, iob[s].fd, offs, sense) IN
  /\ InUse(iob[s]) /\ SeekTrap(s, sense) \subseteq Traps
  /\ Become(l.disk) /\ iob' = [iob EXCEPT ![s] = r.st]
  /\ Call("fseek", s, <<offs, sense>>, IF l.ret = -1 THEN -1 ELSE 0)
Ftell(s) ==
  /\ InUse(iob[s]) /\ TellTrap(s) \subseteq Traps
  /\ Become(Lseek(Disk, iob[s].fd, 0, "cur").disk)
  /\ Call("ftell", s, 0, Told(Disk, iob[s])) /\ UNCHANGED iob
Setbuf(s, buf) ==
  LET st == iob[s] IN
  /\ InUse(st) /\ st.base = "null"
  /\ iob' = [iob EXCEPT ![s] = IF buf THEN [st EXCEPT !.base = "memory", !.ptr = 0, !.flag = @ \ {"NBF"}]
                               ELSE [st EXCEPT !.flag = @ \cup {"NBF"}]]
  /\ Call("quiet", 0, 0, 0) /\ UNCHANGED <<files, chan>>

(* exit() closes all streams in order; then another program may start.     *)
FreshStreams == [s \in Slots |-> [Closed(NewStream(s, "r", FALSE)) EXCEPT !.fd = s]]
Exit ==
  LET one(d, s) == Fclose(d, iob[s]).disk
      d == FoldLeft(one, Disk, [s \in Slots |-> s]) IN
  /\ files' = d.files /\ chan' = [c \in Channels |-> ClosedChannel]
  /\ iob' = FreshStreams /\ Call("exit", 0, 0, 0)

Init ==
  /\ files \in Contents
  /\ chan = [c \in Channels |-> ClosedChannel] /\ iob = FreshStreams
  /\ last = [op |-> "exit", stream |-> 0, arg |-> 0, ret |-> 0]
Next ==
  \/ Exit
  \/ \E o \in Openings :
       Fopen(o[1], o[2], o[3]) \/ \E s \in Slots : Freopen(o[1], o[2], o[3], s)
  \/ \E s \in Slots :
       \/ FcloseS(s) \/ Fgetc(s) \/ Ungetc(s) \/ FflushS(s) \/ Ftell(s)
       \/ \E c \in Bytes : Fputc(s, c)
       \/ \E sk \in Seeks : Fseek(s, sk[1], sk[2])
       \/ \E buf \in BOOLEAN : Setbuf(s, buf)
Spec == Init /\ [][Next]_vars

(***************************************************************************)
(* Properties.                                                             *)
(***************************************************************************)
(* What the program has put is on the disk or in a buffer, and what it has *)
(* not read is in a buffer or on the disk.                                 *)
LeftInBuffer(st) == SubSeq(st.buf, st.ptr + 1, st.ptr + st.cnt)
Tells(s) ==
  LET st == iob[s]  c == chan[st.fd]  asc == "ISASCII" \in c.flags
      out == IF s \in Reading \/ "NBF" \in st.flag THEN <<>>
             ELSE IF asc THEN Expand(Pending(st)) ELSE Pending(st)
      raw == SubSeq(files[c.file], c.pos + 1, Len(files[c.file]))
  IN [out |-> out,
      rest |-> IF s \in Writing THEN <<>>
               ELSE LeftInBuffer(st) \o (IF "ATEOF" \in c.flags THEN <<>>
                                         ELSE IF asc THEN Collapse(raw) ELSE raw)]
WriterOf(f) == {s \in Writing : FileOf(s) = f}
TrueContents ==
  [f \in Names |->
     IF WriterOf(f) = {} THEN files[f]
     ELSE LET s == CHOOSE s \in WriterOf(f) : TRUE
          IN Patch(files[f], chan[iob[s].fd].pos, Tells(s).out)]
TrueStreams ==
  [s \in Slots |->
     IF ~InUse(iob[s]) THEN None
     ELSE [file |-> FileOf(s), asc |-> "ISASCII" \in chan[iob[s].fd].flags, read |-> s \in Reading,
           rest |-> Tells(s).rest,
           pos |-> IF s \in Reading THEN 0 ELSE chan[iob[s].fd].pos + Len(Tells(s).out)]]
Promise == INSTANCE FileStreams WITH contents <- TrueContents, streams <- TrueStreams

(* Whatever the buffers hold, every program sees files as FileStreams has  *)
(* them: what it reads, what it puts, positions, and the files after exit. *)
ImplementsStreams == Promise!Spec

(* Open streams have open channels of their own, which the allocator does  *)
(* not give away, in the mode of the stream; and there is no open channel  *)
(* that the streams have lost.                                             *)
StreamsOwnChannels ==
  /\ \A s \in Slots : InUse(iob[s]) =>
       /\ IsOpen(Disk, iob[s].fd) /\ chan[iob[s].fd].used
       /\ "ISREAD" \in chan[iob[s].fd].flags <=> s \in Reading
       /\ \A t \in Slots \ {s} : InUse(iob[t]) => iob[t].fd /= iob[s].fd
  /\ \A c \in Channels : IsOpen(Disk, c) => \E s \in Slots : InUse(iob[s]) /\ iob[s].fd = c
=============================================================================
