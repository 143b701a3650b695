----------------------------- MODULE FileStreams -----------------------------
(***************************************************************************)
(* What a program may expect of streams: a stream open for reading has a   *)
(* rest, which is what has not been read; one open for writing a position  *)
(* in its file, which has whatever was put there.  Buffers, fflush() and   *)
(* exit() make no difference.                                              *)
(***************************************************************************)
EXTENDS Integers, Sequences, SequencesExt
CONSTANTS None, EOF, CR, LF, SUB
VARIABLES
  contents,   \* file -> its bytes, or None
  streams,    \* stream -> None or [file, asc, read, rest, pos]
  last        \* the latest call: [op, stream, arg, ret]

(* The bytes of a text file as a program sees them, and as they are put.   *)
Visible(s, asc) ==
  LET n == SelectInSeq(s, LAMBDA c : c = SUB)
      t == IF n = 0 THEN s ELSE SubSeq(s, 1, n - 1)
  IN IF asc THEN SelectSeq(t, LAMBDA c : c /= CR) ELSE s
After(s, p) == SubSeq(s, p + 1, Len(s))
Text(c, asc) == IF asc /\ c = LF THEN <<CR, LF>> ELSE <<c>>
Overwrite(s, p, new) == SubSeq(s, 1, p) \o new \o After(s, p + Len(new))

Open(s) ==
  /\ last'.op \in {"fopen", "freopen"}
  /\ LET n == streams'[s]  f == n.file IN
     /\ n /= None /\ streams' = [streams EXCEPT ![s] = n]
     /\ CASE last'.arg = "r" -> n.rest = Visible(contents[f], n.asc) /\ contents' = contents
          [] last'.arg = "w" -> n.pos = 0 /\ contents' = [contents EXCEPT ![f] = <<>>]
          [] OTHER -> /\ contents' = [contents EXCEPT ![f] = IF @ = None THEN <<>> ELSE @]
                      /\ n.pos = Len(contents'[f])
Close(s) ==
  /\ last'.op \in {"fclose", "freopen"}
  /\ streams' = [streams EXCEPT ![s] = None] /\ UNCHANGED contents
CloseAll ==
  /\ last'.op = "exit"
  /\ streams' = [s \in DOMAIN streams |-> None] /\ UNCHANGED contents

Get(s) ==
  /\ last'.op = "fgetc"
  /\ IF streams[s].rest = <<>> THEN last'.ret = EOF /\ UNCHANGED streams
     ELSE /\ last'.ret = Head(streams[s].rest)
          /\ streams' = [streams EXCEPT ![s].rest = Tail(@)]
  /\ UNCHANGED contents
Unget(s) ==
  /\ last'.op = "ungetc" /\ last'.ret = last'.arg
  /\ streams' = [streams EXCEPT ![s].rest = <<last'.arg>> \o @] /\ UNCHANGED contents
Put(s) ==
  /\ last'.op = "fputc" /\ last'.ret = last'.arg
  /\ LET t == streams[s]  b == Text(last'.arg, t.asc) IN
     /\ contents' = [contents EXCEPT ![t.file] = Overwrite(@, t.pos, b)]
     /\ streams' = [streams EXCEPT ![s].pos = @ + Len(b)]

(* The position a call to fseek() names; one outside the file is refused,  *)
(* and where a text file is then read is not specified.                    *)
Target(s, offs, sense) ==
  LET t == streams[s]  len == Len(contents[t.file]) IN
  offs + CASE sense = "set" -> 0
           [] sense = "end" -> len
           [] sense = "cur" -> IF t.read THEN len - Len(t.rest) ELSE t.pos
Seek(s) ==
  /\ last'.op = "fseek"
  /\ LET t == streams[s]  p == Target(s, last'.arg[1], last'.arg[2])
         raw == After(contents[t.file], p) IN
     streams' = [streams EXCEPT ![s] =
       IF p \in 0 .. Len(contents[t.file])
       THEN IF t.read THEN [t EXCEPT !.rest = Visible(raw, t.asc)] ELSE [t EXCEPT !.pos = p]
       ELSE IF t.read /\ t.asc THEN [t EXCEPT !.rest = streams'[s].rest] ELSE t]
  /\ UNCHANGED contents

(* ftell() gives a position from which the same would be read.             *)
Tell(s) ==
  /\ last'.op = "ftell"
  /\ LET t == streams[s]  p == last'.ret IN
     /\ p \in 0 .. Len(contents[t.file])
     /\ IF t.read THEN t.rest = Visible(After(contents[t.file], p), t.asc) ELSE p = t.pos
  /\ UNCHANGED <<contents, streams>>
NoEffect == last'.op = "quiet" /\ UNCHANGED <<contents, streams>>

Init == streams = [s \in DOMAIN streams |-> None]
Next == \/ CloseAll \/ NoEffect
        \/ \E s \in DOMAIN streams :
             /\ last'.stream = s
             /\ \/ Open(s)
                \/ streams[s] /= None
                   /\ (Close(s) \/ Get(s) \/ Unget(s) \/ Put(s) \/ Seek(s) \/ Tell(s))
Spec == Init /\ [][Next]_<<contents, streams, last>>
=============================================================================
