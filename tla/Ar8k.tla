-------------------------------- MODULE Ar8k --------------------------------
(***************************************************************************)
(* The archiver ar8k (ld8k/ar8k.c): commands d, q, r, t and x over an      *)
(* archive, a temporary file and the files of the directory, any of whose  *)
(* reads and writes may fail, and a process that may die at any moment.    *)
(*                                                                         *)
(* A file is a sequence of cells: the magic word, a member's header, or a  *)
(* byte of data.  A header counts as one cell, since ar8k reads and writes *)
(* it as a whole; what a write that failed leaves of one is Junk.          *)
(***************************************************************************)
EXTENDS Naturals, Sequences, SequencesExt, FiniteSets
CONSTANTS
  Paths,     \* the names of files
  Tail14,    \* path -> the name of the member made of it: tail(), 14 characters
  RunsOn,    \* name of a member -> the paths that creatb() may take it for
  Archives,  \* the archives to begin with
  Dirs,      \* the directories to begin with: path -> contents or None
  Lists,     \* the lists of files on the command line
  Wild,      \* the headers that a read of something else may yield
  BLK,       \* the size of the buffer (512)
  MAXCMDS,   \* bound: commands given
  MAXFAULTS, \* bound: failures of reads and writes, and crashes
  None       \* no file

Magic == [t |-> "magic"]
Junk == [t |-> "junk"]
Header(n, s) == [t |-> "head", name |-> n, size |-> s]
Byte(v) == [t |-> "byte", v |-> v]
Pad == Byte(0)
Heads == [t : {"head"}, name : Paths, size : Nat]
Cells == {Magic, Junk} \cup Heads \cup [t : {"byte"}, v : 0 .. 255]

(* The names of files are not those of the two files that copy() writes.   *)
ASSUME ArAssumption ==
  /\ BLK \in Nat /\ BLK % 2 = 0 /\ BLK > 0
  /\ Paths /= {} /\ {"ar", "tmp"} \cap Paths = {} /\ Tail14 \in [Paths -> Paths]
  /\ RunsOn \in [Paths -> (SUBSET Paths) \ {{}}]
  /\ Lists \subseteq Seq(Paths) /\ None \notin Seq(Cells) /\ Wild \subseteq Heads
  /\ Archives \subseteq Seq(Cells) \cup {None}
  /\ \A d \in Dirs : d \in [Paths -> Seq(Cells) \cup {None}]
  /\ \A d \in Dirs : \A p \in Paths : d[p] = None \/ Len(d[p]) % BLK /= BLK - 1 \* see Copied

VARIABLES
  archive, tmp,   \* the archive and ar8kxxxx.tmp
  files,          \* path -> contents, or None
  pc, key, list,  \* the place in the program and the command
  marks,          \* filmrk[]: the indices of list that are done
  pos,            \* how far arfile, or tpfile when copied back, has been read
  head,           \* the last header
  todo, src, out, ret,  \* copy(): chunks to do, the data of a file, output, return
  cmds, faults,   \* counted against the bounds
  old,            \* history: what the disk held when the command was given
  unread          \* history: d or r has taken a read that failed for an answer
disk == <<archive, tmp, files>>
copyvars == <<todo, src, out, ret>>
vars == <<disk, pc, key, list, marks, pos, head, copyvars, cmds, faults, old, unread>>

Even(n) == n + (n % 2)
-----------------------------------------------------------------------------
(* What an archive holds for a reader that goes from header to header: the *)
(* members that are complete; and whether it reads to the end.             *)
Complete(a, p) == p <= Len(a) /\ a[p].t = "head" /\ p + Even(a[p].size) <= Len(a)
MemberAt(a, p) == [name |-> a[p].name, data |-> SubSeq(a, p + 1, p + a[p].size)]
Members(a) ==
  IF a = None THEN <<>>
  ELSE LET read[n \in 0 .. Len(a)] ==   \* after n headers; at most all cells are headers
             IF n = 0 THEN [at |-> 2, ms |-> <<>>]
             ELSE LET r == read[n - 1] IN
                  IF Complete(a, r.at)
                  THEN [at |-> r.at + Even(a[r.at].size) + 1, ms |-> Append(r.ms, MemberAt(a, r.at))]
                  ELSE r
       IN read[Len(a)].ms

Laid(ms) ==
  FlattenSeq([i \in DOMAIN ms |->
    <<Header(ms[i].name, Len(ms[i].data))>> \o ms[i].data
    \o (IF Len(ms[i].data) % 2 = 1 THEN <<Pad>> ELSE <<>>)])
WellFormed(a) == a = None \/ (a /= <<>> /\ a[1] = Magic
                              /\ Len(a) = 1 + Len(Laid(Members(a))))
-----------------------------------------------------------------------------
Init ==
  /\ archive \in Archives /\ tmp = None
  /\ files \in Dirs
  /\ pc = "idle" /\ key = "t" /\ list = <<>> /\ marks = {} /\ pos = 0
  /\ head = Header(CHOOSE p \in Paths : TRUE, 0)
  /\ todo = <<>> /\ src = <<>> /\ out = "tmp" /\ ret = "loop"
  /\ cmds = 0 /\ faults = 0
  /\ old = [archive |-> archive, files |-> files, faults |-> 0] /\ unread = FALSE

(* A command; d and r first make the temporary file.                       *)
Command ==
  /\ pc = "idle" /\ cmds < MAXCMDS /\ cmds' = cmds + 1
  /\ key' \in {"d", "q", "r", "t", "x"} /\ list' \in Lists
  /\ pc' = CASE key' \in {"d", "r"} -> "settmp" [] key' = "q" -> "openq" [] OTHER -> "open"
  /\ marks' = {} /\ old' = [archive |-> archive, files |-> files, faults |-> faults]
  /\ unread' = FALSE
  /\ UNCHANGED <<disk, pos, head, copyvars, faults>>

(* errex(): the temporary file stays behind.                               *)
Errex == pc' = "idle"

SetTmp ==
  /\ pc = "settmp" /\ tmp' = <<Magic>> /\ pc' = "open"
  /\ UNCHANGED <<archive, files, key, list, marks, pos, head, copyvars, cmds, faults, old, unread>>

(* chmagic() reads the magic word; in an empty file it compares a word     *)
(* that nothing has been read into.                                        *)
MagicMayHold(a) == a /= <<>> => a[1] = Magic
MagicMayFail(a) == a /= <<>> => a[1] /= Magic

OpenArchive ==
  /\ pc = "open" /\ archive /= None
  /\ \/ MagicMayFail(archive) /\ Errex /\ UNCHANGED pos
     \/ MagicMayHold(archive) /\ pc' = "loop" /\ pos' = 1
  /\ UNCHANGED <<disk, key, list, marks, head, copyvars, cmds, faults, old, unread>>

OpenNoArchive ==
  /\ pc = "open" /\ archive = None
  /\ IF key = "r" THEN key' = "q" /\ pc' = "openq" ELSE Errex /\ UNCHANGED key
  /\ UNCHANGED <<disk, list, marks, pos, head, copyvars, cmds, faults, old, unread>>

(* q appends in place, to a new archive if there is none.                  *)
OpenToAppend ==
  /\ pc = "openq"
  /\ IF archive = None THEN archive' = <<Magic>> /\ pc' = "append"
     ELSE /\ UNCHANGED archive
          /\ \/ MagicMayFail(archive) /\ Errex
             \/ MagicMayHold(archive) /\ pc' = "append"
  /\ UNCHANGED <<tmp, files, key, list, marks, pos, head, copyvars, cmds, faults, old, unread>>
-----------------------------------------------------------------------------
(* inlist(): the first name of the list that is not done and fits the      *)
(* member's.                                                               *)
HitsAgain == {i \in DOMAIN list : Tail14[list[i]] = head.name}  \* mutant: a name is used again
Hits == {i \in DOMAIN list \ marks : Tail14[list[i]] = head.name}
Hit == CHOOSE i \in Hits : \A j \in Hits : i <= j

(* The chunks of copy(): how much is read and how much written each time.  *)
(* A file has no padding (ODD), a member of an archive has (EVEN).         *)
Chunks(size, outflag, inflag) ==
  LET r == size % BLK
      Rounded(flag) == IF flag = "EVEN" THEN Even(r) ELSE r
  IN [i \in 1 .. size \div BLK |-> [get |-> BLK, put |-> BLK]]
     \o (IF r = 0 THEN <<>> ELSE <<[get |-> Rounded(inflag), put |-> Rounded(outflag)]>>)
PutHead == [get |-> 0, put |-> 0]      \* not a chunk: puthead()

(* puthead(f) and copy() of a member of the archive.                       *)
PassOn ==
  /\ todo' = <<PutHead>> \o Chunks(head.size, "EVEN", "EVEN")
  /\ src' = None /\ out' = "tmp" /\ ret' = "loop" /\ pc' = "copy"
  /\ UNCHANGED <<files, marks, pos, head>>

(* getfile(): the header and the contents of file number i of the list.    *)
GetFile(i, to, back) ==
  /\ head' = Header(Tail14[list[i]], Len(files[list[i]]))
  /\ todo' = <<PutHead>> \o Chunks(Len(files[list[i]]), "EVEN", "ODD")
  /\ src' = files[list[i]] /\ out' = to /\ ret' = back /\ pc' = "copy"
  /\ marks' = marks \cup {i}

SkipUnpadded == pos' = pos + head.size \* mutant: the padding is not skipped
Skip == pos' = pos + Even(head.size)

(* The loop of main(): one header, and what the command does with it.      *)
ReadHead ==
  /\ pc = "loop" /\ pos < Len(archive)
  /\ head' \in (IF archive[pos + 1].t = "head" THEN {archive[pos + 1]} ELSE Wild)
  /\ pos' = pos + 1 /\ pc' = "member"
  /\ UNCHANGED <<disk, key, list, marks, copyvars, cmds, faults, old, unread>>

(* The loop ends where there is no header, or too little to make one.      *)
LeaveLoop ==
  pc' = IF key \notin {"d", "r"} THEN "end"
        ELSE IF key = "r" /\ marks /= DOMAIN list THEN "append" ELSE "recreate"

EndLoop ==
  /\ pc = "loop" /\ (pos < Len(archive) => archive[pos + 1].t /= "head")
  /\ LeaveLoop
  /\ UNCHANGED <<disk, key, list, marks, pos, head, copyvars, cmds, faults, old, unread>>

Delete ==
  /\ pc = "member" /\ key = "d"
  /\ IF Hits /= {} THEN /\ Skip /\ marks' = marks \cup {Hit} /\ pc' = "loop"
                        /\ UNCHANGED <<files, head, copyvars>>
     ELSE PassOn
  /\ UNCHANGED <<archive, tmp, key, list, cmds, faults, old, unread>>

(* inlist() marks the name before the file is opened.                      *)
Replace ==
  /\ pc = "member" /\ key = "r"
  /\ \/ /\ Hits /= {} /\ files[list[Hit]] /= None
        /\ Skip /\ GetFile(Hit, "tmp", "loop") /\ UNCHANGED files
     \/ /\ Hits /= {} /\ files[list[Hit]] = None
        /\ todo' = <<PutHead>> \o Chunks(head.size, "EVEN", "EVEN")
        /\ src' = None /\ out' = "tmp" /\ ret' = "loop" /\ pc' = "copy"
        /\ marks' = marks \cup {Hit} /\ UNCHANGED <<files, pos, head>>
     \/ Hits = {} /\ PassOn
  /\ UNCHANGED <<archive, tmp, key, list, cmds, faults, old, unread>>

Table ==
  /\ pc = "member" /\ key = "t" /\ Skip /\ pc' = "loop"
  /\ marks' = IF list /= <<>> /\ Hits /= {} THEN marks \cup {Hit} ELSE marks
  /\ UNCHANGED <<disk, key, list, head, copyvars, cmds, faults, old, unread>>

(* A file that cannot be created is passed over.  creatb() is given the    *)
(* field of the header: a name that fills its 14 bytes has no end there    *)
(* and goes on with the bytes of the date.                                 *)
Extract ==
  /\ pc = "member" /\ key = "x"
  /\ marks' = IF list /= <<>> /\ Hits /= {} THEN marks \cup {Hit} ELSE marks
  /\ \/ /\ list = <<>> \/ Hits /= {}
        /\ out' \in RunsOn[head.name] /\ files' = [files EXCEPT ![out'] = <<>>]
        /\ todo' = Chunks(head.size, "ODD", "EVEN") /\ src' = None
        /\ ret' = "loop" /\ pc' = "copy"
        /\ UNCHANGED <<pos, faults>>
     \/ /\ list = <<>> \/ Hits /= {}
        /\ faults < MAXFAULTS /\ faults' = faults + 1
        /\ Skip /\ pc' = "loop" /\ UNCHANGED <<files, copyvars>>
     \/ /\ list /= <<>> /\ Hits = {}
        /\ Skip /\ pc' = "loop" /\ UNCHANGED <<files, copyvars, faults>>
  /\ UNCHANGED <<archive, tmp, key, list, head, cmds, old, unread>>

(* append(): the files of the list that are not done, in its order.        *)
AppendFile ==
  LET rest == {i \in DOMAIN list \ marks : files[list[i]] /= None} IN
  /\ pc = "append"
  /\ IF rest = {} THEN /\ pc' = IF key = "q" THEN "end" ELSE "recreate"
                       /\ UNCHANGED <<marks, head, copyvars>>
     ELSE LET i == CHOOSE i \in rest : \A j \in rest : i <= j IN
          GetFile(i, IF key = "q" THEN "ar" ELSE "tmp", "append")
  /\ UNCHANGED <<disk, key, list, pos, cmds, faults, old, unread>>
-----------------------------------------------------------------------------
Written(cells) ==
  CASE out = "ar"  -> archive' = archive \o cells /\ UNCHANGED <<tmp, files>>
    [] out = "tmp" -> tmp' = tmp \o cells /\ UNCHANGED <<archive, files>>
    [] OTHER -> files' = [files EXCEPT ![out] = @ \o cells] /\ UNCHANGED <<archive, tmp>>

(* One turn of copy(): what it read and what it writes of it.  The byte    *)
(* that makes the length even is cleared behind what was read; for a       *)
(* remainder of BLK - 1 read from an archive that is one behind the buffer.*)
ReadOK(c) == c = PutHead \/ src /= None \/ pos + c.get <= Len(archive)
Copied(c) ==
  LET got == SubSeq(IF src = None THEN SubSeq(archive, pos + 1, pos + c.get) ELSE src, 1, c.get)
  IN IF c = PutHead THEN <<head>>
     ELSE IF c.put > c.get THEN Append(got, Pad) ELSE SubSeq(got, 1, c.put)
Advance(c) ==
  /\ todo' = Tail(todo)
  /\ src' = IF src = None \/ c = PutHead THEN src ELSE SubSeq(src, c.get + 1, Len(src))
  /\ pos' = IF src = None THEN pos + c.get ELSE pos

CopyChunk ==
  /\ pc = "copy" /\ todo /= <<>> /\ ReadOK(Head(todo))
  /\ Written(Copied(Head(todo))) /\ Advance(Head(todo))
  /\ UNCHANGED <<pc, key, list, marks, head, out, ret, cmds, faults, old, unread>>

BadRead ==
  /\ pc = "copy" /\ todo /= <<>> /\ ~ReadOK(Head(todo)) /\ Errex
  /\ UNCHANGED <<disk, key, list, marks, pos, head, copyvars, cmds, faults, old, unread>>

EndCopy ==
  /\ pc = "copy" /\ todo = <<>> /\ pc' = ret
  /\ UNCHANGED <<disk, key, list, marks, pos, head, copyvars, cmds, faults, old, unread>>

(* The temporary file is copied over the archive, whatever is in it.       *)
Recreate ==
  /\ pc = "recreate"
  /\ \/ archive' = <<>> /\ pos' = 0 /\ pc' = "recopy" /\ UNCHANGED faults
     \/ /\ faults < MAXFAULTS /\ faults' = faults + 1
        /\ pc' = "end" /\ UNCHANGED <<archive, pos>>
  /\ UNCHANGED <<tmp, files, key, list, marks, head, copyvars, cmds, old, unread>>

Block == SubSeq(tmp, pos + 1, IF pos + BLK > Len(tmp) THEN Len(tmp) ELSE pos + BLK)

Recopy ==
  /\ pc = "recopy"
  /\ archive' = archive \o Block /\ pos' = pos + Len(Block)
  /\ pc' = IF Block = <<>> THEN "end" ELSE "recopy"
  /\ UNCHANGED <<tmp, files, key, list, marks, head, copyvars, cmds, faults, old, unread>>

(* The end of main(), or exit(0) after q.                                  *)
Finish ==
  /\ pc = "end" /\ pc' = "idle"
  /\ tmp' = IF key \in {"d", "r"} THEN None ELSE tmp
  /\ UNCHANGED <<archive, files, key, list, marks, pos, head, copyvars, cmds, faults, old, unread>>
-----------------------------------------------------------------------------
(* A write of which only a part reaches the disk; ar8k tests for it and    *)
(* gives up.  It dies elsewhere if it is interrupted or the machine stops. *)
Partly(cells) ==
  \E k \in 0 .. Len(cells) - 1 :
    Written(IF cells = <<head>> THEN (IF k = 0 THEN <<Junk>> ELSE <<>>)
            ELSE SubSeq(cells, 1, k))

WriteFails ==
  /\ faults < MAXFAULTS /\ faults' = faults + 1 /\ Errex
  /\ \/ pc = "settmp" /\ tmp' = <<>> /\ UNCHANGED <<archive, files>>
     \/ pc = "openq" /\ archive = None /\ archive' = <<>> /\ UNCHANGED <<tmp, files>>
     \/ pc = "copy" /\ todo /= <<>> /\ ReadOK(Head(todo)) /\ Partly(Copied(Head(todo)))
     \/ /\ pc = "recopy" /\ Block /= <<>> /\ UNCHANGED <<tmp, files>>
        /\ \E k \in 0 .. Len(Block) - 1 : archive' = archive \o SubSeq(Block, 1, k)
  /\ UNCHANGED <<key, list, marks, pos, head, copyvars, cmds, old, unread>>

(* A read that fails.  Only copy() tests for it: in the loop it is the end *)
(* of the archive, and when the temporary file is copied back it is the    *)
(* end of that; chmagic() compares a word that nothing has been read into, *)
(* and if that is the magic word the loop begins with it.                  *)
ReadFails ==
  /\ faults < MAXFAULTS /\ faults' = faults + 1
  /\ \/ /\ pc = "loop" /\ LeaveLoop
        /\ unread' = (unread \/ key \in {"d", "r"}) /\ UNCHANGED pos
     \/ /\ pc = "recopy" /\ pc' = "end" /\ unread' = TRUE /\ UNCHANGED pos
     \/ /\ pc = "open" /\ archive /= None /\ pc' = "loop" /\ pos' = 0
        /\ unread' = (unread \/ key \in {"d", "r"})
     \/ /\ pc = "openq" /\ archive /= None /\ pc' = "append" /\ UNCHANGED <<pos, unread>>
     \/ /\ \/ pc \in {"open", "openq"} /\ archive /= None
           \/ pc = "copy" /\ todo /= <<>> /\ Head(todo) /= PutHead
        /\ Errex /\ UNCHANGED <<pos, unread>>
  /\ UNCHANGED <<disk, key, list, marks, head, copyvars, cmds, old>>

Dies ==
  /\ pc /= "idle" /\ faults < MAXFAULTS /\ faults' = faults + 1 /\ pc' = "idle"
  /\ UNCHANGED <<disk, key, list, marks, pos, head, copyvars, cmds, old, unread>>

Done == pc = "idle" /\ cmds = MAXCMDS /\ UNCHANGED vars

Next ==
  \/ Command \/ SetTmp \/ OpenArchive \/ OpenNoArchive \/ OpenToAppend
  \/ ReadHead \/ EndLoop \/ Delete \/ Replace \/ Table \/ Extract \/ AppendFile
  \/ CopyChunk \/ BadRead \/ EndCopy \/ Recreate \/ Recopy \/ Finish
  \/ WriteFails \/ ReadFails \/ Dies \/ Done
Spec == Init /\ [][Next]_vars
-----------------------------------------------------------------------------
(* What the commands promise, from the members before to those after.      *)
Rank(s, i) == Cardinality({j \in 1 .. i : s[j] = s[i]})
Count(s, x) == Cardinality({j \in DOMAIN s : s[j] = x})
Pick(s, I) == LET order == SetToSortSeq(I, <) IN [k \in DOMAIN order |-> s[order[k]]]
Names(ms) == [i \in DOMAIN ms |-> ms[i].name]
Tails == [i \in DOMAIN list |-> Tail14[list[i]]]
PathsFor(n) == SelectSeq(list, LAMBDA p : Tail14[p] = n)
File(p) == [name |-> Tail14[p], data |-> old.files[p]]

(* Each name of the list stands for one member, the next of that name.     *)
Listed(ms, i) == Rank(Names(ms), i) <= Count(Tails, ms[i].name)
FileOf(ms, i) == PathsFor(ms[i].name)[Rank(Names(ms), i)]
Added(ms) ==
  Pick([i \in DOMAIN list |-> File(list[i])],
       {i \in DOMAIN list : old.files[list[i]] /= None
                            /\ (key = "r" => Rank(Tails, i) > Count(Names(ms), Tails[i]))})
Expected(ms) ==
  CASE key = "d" -> Pick(ms, {i \in DOMAIN ms : ~Listed(ms, i)})
    [] key = "r" -> [i \in DOMAIN ms |->
                       IF Listed(ms, i) /\ old.files[FileOf(ms, i)] /= None
                       THEN File(FileOf(ms, i)) ELSE ms[i]] \o Added(ms)
    [] key = "q" -> ms \o Added(ms)
    [] OTHER -> ms
(* x makes a file of each member that it takes, the last of a name last.   *)
Taken(ms) == {i \in DOMAIN ms : key = "x" /\ (list = <<>> \/ Listed(ms, i))}
FilesAsStored(ms) ==
  /\ \A i \in Taken(ms) :
       (\A j \in Taken(ms) : ms[j].name = ms[i].name => j <= i) =>
         \E p \in RunsOn[ms[i].name] : files[p] = ms[i].data
  /\ \A p \in Paths :
       (\A i \in Taken(ms) : p \notin RunsOn[ms[i].name]) => files[p] = old.files[p]

(* A command that meets no failure turns a well-formed archive into the    *)
(* one that it should make, well-formed again, and extracts each file as   *)
(* it was when it was stored, touching no other: headers, blocks and       *)
(* padding line up whatever the lengths (main(), getfile(), copy(),        *)
(* append()).  The file has the member's name if that is shorter than 14   *)
(* characters; one of 14 (or cut to 14) runs on into the date (RunsOn).    *)
CommandDone ==
  pc = "end" /\ faults = old.faults /\ WellFormed(old.archive) =>
    /\ WellFormed(archive) /\ Members(archive) = Expected(Members(old.archive))
    /\ FilesAsStored(Members(old.archive))

(* Whatever write or creat fails and whenever ar8k dies, no member is lost *)
(* that the command was not to delete: archive or ar8kxxxx.tmp has them    *)
(* all, in order, those that r replaces in their old or their new form.    *)
(* So it is when a read fails in t, x, q or copy(); but a read of the      *)
(* magic word, of a header or of the temporary file that fails in d or r   *)
(* (unread) does lose members, until the next command is given.            *)
Undeleted(ms) ==
  LET left[n \in 0 .. Len(ms)] ==
        IF n = 0 THEN <<>>
        ELSE IF key = "d" /\ Count(Tails, ms[n].name) > 0 THEN left[n - 1]
        ELSE Append(left[n - 1], ms[n])
  IN left[Len(ms)]
Stands(new, m) ==
  \/ new = m
  \/ key = "r" /\ \E k \in DOMAIN list : new = File(list[k]) /\ new.name = m.name
Keeps(a) ==
  LET was == Undeleted(Members(old.archive))
      is == Undeleted(Members(a))
  IN Len(was) <= Len(is) /\ \A i \in DOMAIN was : Stands(is[i], was[i])
NothingLost == unread \/ Keeps(archive) \/ Keeps(tmp)
=============================================================================
