# Verification of the Alcyon Z8000 tool chain

This directory holds TLA+ models of the Alcyon C cross compiler for the Z8000
(`cpp68`, `c068`, `c1z8k`, `asz8k`, `xcon`, `ld8k`, `ar8k` and the run-time library
`libcpm`), the TLC configurations that check them on small instances, and theorems
about them that the TLA+ proof system checks. Part 1 is the inventory of the system,
part 2 what is modelled and how it corresponds to the code, part 3 the runs, part 4
the proofs, part 5 the disagreements found, part 6 what is not modelled and the plan.

To repeat a run: `tlc -config MCLd8k.cfg MCLd8k`; to repeat the proofs: `tlapm VmProofs.tla`.

## 1. The system

The tools are sequential programs that hand files to each other; none of them runs
threads or handles signals. What is hard in them is of another kind: every tool reads its
input twice (or more often) and has to come out the same way each time; addresses and
numbers are kept by hand in tables that refer to each other; text is pushed back, recorded and
read again; trees are rewritten in place; and errors are found late.

| Component | Directory | State | Operations | Model |
|---|---|---|---|---|
| cpp68 | `cpp/` | define table, push-back buffer, file stack, condition stack | directives, macro expansion, `#if` expressions | `Cpp`, `CppExpr` |
| c068, statements | `parser/stmt.c symt.c icode.c` | labels, switch table, scopes, trees kept for a `for` | one handler per statement | `Stmt` |
| c068, the rest | `parser/` | expression stacks, types | declarations, expressions, initialisers | none |
| c1z8k, canonical trees | `cgen_z8k/canon.c sucomp.c` | one expression tree | bit fields, sort, fold, simplify | `Canon` |
| c1z8k, the rest | `cgen_z8k/` | registers in use | match skeletons, emit | none |
| asz8k, two passes | `asz8k/` | symbols, sections, conditions, object block | one statement at a time, twice | `Asz8k` |
| asz8k, macros and input | `asz8k/ainput.c aascom.c adirec.c` | input stack, recorded bodies | macro, repeat, call, exit, include | `Macros` |
| asz8k, paged storage | `asz8k/avm.c` | chain of buffers, file `VM.TMP` | fetch, store, allocate | `Vm` |
| asz8k, encoding | `asz8k/asz8k.pd` | none | tables of encodings | none |
| xcon | `ld8k/xcon.c` | segment table, numbers of the externals, three offsets into its output | one block at a time, two passes | `Xcon` |
| ld8k | `ld8k/ld8k.c` | symbol table with hash, segment table, maps per module, positions of archive members | command line, scan of files, commons, layout, relocation | `Ld8kPass1`, `Ld8k` |
| ar8k | `ld8k/ar8k.c` | archive, temporary copy, marks of the names done | d, q, r, t, x | `Ar8k` |
| xdump | `ld8k/xdump.c` | none | print | none |
| libcpm heap | `libcpm/malloc.c sbrk.c` | ring of free blocks | malloc, free, realloc | `Heap` |
| libcpm files | `libcpm/` | channels with one record each, streams with a buffer each | open, read, write, seek, flush, close | `Streams` |
| libcpm, other | `libcpm/` | little | formatting, strings, arithmetic, start-up | none |
| 68000 tools | `as/ cgen/ link68/ optimize/ util/` | | kept for reference (README.md:39 of the repository) | none |
| tests | `test_z8k/` | | shell scripts, expected outputs | none |

How they interact: `asz8k` ends by calling `xcon` on its output (`aascom.c:65-78`), and the
two agree on the numbering of externals without writing it down: asz8k numbers them in the
order in which it lists them, and xcon counts. `ld8k` and `ar8k` share the archive format; `ld8k`
reads each module in pass 1 for its symbols and in pass 2 for its contents and relies on meeting
the same modules at the same places. Inside `asz8k`, the symbol table, the macros and the cross
reference live in a file `VM.TMP` of which a few blocks are in memory; pointers into those blocks
become stale when enough other blocks have been fetched. `c068` writes trees and labels to a file
that `c1z8k` reads; the streams of `libcpm` are buffers over channels, which are shared with the
calls on bare descriptors and given out again when closed.

What makes the components correct, and hard:

- **cpp68**: the output is the text that the conditionals choose, expanded, and its line markers are
  true. Hard: expansion by pushing text back in front of the input, lines counted in four places.
- **c068**: code does what the program says, whatever is nested in what. Hard: five label variables, one
  switch table and one area of kept trees, saved and restored by hand by recursive functions.
- **c1z8k**: a canonical tree has the value and the effects of the tree given. Hard: rewriting in place
  until nothing changes, with constants folded in the arithmetic of the host.
- **asz8k**: both passes give each label the same value, or say so; the object file holds what pass
  2 emitted, byte for byte, with the relocations the source asked for. Hard: conditional assembly
  that depends on symbols which only pass 2 knows, sections that are left and taken up again, blocks
  that fill from both ends; bodies recorded in memory that is given back, frames popped in the middle.
- **asz8k's storage**: the pool and the file together are a memory. Hard: pointers across fetches,
  blocks that were never written.
- **xcon**: a reader of the x.out file finds every byte, entry and symbol where the header leads it
  to look. Hard: three write positions computed from pass 1.
- **ld8k**: names are resolved independently of the order of modules except where archives make it
  matter; no two modules share a byte; each relocated word gets the address of its target; pass 2
  repeats pass 1. Hard: archives searched repeatedly, commons, locals dropped from the table, merged
  segment types, limits of every table, 16-bit lengths.
- **ar8k**: after any command the archive holds the members it should; a failure loses none. Hard: the
  archive is truncated before the copy is written back.
- **heap**: allocations are disjoint, freed memory is merged, `realloc` keeps contents. Hard: `realloc`
  frees first and then copies out of free memory.
- **streams**: what is read is what was written, at the position `ftell` would say. Hard: state split
  between buffer, channel and record, and slots that keep their descriptor when closed.

## 2. The models

### ld8k: `SymbolResolution`, `Ld8kPass1`, `Ld8k`

`Ld8kPass1` is everything up to the end of pass 1. Its variables carry the names of the globals
of `ld8k.c` (`symtab`, `symlev`, `udefcnt`, `symap`, `map`, `segtab`, `modmap`, `modsym`,
`postab`, ...); groups of them (`optvars`, `segvars`, `symvars`, ...) only shorten UNCHANGED. `pc`
is the place in the program:

| pc | code | actions |
|---|---|---|
| opt | `pass0()`, `dodset()` | `OptFlag OptStack OptTypes OptFile OptUndef OptDescr OptNamed EndPass0` |
| open, scan | `pass1()`, `p1entry()`, `trysim()` | `OpenFails OpenObject SkipArchive OpenArchive ScanMember EndScan` |
| mod, seg | `p1load()`, `p1doseg()` | `Reject StartModule DoSegment EndSegments` |
| sym | `p1dosym()` | `SymSegment SymDropped SymReference SymDefinition SymNew EndSymbols`, `Loaded` |
| commons | end of `pass1()` | `SkipSymbol AllocCommon EndCommons EndPass1` |

`errex()` is `pc = "fatal"`. `Ld8k` extends it by `interlude()`, pass 2 (`P2Open P2Read P2Segment
P2Segments P2Rel P2Loaded`) and `finale()`. Where pass 2 loads a module that pass 1 did not, the code
indexes with an unset map entry: there `P2Segment` is disabled and the model stops, in a state that violates
`Pass2Replays`. A read beyond an array may return any value of the constant `Garbage`. Contents are words that are relocated: for each the model computes what the code writes
(`reloc()`), and from the history of the link what it should be.

The output image is a function from file offsets to what was written last. The positions at which
pass 2 reads a module are modelled as the code computes them, so a wrong offset reads wrong data in
the model too.

`SymbolResolution` is the abstract linker: a set of wanted names and a place for each defined name.
A name may become wanted, and may be defined once. `ResolvesSymbols` says that pass 1 implements it
under the mapping `Resolution` of `Ld8kPass1`.

### ar8k: `Ar8k`

A file is a sequence of cells (the magic word, a header, a byte), so that a copy that stops in the
middle leaves a prefix, and a header that is half written is `Junk`. `Command` starts one of the five
commands; one action follows for each `read()`, `write()` or `creat()` of `main()`, `copy()`,
`append()` and `puthead()`, in their order. `WriteFails` makes any of the writes fail after any part of it and takes the
program to `errex()`; `ReadFails` makes any of the reads fail, which only `copy()` tests for: elsewhere the program goes on as if the
archive or the temporary file had ended, or the magic word had been there. `Dies` is a crash at any point. `Junk` and `Wild` are what a reader may
make of bytes that are no header. `RunsOn` gives the paths that `creatb()` may take the name in a header for: the name itself, but
for one that fills its 14 bytes, names that go on with the bytes of the date. `old` remembers files and archive from before the command, and
`unread` that d or r has taken a read that failed for an answer.

### libcpm heap: `Allocator`, `Heap`

Memory is an array of cells of the size of a header; a cell is a header (size, link, check) or
data. `FindBlock`, `GetMemory`, `Cutup`, `Freed` and `Copy` are the functions of `malloc.c`, `sbrk.c`
and `_brk`, with sizes in bytes modulo `W` as on the machine; `Addr` gives the address of a cell, which need not be a multiple of the
header's size (the heap begins where the bss ends) nor the word `W` (6 does not divide 2^16). `Malloc`, `Free`, `Realloc` and
`FreeAgain` (a pointer freed twice before anything else is given out, which `free()` detects) are the
actions. `Allocator` is the promise: areas that do not overlap and keep what was put in them.

### libcpm files: `FileStreams`, `Streams`

`Streams` has channels (`allocc`, `open`, `close`, `read`, `write`, `lseek`) over system handles, which are
external, and on them the streams with buffer, pointer, count and flags. An action is a call of the
program: `Fopen Freopen FcloseS Fgetc Ungetc Fputc FflushS Fseek Ftell Setbuf Exit`. Memory for a buffer may
be refused and so may an open. Positions are bytes, not records. `FileStreams` is
the promise: an open stream is a position in a file, text files show neither CR nor what is behind ^Z, and buffers
do not exist. `ImplementsStreams` is the refinement.

`Traps` names the calls by which a program meets one of the defects of part 5 (`Safe` conditions such as
`FlushTrap`, `SeekTrap`, `ReopenTrap`). With `Traps = {}` programs keep away from them.

### cpp68: `CppExpr`, `CppMeaning`, `Cpp`

`Cpp` is `domacro()`: `StartText`, `CopyWord`, `ExpandWord`, `EndLine` and so on are the turns of
`getaline()`, and every directive is an action. The record `in` is the input: push-back buffer, stack of
files, position in each, current token, and as a history what the code has lost count of (`lost`). `Gettok` with comments and continued lines, `Expand` with `Collect`
and `Substitute`, and `LeaveFile`, which resumes the includer, are operators on it, since they call each other.
Tokens stand for words; two words never touch. `CppExpr` is `cexpr()` with its two stacks, and beside it a meaning of the same
expressions without a stack (`Meaning`); `CppMeaning` says what a whole program means: conditionals
matched in the text, included files in their place, macros replaced until none is left.

### c068, statements: `Statements`, `Stmt`

A function body is a tree of statements. `Stmt!Compiled` is the recursive descent (`stmt`, `dofor`,
`doswitch`, ..., with the names of `stmt.c`). A handler that parses a statement inside it is written in stages,
each with the saved locals as parameters (`dofor`, `ForCond`, `ForStep`, `ForBody`, `ForEnd`). Its state, the record `g`, has the five label variables, the
switch table with its two pointers, the symbol table with scopes, the area of expression trees with `exprp`, the
code and the errors. An expression is a mark that says where in the source it stands and
which variable it uses. The compiled code then runs beside the source, whose meaning `Statements` gives without
labels: a position in a program is a path, and `After` the next expression to be
evaluated. `Evaluate` lets each expression have any value.

### c1z8k, canonical trees: `Trees`, `Canon`

`Canon` is `canon()`: `fixbfield` first, then `Commute` and `Optimize` until the tree does not
change. `commute` with `Sorted` (the exchange sort), `Collected` and `Rebuilt`, `optim` with its cases, `multop`,
`power2` and `sucomp` are operators with the names of the source; a change in place is a new tree.
`Trees` is what a tree means: an environment in which to evaluate it, with the calls made and the
assignments, in ints of `IntBits` bits.

### asz8k, macros and input: `MacroText`, `Macros`

`stk` is the stack of frames: files, calls, arguments, repeats. `Character`, `Macarg`, `Pop`, `Rewind` and
`EndOfInput` are one turn each of `agetline()` and `fillin()`; when a line is complete, one of
`Def1 Rpt1 Skip1 Drain Ordinary Undefined MacroDef Repeat Exit If Endif Input End Call` handles it.
`vm` is virtual memory as the macros see it: cells up to `Virtop`, where bodies are recorded and
symbols and notes of their uses are allocated. `MacroText` expands a text by recursion. Two states have
no continuation in the model: `wild` (a frame was popped while `macro()` was building the next one: the
code writes through a stale pointer) and `runaway` (a body without an end).

### Paged storage: `PlainMemory`, `Vm`

`Vm` is `asz8k/avm.c`: `getbuf()` with its chain of buffers in the order of use, `rfetch`, `wfetch`,
`vmalloc`, and the space that `rpt1()` gives back. The last `KEEP + 1` pointers that were handed out
are kept in `ptrs`, because the comments in `axref.c` rely on a pointer being good for a number of further
fetches; `Store` writes through any of them that came from `wfetch`. `PlainMemory` has no buffers: a
fetch opens an address and a store through an open address changes the memory.
`ImplementsMemory` maps an address of the memory to the buffer that holds its block, or else the file.

### The two passes of the assembler and xcon: `Asz8k`, `Xcon`

`Asz8k` reads a program, a sequence of statements, twice. A statement is a record of an operation, a label
and operands; an expression has at most one operator. An action is the handler of a statement in
`dircom()`, `direc()` or `instr()`; `.byte`, `.word` and `.long` take one action per operand, because
each operand is evaluated and emitted before the next is read. `StartPass` and `EndPass` are the
two ends of `dopass()`, `Interlude` is `interlude()`, `Skip` is `skip1()`. Instructions are reduced
to what concerns two passes: two bytes, then a field of each of the kinds `instr()` emits
(`imm8 imm16 imm32 addr saddr`), or a relative branch. `Macros` shows which statements there are.

`out` is the object buffer: finished blocks, the block being filled, and the number of its bytes in use.
`PutItem`, `Setorg` and `Emitb` follow `interlude()`, `setorg()` and `emitb()` in when they start a new block.

`Xcon` extends `Asz8k`: it reads the blocks twice, one action for each type of block and pass. Its output
is a function from file offsets to single bytes, each a byte of text or byte *n* of an entry, so that
two regions that overlap spoil each other as they do in the file.

Four history variables do not influence the rest: `nest` (the branch each open `.if` has come to), `want`
(the bytes of pass 2 and the names they refer to), `defs` (labels of pass 2), `high` (how far
each section went). The properties compare the files with these.

### MC modules

Each `MC` module defines the inputs of its run: `MCLd8kPass1` modules, archives and command lines (`MCLd8k`
adds those of part 5), `MCXcon` programs, `MCAr8k` archives, directories and lists, `MCHeap` requests,
`MCStreams` files and openings, `MCCpp` source files, `MCStmt` function bodies, `MCCanon` trees, `MCMacros`
sources with macros.

## 3. The runs

| Run | Module | Shows |
|---|---|---|
| pass1 | MCLd8kPass1 | pass 1: symbol table, counters, archives, segments; implements `SymbolResolution` |
| link | MCLd8k | whole links: pass 2 repeats pass 1, words and symbols come out right, every link ends |
| archive_left_early | MCLd8k | a disagreement, part 5 |
| vm | MCVm | the pool is a memory; pointers stay good; no block is in two buffers |
| assemble | MCXcon | source to x.out |
| archive | MCAr8k | two commands in a row with a failure or a crash anywhere |
| heap | MCHeap | the ring is sound, and an allocator |
| streams | MCStreams | streams are files with a position, whatever is buffered |
| cpp | MCCpp | the preprocessor's output, its line numbers, and that it ends |
| stmt | MCStmt | code runs as its source does |
| canon | MCCanon | canonical trees mean what the trees given mean |
| macros | MCMacros | what is assembled is what the text expands to |

**pass1 and link.** `UdefcntExact`: `udefcnt`, kept by hand at five places, is the number of
undefined entries. `HashExact`: a lookup finds exactly the names in the table, although
`install()` uses the slot of the last lookup. `SymapSound`: every number of a module's symbol leads
to the entry for it, locals dropped or not. `MembersLoadedOnce`, `ArchiveExhausted`: an archive
is left only when it has nothing that is wanted, and no member is loaded twice. `PiecesDisjoint`: no two
modules or commons share a place. `Pass2Replays`, `ImageLinked` (every relocated word holds the address at which its target was put, and so does every *global* of the
program's table; locals, and the name of a segment, it does not check) and `RelocatableOutput` (under `-r`, each entry of the *relocation table* names
the place and target it had in its module; the words of the image and the lengths of the segments are not compared there) are about
the output file; `Terminates` about the loop over an archive.

*Bounds.* 351 command lines: 13 sets of options with 27 lists of files. `SEGNO = 6, MODNO = 5,
MAPNO = 20, SYMPNO = 40, SYMNO = 18, FILNO = 4` are small enough that some of the command lines
overflow each table that reports it, and large enough for links of four files with archives. `SYMHASH = 7`
and `SEGHASH = 3` make names collide, and some links fill each table and then look for one name more. `Garbage = {9}` is a number that belongs to nothing. Each
command line is one deterministic behaviour, so what counts is the variety of the command lines, not of
the interleavings: there are none.

**vm.** Two buffers of one address, three blocks that are reached, pointers kept over one further
fetch, and two values: the least in which a block is evicted dirty, fetched again and overwritten while
a pointer is held.

**assemble.** Every program of one to three statements over an alphabet of seventeen, and longer ones (each
under all eight settings of `-s`, `-u` and xcon's `-s`) with nested conditions, blocks that fill up,
sections taken up again, a section without text before one that has, the absolute section, all fields,
`.end` with an address, and mistakes. `SECSIZ = 4` lets
one program have a section too many; `OBJSIZ = 17` (255 in the code) leaves eleven bytes of a block
for text and relocations, so that most items meet the end of a block.
`NoPhaseError`: a program whose addresses cannot depend on the pass has a phase error at most where the operand is an
error too (`.equ` of an operand that only pass 2 finds to be wrong). `ListsHold`: without an
error, and if pass 2 met no name that pass 1 did not know (`KnownInPass1`, part 5), the sections and symbols written
between the passes are right. `ObjectFaithful`: only statements
in branches taken emit, no item is broken up, and the object file can be read back. `TextInPlace` and
`GlobalsNamed`: so can the x.out file, down to the name an external's relocation refers to.

*Preconditions.* `TextInPlace` and `GlobalsNamed` exclude text in `.abs` and `__bss`, which has no
place in an x.out file and which xcon writes over what follows (`xcon.c:333`, `514`), and text in a section
that only pass 2 met (part 5); `GlobalsNamed` further excludes undefined locals (part 5) and names that `.equ` or
`.set` gives to an external, whose references rightly go to the external.

**archive.** Six archives (none, empty, foreign, well-formed, with a name twice, with a name of 14 characters), two directories, six
lists of paths of which two make the same member name and one is cut to 14 characters; blocks of four cells (512 bytes in the code), so that members are
shorter than a block, longer, or empty. `MAXCMDS = 2` commands, because the second meets what the first left;
`MAXFAULTS = 1`. `CommandDone`: without a fault a command makes exactly the archive that its letter promises, and x exactly the files of
the members it takes, each under the member's name or, if that has 14 characters, under one that runs on from it (`RunsOn`, part 5). `NothingLost`: at every
moment, whatever write or creat has failed and wherever the program has died, archive or `ar8kxxxx.tmp` has
every member the command was not to delete; this is proved in general (part 4). It holds too when a read of t, x, q or `copy()` fails; the reads of d and r that
the code does not test are left out by `unread` (part 5). That the temporary file then has to be found by the user is not in the code.

**heap.** Three pointers, requests of one cell and four (5 and 20 bytes), a header of 6 bytes as in the code, a word that it does not divide, a heap
that begins at an address it does not divide, and a memory that two calls of `sbrk()` use up, so that every way of splitting, merging, growing and failing occurs. `HeapSound`: the ring is closed, ordered and merged, and
every cell is in exactly one block, free or given out. `ImplementsAllocator`: areas stay apart
and keep their contents. Both are proved in general (part 4).

**streams.** Two streams and two channels over two files, buffers of two bytes (`BUFSIZ`, 512), files of up to four: the
least in which a buffer is filled, flushed and refilled and both streams compete for a slot and a channel.
`StreamsOwnChannels`: an open stream has an open channel of its own, in its own mode, that the allocator does not give
away, and no open channel is lost. `ImplementsStreams`: every result, and every file after
`exit()`, is what `FileStreams` has. *Preconditions*: the calls in `Traps`, one open stream for each file, no failed
append to a file that has contents (`Honest`).

**cpp.** 19,871 programs: all of three pieces out of 20, conditionals of five lines, `#if` with every pair of
operators, circular macros, included files that include each other or have newlines in comments, continued definitions and calls. `MaxDepth = 12` (100), `PbSize = 60`, `CStkSize = 3`, `FStack = 2`
and `StkLen = 8` are small enough to be overrun. `LinesTrue`: at the end of each line the number that
the output claims is that of the file. `OutputRight`: the output is what the program means to `CppMeaning`.
`ComesToAnEnd`. *Preconditions* are in the modules beside each property: directives that fail, malformed calls, circular macros; and the lines that the code does
not count (part 5). These the run does contain: the history `in.lost` says from where on a count is wrong. `LinesTrue` claims nothing of the number shown after the use of a
continued macro, a continued definition in an include file, or a marker written from a `lineno` that missed lines; so what is shown through a call of several lines is
claimed up to the next marker. `OutputRight` claims nothing of programs that use a continued macro, and nothing of those with `__LINE__` in which `lineno` missed lines; calls of several lines
without `__LINE__` are checked. With any one of these left out of `in.lost` TLC finds a violation.

**stmt.** 4,919 function bodies: all statements of two levels, a choice with three and four, switches over sets of
three to six values out of nine (so that each of the three forms of `outswitch()` occurs, with distances beyond a
short), and variables of nested blocks. `SWSIZE = 7`, `MaxShort = 7`. `SameAction`: source and
code always evaluate the same expression next, about the same variable. `LabelsLand`: a label that is used is put out once.
`ErrorsExact`: the parser complains exactly about programs without a meaning. *Preconditions*: the four cases of part 5.

**canon.** About 17,000 trees of up to four operators, built with the conversions `maketree()` inserts, compared
in eight environments; ints of four bits and longs of eight, in which every overflow is near.
`ValueKept`: at every step of `canon()` the tree has the value and the assignments of the tree given, wherever C gives it one.
`EffectsKept`: each call is made as often as before. `OrderedForSkeletons`: what `optim()` and the skeletons
assume about the order of operands. `ComesToAnEnd`: no two simplifications undo each other. *Preconditions*: `OtherNumber`,
`DropsCalls` and `CallsTwice` name the trees of part 5.

**macros.** 1,943 sources: two macros with bodies of up to two lines out of eleven, main texts of up to three lines out of nine,
and 23 by hand; `-x` on and off. `INSIZ = 100` cells let calls be nested some ten deep before the stack is full, `SLINSIZ = 14` lets
a line be too long. `ExpandsRight`: each pass assembles the statements of the recursive expansion.
`BodiesKept`: recorded bodies and symbols stay where they are, although repeats give memory back. `ComesToAnEnd`.

**Fairness.** The specifications of ld8k and of `Macros` have weak fairness of the single process's next step, and so has
`Canon`: they are sequential programs that are never blocked. `Cpp` says the same without ENABLED (`GoesOn`: it
stops in `done` or `exit`, or takes a step again and again), because TLC would have to enumerate `Next` once more for
each state. Nothing else is assumed. The other specifications state none, and no liveness is claimed of
them.

Deadlock is checked where a program that has ended stutters explicitly (ld8k, the assembler) or where there is always
a further call (heap, streams, vm, archive). `cpp`, `stmt`, `canon` and `macros` say `CHECK_DEADLOCK FALSE`: their programs stop.

## 4. The proofs

**`Ld8kProofs`**, in its first part, proves about pass 1, for all names, files, command lines and table sizes that satisfy
`LimitsAssumption` (the tables' sizes are numbers, `SEGNO` is at most the 128 of the map's byte) and
`InputAssumption` (files have the shape of x.out files; symbols refer to segments the module has; see the
comment there), the theorems `TypeCorrect`, `CountCorrect` (`UdefcntExact`) and `LookupCorrect` (`HashExact`).
They follow from one invariant, `IInv == TypeOK1 /\ HashExact /\ UdefcntExact`. The parts need
each other: that the counter is exact needs that a lookup which fails really means the name is not in the
table, and both need the types of the tables that are indexed. The proof has one lemma for each group of
actions (`Pass0Step`, `ScanType`, `SegmentStepType`, `SymbolStepInv`, `FinishStepInv`). The lemmas
`InstallExact` and `ReplaceExact` say what a change of one entry does to the hash, and `UndefAppend`,
`UndefDefine` and `UndefSame` what it does to the number of undefined entries.

Further, and under the same assumptions, it proves what pass 1 relies on while it loads modules:

- `PiecesCorrect` (`PiecesDisjoint`). The invariant `PieceInv` ties `segsiz` to the pieces: every piece of a segment ends
  at or below the segment's size, and a new one begins at or above it.
- `SymapCorrect` (`SymapSound`). `SymapInv` adds where a module's symbols are in `symap` (`LoadInv`), how far the
  present one has come (`CurInv`), how long the tables are (`LengthInv`), and that every number in use leads to an entry (`AllBound`).
- `OnceCorrect` (`MembersLoadedOnce`). A member is loaded because `trysim()` finds a wanted name in it. `AllSettled` says that every
  external a loaded module defines is defined in the table, `OrderInv` that the members remembered are those loaded;
  so a second load would need a name both wanted and settled.
- `ResolutionCorrect` (`ResolvesSymbols`): pass 1 implements `SymbolResolution` as long as no `LateCommon` occurs, that is, a common
  meets a definition of its name whose value is smaller than its size. This is the case of part 5 (`ld8k.c:525`) and the only
  one: it is the one step in which a name changes its place, and the proof maps every other step. `Stays(n)` says that a
  step leaves the name *n* as it was; `AppendStays`, `ReplaceStays` and `OneMoves` reduce each change of the table to it.
- `ResolutionApart`: links in which no name is a common in one module and defined by another (`CommonsApart`, a condition on
  the files alone) have no `LateCommon`, so that `ResolvesSymbols` holds of them unconditionally. Its invariant, `ApartInv`, says where the definitions
  in the table come from.
- `ArchiveLeftExhausted` (`ArchiveExhausted`). `ScanInv` says that as long as a scan has loaded nothing, the members behind it are fruitless; it is
  kept because nothing but a load changes the symbol table (`TrysimSame`), and a load sets `changed`.

Its second part takes up where these leave the link: `ReplayCorrect` proves `Pass2Replays`, that pass 2 meets the modules of pass 1 in their order and
leaves each segment at its place, for all links in which every archive loaded from follows a terminator in `postab` (`ArchivesEnded`).
ld8k does not see to that: an archive that is left early has no terminator, which is what the run `archive_left_early` shows, and the theorem says
that nothing else can go wrong. `PositionAssumption` is that positions of members are positive and distinct. `LinkInv` has three parts: in pass 1, that `postab` remembers the
modules loaded (`Remembers`, with a history of positions, `Kept`); between the passes, that the layout is that of pass 1 (`Shape`);
in pass 2, that *n* modules have been loaded, that they are the first *n* of pass 1, and that `pi` is `Behind` them or `Between` two files.

**`Asz8kProofs`** proves of the two passes, for every program of the statements modelled, order of the hash chains, number of sections and
block size (`AsmAssumption`, `CommandAssumption`):

- `ObjectCorrect` (`ObjectFaithful`): the blocks of the object file, read as xcon reads them, hold the bytes that pass 2 emitted, each at its place, in its section
  and relocated by the symbol that its operand named; none is longer than the buffer. `AsmInv` gives the types, the conditions
  that are open (`LevelsRight`) and, for the object, `ObjectRight`: the text of the finished blocks and of the one being filled is what has been emitted, the block's
  bytes and relocations leave room for each other, and an item that has been begun will fit (`Good`). `EmitbGood` is the step for
  one byte, and `EmitAllGood` its repetition for an item of several.
- `ListsCorrect` (`ListsHold`): under its precondition the lists written by the interlude are true of pass 2. `ListsInv` compares symbols at the
  end of pass 1 with those of pass 2: values that `Proper` entries have, and how an entry may change (`Stays`).

The second part of the module proves `PhasesCorrect` (`NoPhaseError`) under the same assumptions. Two executions are compared, the passes of one program, and the first is over when the
second begins; so the invariant compares each with a third thing, the *layout*. A layout is a line, a section, the locations of all sections and what
each name was first met as (`met`); `After` computes the next one from the source alone, without the symbol table, which is possible
because the program is `Settled`. A `Trail` is a run of layouts from the `Opening`. `PhasesInv` says that pass 1 stands at the end of
a trail and that the table is what that layout has met (`Stands1`, `Known1`), that between the passes the trail has come to its end (`Knows1`, `Knows2`), and that pass 2 stands
somewhere on that trail, with a table that agrees with the whole of it, a section or label being marked SADP2 exactly if it has been met
again (`Stands2`, `Known2`). The proof has two parts that meet in `StandsStep1` and `StandsStep2`. *Places*: in either pass every statement leads
from a layout to `After` it (`LabelFollows` to `OthersFollow`); this needs that a field's length does not depend on its value (`FieldLength`) and that the passes agree on
which sections are old (`SectionsAgree1`, `SectionsAgree2`: the test of SADP2 in `.sect`, `adirec.c:247`, is what makes the second true). *Table*: every
statement tries to make at most one thing of one name (`Attempt`, `Tried`), and `TableStep1` and `TableStep2` say what `assign()`
makes of that; `TrailKept` is why pass 2 finds in the table what it is about to meet. An operand in error is the exception that the property names:
`.equ` of one assigns in pass 2 and not in pass 1.

**`XconProofs`** proves first `TextCorrect` under the same assumptions: `TextInPlace` holds if every block of text begins and ends below 64 K (`AddressesFit`, of the object
file; without it the lengths and addresses of xcon wrap). It goes from the assembler to the reader of the x.out file in four steps. *How far the blocks come*: `BlocksInv`
says that the furthest end of a text block of a section is how far pass 2 came in it, bytes and empty room alike (`HighRight`), and that the object file is
one `OBOST`, blocks, and one `OBOND`; `Reaches` follows this through `setorg()`, `emitb()` and `oflush()`. *Room*: `SectionsFit`, that
`segtab` has an entry for every section listed, follows from `ListsInv`. *Pass 1 and the interlude*: `LengthsRight(k)`, that the segments are as long as the first *k* blocks come, grows by a block at a
time until all are read; then `Sum` is where a segment goes, and it is also where a reader finds it (`SumsAgree`, `ReaderFinds`). *Pass 2*: `XconWrites` says that the text read so far is
in the file except where a later byte took its place. A block can disturb it in three ways, and each is excluded by a lemma: by writing into another segment (`SegmentsApart`), by writing
into its own, which makes the byte superseded, or by its relocations and symbols, which go behind all segments (`RelocsWritten`, `SymbolsWritten`).
The sums are recursive functions of the number of the segment, for which each property had to be derived by `NatSetInduction` from the equation of the function (`SumRuns`, `SumIs`, `SumGrows`).

Its second part proves `RelocationsCorrect`, that is `GlobalsNamed` of every program under `AddressesFit`. An external has two numbers: `interlude()` of asz8k counts the externals in the
order of the hash chains, and xcon counts all symbols in the order of the file; that a relocation leads to the symbol of the source takes three invariants. `NamedInv` is of asz8k alone (`NumbersTrue`
states it): if no `.equ` or `.set` names an external (`Direct`), whatever has an external's number, in the symbol table or in an emitted byte, has the place of that name in the lists (`Bears`). `InterludeOrders` shows it of the
numbers when they are given, and the lemmas from `LookBears` to `InstrNamed` follow a value from `primary()` through `expression()`, `assign()` and the bytes of a field. `Numbering` is of xcon's pass 1: after *k* blocks
`symct` and the header count the symbols and the relocations of these blocks, and `exttab` has the numbers of the externals among them (`Counted`). `Filing` is of pass 2: the entries of the blocks read
so far are in the file (`Filed`), those of the relocations (`RelsHeld`) one after another behind the segments and those of the symbols (`SymsHeld`) behind the room for all relocations; a step
can spoil them by writing text, which stays before them (`TextBefore`), or by entries of the other sort, for which the counts of pass 1 leave the room (`RoomLeft`). At the end `MatchingTo` pairs the
relocations of the blocks one to one with the emitted bytes that carry one (`Matching`), `Relocated` counts them, and `EntrySays` compares what a reader sees in an entry with what asz8k wanted.

**`Ar8kProofs`** proves `NothingIsLost` (`NothingLost`) for every archive, directory, list of files, size of a member and even size of the buffer, and for any number of commands,
failures and crashes. `unread` is part of the property: `DiskInv` and `TmpInv` are claimed only where it is false, `TypeInv`, `PlaceInv` and `CopyInv` always, and the next command, which
takes the disk as it finds it, establishes them again. `ArAssumption` says of them that archives and files are sequences of cells, that the names of files are not those of the two files that `copy()` writes, and that
no file is one byte short of a multiple of the buffer; for such a file `copy()` writes its pad separately (see `Copied`). Archives need not be well-formed: a member counts
if a reader that goes from header to header comes to it and it is complete. The invariant, `Inv`, consists of `TypeInv`, `PlaceInv` (which files are there and what the command is, at each place of the program), `CopyInv`
(what `copy()` has still to do), `DiskInv` (which file stands for the members at each place) and `TmpInv` (what the temporary file has). The last is the one that matters: while d and r read the archive, the
temporary file is *in step* (`InStepAt(p, ..)`): the members of the archive as far as *p* and those of the temporary file correspond, but for those that d deletes and with those in their new form that r replaces.
`InStepDrop`, `InStepCopy` and `InStepReplace` are the three steps from member to member. In the middle of a member neither file is a run of whole members; `KeepsUp` says there that what has been written followed by what
is still to be copied (`Rest`) is in step at the place where `copy()` will stop (`Stop`), and `ChunksStep` and `CopiedRest` that a chunk moves from one to the other. A write that fails leaves a beginning of this, which
costs the temporary file only members that the archive, still whole, has. From the time that the archive is truncated until it is written again the temporary file is complete and is not written, and what is half written after that is the archive.
The lemmas about the reader are `ReadRuns` (its recursion has a solution) and `MembersLonger` (what is appended to a file takes no member away).

**`StreamsProofs`** proves `ChannelsCorrect` (`StreamsOwnChannels`) for any numbers of streams and channels, any size of the buffers, and whether or not the
program runs into the defects that `Traps` names (`StreamsAssumption`). Because `freopen()` closes and opens in one step, the invariant `Owned(d, io)` speaks of any disk and
streams, and the lemmas say what each operator makes of it: `Keeps` (a transfer opens and closes nothing), `OpensNone` (a refusal), and an open of a slot not in use.

**`HeapProofs`** proves of the heap, for every set of pointers, requests, size of memory, of headers, of the word and of the chunks asked of the system
(`HeapAssumption`: the numbers are numbers, the heap begins at an even address above the base of the ring and below the stack, and a chunk is an even number of bytes,
which `sbrk()` asks for; a header of 6 bytes, chunks of 64 and a word of 2^16 meet it):

- `HeapCorrect` (`HeapSound`) and `HeapAllocates` (`ImplementsAllocator`), for behaviours in which no size is computed modulo 2^16 (`NoWrap`: a request can be
  rounded up to headers, and the break that `_brk` accepts is the one meant). The condition is the very one that the run of part 5 for `malloc.c:156` breaks.
- `HeapCorrectRoomy`: both, without a condition on the behaviour, when the largest request that a program makes still fits between the stack and 2^16 (`Roomy`, of the constants alone; the constants of the run meet it).

The invariant, `Good`, names what the state does not: the set *R* of the blocks in the ring and the cell *E* of the break. `Ring` says that from each
block of *R* the link leads to the next higher one, with a gap, and from the highest to the base; `Tiled` that the blocks of *R* and those in
use fill the heap; `LiveIn` that what is in use is what the program asked for, with its contents; `StaleIn` that a pointer freed before lies within a
block of *R* and has a valid header still, which is why freeing it again is noticed. The lemmas go from single writes to calls:
`Inserted`, `Merged`, `Removed`, `Split` and `Grown` say what one change of a header does to `Ring` and `Tiled` (between
them a block may touch its neighbour, the parameter *T*); `WalkRounds` that following the links from anywhere meets every block of the ring, which needs that the ring has no
part that one cannot leave (`ClosedIsAll`); `PlaceIs` that the place `free()` finds is the right one; `FreedSound`, `FreedAgain`, `GetMemorySound`, `FindSound` and `CutSound` are the
functions of `malloc.c`; `CopyIs` says that the copying of `realloc()` is right whatever the overlap. `MovesGood` puts `realloc()` together: the block has been freed and merged, so that what the
program had is now inside the ring (`Held`), and stays until it has been copied because neither the search nor `getmemory()` writes there (`FoundWith`).

**`InductionLemmas`**: the library's induction theorems take a predicate as parameter, which the provers cannot instantiate. `NatSetInduction` states
induction for the *set* of the numbers that have a property; it is derived from the well-foundedness of the natural numbers. `Asz8kProofs`
uses it for `FlattenSeq`, powers of two and items of several bytes; `StreamsProofs` uses `NatMin`, a least element, for the loops that look for the first free channel or slot; `HeapProofs` uses all three for the ring, whose highest
block is a `NatMax`.

**`VmProofs`** proves, for every pool, block size and number of blocks with more buffers than `KEEP`
(`PoolAssumption`): `VmTypeCorrect`, `PointersCorrect` (`PointersGood`), `OneCopyCorrect` (`OneCopy`) and `MemoryImplemented`, that the pool
implements `PlainMemory`. The invariant is
`IInv == TypeOK /\ OneCopy /\ Recent /\ PointersGood /\ Backed /\ Clean`. `Recent` (the buffers of the last *i* pointers are among the
first *i* of the chain) is what makes a pointer good: the victim is the last of a chain longer than
that. `OneCopy` makes the mapped memory well defined. `Clean` says that a buffer which is not dirty
agrees with the file, so that dropping it loses nothing, and `Backed` that every byte written is in the file
or in a dirty buffer, so that a block beyond the end of the file need not be read. `ContentIs` then says what an
address holds; `FetchContent` and `StoreContent` show that a fetch changes it nowhere and a store at one
place; `StepImplements` maps each step. `RegionsCorrect` proves `RegionInBlock`, that no region which
`vmalloc()` gives out crosses the end of a block or overlaps an earlier one; `BlkBetween` and `BaseInBlock` are the
arithmetic. No run checks this property, because the blocks of the `vm` run have one address each.

**Only model-checked**: everything with fairness (`Terminates`, `ComesToAnEnd`). Of ld8k, the contents of the output file (`ImageLinked`,
`RelocatableOutput`), and of ar8k `CommandDone`, which compares the archive with a definition by
recursion on the members and so needs an induction for each letter.
`ImplementsStreams` is a refinement through sequences of bytes, buffers and CR and ^Z; its proof would be as long as all
others together. `CppExpr`, `Cpp`, `Statements`, `Stmt`, `Trees`, `Canon`, `MacroText` and `Macros` use recursive operators, over
programs and trees, in which no theorem is proved.

## 5. Where the code and its descriptions disagree

**archive_left_early** is a run that ends in a counterexample (`ld8k.c:412`): with two archives on the command line, the first of
which resolves everything, pass 2 reads the wrong members.

The following were found with the models. Each is avoided by the inputs or by the preconditions of the passing runs, and each is
seen by changing the one constant of the run's `.cfg` and checking the one property:

| In | Change | Property | What the code does |
|---|---|---|---|
| `MCLd8k.cfg` | `Commands <- UntypedSegment` | `ImageLinked` | `ld8k.c:739`: a segment of type 0, which xcon makes of a `.common` section (`cgen_z8k/main.c:626`), is not read by pass 2, although xcon counts it in `x_init` (`xcon.c:335`): all that follows is read from the wrong place |
| `MCLd8k.cfg` | `Commands <- SegmentedExternal` | `ImageLinked` | `ld8k.c:808`: the segment of an external, already mapped (535), is mapped once more through the referring module's map |
| `MCLd8kPass1.cfg` | `Commands <- CommonAfterDefinition` | `ResolvesSymbols` | `ld8k.c:525`: a common's size replaces the value of a definition that is smaller |
| `MCXcon.cfg` | `Commands <- ForwardEqu` | `RelocationsNamed` | `xcon.c:183`, `aascom.c:358`: a local left undefined by pass 1 has no number, but xcon counts it: references name the wrong external |
| `MCXcon.cfg` | `Commands <- LateSection` | `SectionsListed` | `aascom.c:508`: a section first met in pass 2 is accepted without an error, and its text overwrites the header of the x.out file (symbols first met in pass 2 likewise: `KnownInPass1`) |
| `MCHeap.cfg` | `Requests <- Large` | `AreaLongEnough` | `malloc.c:156`: `malloc(65500)` asks `sbrk()` for 128 bytes, enters them as 10944 headers and returns them; `calloc()` has the like product (`calloc.c:46`) |
| `MCStreams.cfg` | `Traps = {"gap"}` | `ImplementsStreams` | `fclose.c:35`, `cleanup.c:21`: after `fclose()` of one stream and `freopen()` of a later one, `exit()` closes the channel of the second through the first slot, before it is flushed |
| `MCCpp.cfg` | `Programs <- NamesFile` | `FileNameTrue` | `macro.c:838`: `__FILE` is the include file's name on its first line only |
| `MCCpp.cfg` | `Programs <- SelfMacro` | `SelfNamed` | `macro.c:945`: `#define x x` is reported as a recursion; the comparison that is to handle it (comment at 923) includes the number of arguments in front of the text, so it never succeeds |
| `MCCanon.cfg` | `Trees0 <- One` | `EveryCallKept` | `canon.c:634`, `527`, `505`, `593`: `f() \| -1`, `f() % 1`, `0 / f()` and unsigned `f() >= 0` become constants and `f` is not called, although the comments at 553 and 612 avoid this for `0 * f()` |

Further ones, which the models show or were met when translating:

- **ld8k**: `MixedSegment` (`ld8k.c:739`, `628`): a segment preassigned to several types has a merged type, and pass 2 asks for the module's.
  `RelinkSparse` (`819`, `814`, `902`): with `-r`, numbers of output segments are written although unused ones are left out of the
  file. `FullSegment` (`493`, `495`, `905`): a segment of 65535 bytes passes the check, is rounded to 65536 and has length 0 in the
  file. `AbsoluteGlobal` (`534`): segment 255 of an absolute symbol is an index into `segrel[]`. (All four are command lines of `MCLd8k`.) The name
  in `-d n=name` is entered in `map[]` at line 481 and overwritten at 491. `postab` and `prelist` are filled without a check; `-d type=n-m` accepts `n = SEGNO` (952);
  an archive member with a bad magic is searched for ever (431).
- **asz8k, xcon**: a label that only pass 1 saw is used in pass 2 without an error (`aparse.c:242`); an illegal relocation is found after most of
  the output is written (`xcon.c:241`); `segtab[128]` is not checked against up to 254 sections (60); results of `read()` and `write()` on `VM.TMP` are not tested (`avm.c:34`).
- **asz8k, macros**: a call that is continued behind the end of an include file or a macro body pops the frame that `macro()` is building (`aascom.c:435`;
  asz8k crashes). A body line continued right after its opcode loses its beginning (171). Without `.endm` or `.endr`, `VM.TMP` grows without end (190). A last line without a
  newline is lost, or joined to the includer's next. A macro used before its definition is undefined in pass 1 and expanded in pass 2. `.exit` inside `.if` leaves the condition open.
  Lines longer than the buffer are cut without a message.
- **ar8k**: x makes a file of another name of a member whose name fills the 14 bytes of `ar8k_name`, because `creatb()` (191) is given the field, which has no end, and reads on
  into `ar8k_date`: `CommandDone` fails when `FilesAsStored` asks for the name of the member in place of one of `RunsOn`. A read of a header (154), of the temporary file (214) or of the magic word (399) that fails is
  taken for the end, or for the magic word, and d and r then truncate the archive (209) and remove the temporary file (227): `NothingLost` fails without `unread`. A file of the list that cannot be opened is marked as done, so that it is not reported (170). `q` appends behind what a `q` that failed has left (147). For a member of 511
  bytes modulo 512 a byte is written behind the buffer (352).
- **heap**: a `realloc()` that fails has freed the block.
- **streams**: after `fflush()` or `fseek()` of an unbuffered stream the next character is stored in a variable of a call that has returned, and lost (`fflush.c:43`); `ftell()` of one is off by one; `fflush()`, `ftell()` and relative
  seeks in text files count CR and ^Z wrongly; `ftell()` after a first read at the end of the file is garbage; 0xFF as the first character makes `_flsbuf` return EOF; `_creat` keeps its channel
  when refused; a refused `lseek()` returns -64, which `fseek()` takes for success; a ^Z in the byte behind a full buffer ends the file (`readasc.c:101`; the constant `Beyond`); a refused open for
  appending creates, and so empties, the file.
- **cpp68**: `1-1-1` is 1 and shifts bind weakest; `&&`, `||` and a nested `?:` in the middle are rejected; unmatched parentheses are accepted; the 65th operand is stored behind `opnstk` (`cexpr.c:330`); an unfinished
  quote in skipped text is written out (`lex.c:500`); continued `#define` lines in include files (`macro.c:331`) and failed `#include` lines are not counted; the newline of a
  continued macro is put back (1007), so that its use makes two output lines of one and ends an `#if` early; the lines of a call on several lines (599) and those of a comment in an include file (`lex.c:425`) are
  missing from `lineno`, so that `__LINE__` (`macro.c:143`) and the next line marker (`lex.c:250`, 254, `macro.c:856`, 860) are wrong; an empty argument ends the list (`macro.c:623`); a macro with
  parameters but no parenthesis is expanded with empty ones; more than 101 expansions without reading on are called a recursion.
- **c068**: a label with the name of a variable of its block is rejected or branches to a frame offset, and in a deeper block is undefined (`stmt.c:44`); two defaults in a switch are accepted; a jump table
  whose last case is 32767 never ends (`icode.c:224`); `SWSIZE` counts the pending cases of enclosing switches.
- **c1z8k**: `*g() *= 3L` and `q()->b = 3` call twice (`tcopy`); `u / -1` becomes `-u` and `u | -1` the signed -1; `l = u * x` is not cut to 16 bits; `-(long)u` and `~(long)u` extend the sign; `s.a ^= 20` changes the
  bits beside the field, and a field of a whole word is signed; the value of `i = s.a = j` is the whole word; `65536L / m` becomes 65536 (505); more than 20 operands of one operator overflow `clist` (993).

## 6. What is left out, and the plan

Left out of what is modelled: in ld8k the load map (`-m`), `-h`, debug output, the block cache of
`getbuf()`/`flshbuf()`, the file form of `-d`, `-n` and `-s` (one header field), members with a bad magic in
an archive, files with more segments than `SEGNO`; in asz8k the listing, syntax errors, expressions of several operators, the limit of three errors in a
line, strings and comments in macro text, alignments recorded for a section (xcon ignores them), the limit on externals; in xcon files that are no object files; in ar8k `-v`, dates and owners; in
the heap `sbrk()` called by the program and the debugging version; of the streams terminals, printers, strings as streams, calls on bare descriptors and full disks; in cpp68 quoted strings, character constants,
names longer than 22 characters, the search path and `-C`; in c068 syntax errors, structure members and typedef names; in canon addresses, chars, floats, `++` and `--`.

Not modelled: expressions, types and initialisers of c068 and the code selection of c1z8k (functions of one tree whose meaning needs a
model of the Z8000), the encodings of asz8k (tables), formatting and mathematics in libcpm (pure functions), start-up code and GEM bindings (assembler), `xdump` (prints),
the 68000 tools (`as`, `cgen`, `link68`, `optimize`, `util`: a second tool chain that the repository keeps for reference; most of its
lines are skeleton tables and encodings, and its parser and preprocessor are those modelled here), tests.

Next, in this order:

1. `CommandDone`, by adding to the invariant of `Ar8kProofs` what each letter has made of the members read so far.
2. The probing of `lookup()` and the block cache of `getbuf()` in ld8k as refinements of what `Ld8kPass1` and `Ld8k` assume; `ar8k` composed with the archive scan.
3. Sethi-Ullman numbers and register allocation of `codegen.c` over an abstract machine; declarators and initialisers of c068.
