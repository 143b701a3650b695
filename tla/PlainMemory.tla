---------------------------- MODULE PlainMemory ----------------------------
(***************************************************************************)
(* What the paged storage of asz8k promises: a memory.  The last fetches   *)
(* are open; a byte changes only when it is stored through an open fetch   *)
(* for writing, or when its space is given back.  Unset is a byte not      *)
(* written since it was allocated, whose contents nobody relies on.        *)
(***************************************************************************)
EXTENDS Integers
CONSTANTS Adrs, Vals, Unset, KEEP
VARIABLES mem, open

Uses == 1 .. KEEP + 1
Closed == [adr |-> -1, write |-> FALSE]

Init == mem = [a \in Adrs |-> Unset] /\ open = [i \in Uses |-> Closed]

Fetch(a, w) ==
  /\ open' = [i \in Uses |-> IF i = 1 THEN [adr |-> a, write |-> w] ELSE open[i - 1]]
  /\ UNCHANGED mem
Write(i, v) ==
  /\ open[i].write
  /\ mem' = [mem EXCEPT ![open[i].adr] = v]
  /\ UNCHANGED open
Discard(lost) ==
  /\ mem' = [a \in Adrs |-> IF a \in lost THEN Unset ELSE mem[a]]
  /\ open' = [i \in Uses |-> IF open[i].adr \in lost THEN Closed ELSE open[i]]

Next == \/ \E a \in Adrs, w \in BOOLEAN : Fetch(a, w)
        \/ \E i \in Uses, v \in Vals : Write(i, v)
        \/ \E lost \in SUBSET Adrs : Discard(lost)
Spec == Init /\ [][Next]_<<mem, open>>
=============================================================================
