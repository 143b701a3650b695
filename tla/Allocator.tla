----------------------------- MODULE Allocator -----------------------------
(***************************************************************************)
(* What a program may expect of malloc(), free() and realloc(): areas that *)
(* do not overlap, each with the contents that were put there.  free() and *)
(* the failure of any call are steps of it; so is that realloc() gives the *)
(* area back when there is no room for the new one.                        *)
(***************************************************************************)
EXTENDS Naturals, Sequences
CONSTANTS Slots, Contents, None
VARIABLE areas      \* slot -> None or [adr, data]

Cells(a) == {a.adr + i - 1 : i \in DOMAIN a.data}
Apart(a, S) == \A s \in S : areas[s] = None \/ Cells(a) \cap Cells(areas[s]) = {}

Init == areas = [s \in Slots |-> None]

(* The program writes its data at once.                                    *)
Allocate(s) ==
  /\ areas[s] = None /\ areas'[s] /= None
  /\ areas'[s].data \in Contents /\ Apart(areas'[s], Slots \ {s})
  /\ areas' = [areas EXCEPT ![s] = areas'[s]]

Release(s) ==
  /\ areas[s] /= None
  /\ areas' = [areas EXCEPT ![s] = None]

(* The new area begins with what the old one held.                         *)
Resize(s) ==
  /\ areas[s] /= None /\ areas'[s] /= None
  /\ Apart(areas'[s], Slots \ {s})
  /\ \A i \in DOMAIN areas[s].data \cap DOMAIN areas'[s].data :
       areas'[s].data[i] = areas[s].data[i]
  /\ areas' = [areas EXCEPT ![s] = areas'[s]]

Next == \E s \in Slots : Allocate(s) \/ Release(s) \/ Resize(s)
Spec == Init /\ [][Next]_areas
=============================================================================
