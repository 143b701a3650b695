-------------------------- MODULE SymbolResolution --------------------------
(***************************************************************************)
(* What resolving external symbols promises: a name is first wanted or     *)
(* defined; a wanted name stays wanted until it is defined; and once       *)
(* defined it keeps the place it was defined at.                           *)
(***************************************************************************)
CONSTANTS Names, Places
VARIABLES wanted,   \* the names referred to and not yet defined
          place     \* the names defined, each with its place

resvars == <<wanted, place>>

Init == wanted = {} /\ place = <<>>

Want(n) ==
  /\ n \notin wanted \cup DOMAIN place
  /\ wanted' = wanted \cup {n} /\ UNCHANGED place

Define(n) ==
  /\ n \notin DOMAIN place
  /\ DOMAIN place' = DOMAIN place \cup {n}
  /\ place'[n] \in Places
  /\ \A x \in DOMAIN place : place'[x] = place[x]
  /\ wanted' = wanted \ {n}

Next == \E n \in Names : Want(n) \/ Define(n)
Spec == Init /\ [][Next]_resvars
=============================================================================
