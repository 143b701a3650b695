------------------------------- MODULE MCHeap -------------------------------
(***************************************************************************)
(* Heap with three pointers and requests of one and four cells, in a       *)
(* memory that is full after two calls to sbrk(); and, for the overflow, a *)
(* request near the size of the address space.                             *)
(***************************************************************************)
EXTENDS Heap
CONSTANT none
Three == {"p", "q", "r"}
Small == {5, 20}
Large == {5, 110}
=============================================================================
