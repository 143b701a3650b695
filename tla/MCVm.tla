-------------------------------- MODULE MCVm --------------------------------
(***************************************************************************)
(* Vm with a pool of two buffers over three blocks that fetches reach      *)
(* (block 0 and 1 hold the addresses that are not given out), and pointers *)
(* kept over one further fetch.                                            *)
(***************************************************************************)
EXTENDS Vm
CONSTANT unset
OneByte == {1}
ZeroOne == {0, 1}
=============================================================================
