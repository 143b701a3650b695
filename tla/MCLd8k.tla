------------------------------- MODULE MCLd8k -------------------------------
(* Whole links for TLC: the command lines of MCLd8kPass1, and one that     *)
(* meets each of the disagreements the README lists; those without a .cfg  *)
(* of their own are run by naming them as Commands.                        *)
EXTENDS Ld8k, MCLd8kPass1

(* A module with a segment of no known type, as xcon makes of a .common.   *)
UntypedSegment == {Files(<<"main", "u">>)}
(* A segmented module that refers to another's symbol.                     *)
SegmentedExternal == {Files(<<"s1", "s2", "s3">>)}
(* Two archives: the first resolves everything, an object then wants more. *)
ArchiveLeftEarly == {Files(<<"main", "fh", "w", "b">>), Files(<<"main", "fm", "w", "gl">>)}
(* Text and data preassigned to one segment, which then takes BSS as well. *)
MixedSegment == {Segd(0, COD) \o Segd(0, DAT) \o Files(<<"main", "g", "f", "h">>)}
(* A relocatable output in which segment 0 is not in use.                  *)
RelinkSparse == {Opt("r") \o Segd(1, COD) \o Files(<<"main", "f">>)}
(* A segment of 65535 bytes.                                               *)
FullSegment == {Files(<<"s4">>)}
(* Links whose image pass 2 gets wrong; their headers are still right.     *)
WrongImages == UntypedSegment \cup SegmentedExternal \cup ArchiveLeftEarly \cup MixedSegment
               \cup RelinkSparse
(* An absolute global symbol.                                              *)
AbsoluteGlobal == {Files(<<"v">>)}
=============================================================================
