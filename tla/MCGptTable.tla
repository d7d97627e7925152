---------------------------- MODULE MCGptTable ----------------------------
(***************************************************************************)
(* Instances of GptTable for TLC: three table entries on a disk of a few   *)
(* sectors, of which those from FirstUsable to LastUsable - 1 hold         *)
(* partitions.                                                             *)
(***************************************************************************)
EXTENDS GptTable

At(start, size) == [start |-> start, size |-> size, kind |-> "data"]

(* An empty table, one whose numbers are not in the order of the sectors,  *)
(* and one whose only partition has not the lowest number.                 *)
MCEmpty   == <<FreeStored, FreeStored, FreeStored>>
MCUnorder == <<At(4, 2), At(2, 2), FreeStored>>
MCGap     == <<FreeStored, At(2, 2), FreeStored>>

MCLayouts == {MCEmpty, MCUnorder, MCGap}

(* Little room: a sector is free before the first partition, and the last  *)
(* is smaller than any that is created.                                    *)
MCTight == {MCEmpty, <<At(4, 1), At(2, 2), FreeStored>>}
=============================================================================
