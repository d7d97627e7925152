----------------------------- MODULE SavedTable -----------------------------
(***************************************************************************)
(* What editing a partition table promises: the table in memory is edited  *)
(* freely, the medium changes only by a save, a save makes the medium hold *)
(* exactly the table in memory, and an editor that shows no pending change *)
(* shows what the medium holds.                                            *)
(***************************************************************************)
CONSTANT Tables    \* the tables there can be

VARIABLES
  memory,    \* the table the user sees
  medium,    \* the table on the disk
  dirty      \* the editor says that there is something to save

vars == <<memory, medium, dirty>>

Init ==
  /\ memory \in Tables /\ medium \in Tables /\ dirty \in BOOLEAN
  /\ ~dirty => memory = medium

Edit ==
  /\ memory' \in Tables /\ dirty' = TRUE
  /\ UNCHANGED medium

Save ==
  /\ dirty
  /\ medium' = memory /\ dirty' = FALSE
  /\ UNCHANGED memory

Next == Edit \/ Save

Spec == Init /\ [][Next]_vars
=============================================================================
