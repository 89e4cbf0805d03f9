--------------------------- MODULE MCCollabRooms ---------------------------
(* CollabRooms and its refinement for TLC: the people, and the words they  *)
(* type, are interchangeable.                                               *)
EXTENDS RoomsImplementPage, TLC

Symmetry == Permutations(Editors) \cup Permutations(Words)

=============================================================================
