---------------------------- MODULE MCPageLines ----------------------------
(* PageLines for TLC: a page of one checklist line.                         *)
EXTENDS PageLines, TLC

CONSTANTS milk, bread, v, w

MCFirst   == <<milk>>
MCImports == {<<>>, <<milk, milk>>}

Symmetry == Permutations(Writers)

=============================================================================
