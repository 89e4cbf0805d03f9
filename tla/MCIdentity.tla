---------------------------- MODULE MCIdentity ----------------------------
(* Identity for TLC: at first there is one administrator, with a password.  *)
EXTENDS Identity, TLC

CONSTANTS i1, i2, i3, oma, erika, chef, x, y, t1, t2, b, c, home

MCFirst == i1 :> [name |-> chef, handle |-> None, mail |-> None, mirrored |-> FALSE,
                 groups |-> {}, active |-> TRUE, link |-> None]

Symmetry == Permutations(Ids \ {i1}) \cup Permutations({oma, erika}) \cup Permutations(Mails) \cup Permutations(Tokens) \cup Permutations(Browsers)

=============================================================================
