------------------------------ MODULE MCBlobs ------------------------------
(* Blobs for TLC: pages, names, contents and uploads are interchangeable.   *)
EXTENDS Blobs, TLC

CONSTANTS p, q, n, o, d, e, u, v

Symmetry == Permutations(Pages) \cup Permutations(Names) \cup Permutations(Digests)
              \cup Permutations(Uploads)

=============================================================================
