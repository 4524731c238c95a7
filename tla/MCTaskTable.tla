------------------------- MODULE MCTaskTable -------------------------
(* Three sessions over a sequence that ends. *)
EXTENDS TaskTable, TLC

CONSTANTS s1, s2, s3
Sessions == {s1, s2, s3}
Symmetry == Permutations(Sessions)
======================================================================
