--------------------------- MODULE MCSessionQueue ---------------------------
(* Small instances of SessionQueue for TLC. *)
EXTENDS SessionQueue, TLC

\* Sessions are interchangeable.
Symmetry == Permutations(Ids)
=============================================================================
