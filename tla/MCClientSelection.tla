-------------------------- MODULE MCClientSelection ---------------------------
(* Small instances of ClientSelection for TLC. *)
EXTENDS ClientSelection, TLC

CONSTANTS ann, bob, p1, p2, r1, r2

Symmetry == Permutations(Photos) \cup Permutations(Requests)

=============================================================================
