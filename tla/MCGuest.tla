------------------------------- MODULE MCGuest --------------------------------
(* Small instances of Guest for TLC. *)
EXTENDS Guest

CONSTANTS ann, bob, r1, r2, j1, j2, a1, a2, z1

=============================================================================
