----------------------------- MODULE MCFaceIndex -----------------------------
(* A small instance of FaceIndex for TLC: one photo of a guest, two people. *)
EXTENDS FaceIndex

CONSTANTS r1, d1, s1, h1, ann, bob

=============================================================================
