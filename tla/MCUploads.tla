------------------------------- MODULE MCUploads ------------------------------
(* Small instances of Uploads for TLC. *)
EXTENDS Uploads

CONSTANTS r1, r2, j1, j2, w1

=============================================================================
