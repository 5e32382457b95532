----------------------------- MODULE MCDriveSync -----------------------------
(* Small instances of DriveSync for TLC. *)
EXTENDS DriveSync

CONSTANTS timer, req, A, B

=============================================================================
