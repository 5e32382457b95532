------------------------------ MODULE MCAlbums -------------------------------
(* Small instances of Albums for TLC. *)
EXTENDS Albums

CONSTANTS owner, collab, client, other, v1, v2, v3

=============================================================================
