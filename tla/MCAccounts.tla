------------------------------ MODULE MCAccounts ------------------------------
(* Small instances of Accounts for TLC. *)
EXTENDS Accounts

CONSTANTS r1, r2, t1, t2, t3, t4, t5, i1, i2, l1, l2

=============================================================================
