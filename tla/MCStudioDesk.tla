----------------------------- MODULE MCStudioDesk -----------------------------
(* Small instances of StudioDesk for TLC. *)
EXTENDS StudioDesk

CONSTANTS r1, r2, q1, q2, desk, e1, e2

\* Each behaviour spends its requests in one area, or bills what it books.
MCBudgets ==
  {[billing |-> 5, sales |-> 0, papers |-> 0], [billing |-> 0, sales |-> 5, papers |-> 0],
   [billing |-> 0, sales |-> 0, papers |-> 5]}
=============================================================================
