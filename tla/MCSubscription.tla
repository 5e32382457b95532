--------------------------- MODULE MCSubscription ---------------------------
(* Subscription with two plans, the dearer of which charges for AI.        *)
EXTENDS Subscription, TLC

MCPlans == {"basic", "plus"}
MCPrice  == [basic |-> 1, plus |-> 2]
MCQuota  == [basic |-> 1, plus |-> 2]
MCAiCost == [basic |-> 0, plus |-> 1]

\* Before the launch, with a long grace, and after it, with a short one.
MCSettings ==
  {[freeAccess |-> TRUE,  graceDays |-> 2, trialDays |-> 0, trialQuota |-> 1],
   [freeAccess |-> FALSE, graceDays |-> 1, trialDays |-> 0, trialQuota |-> 1]}

\* Requests are interchangeable.
Symmetry == Permutations(Requests)

=============================================================================
