-------------------------- MODULE MCWritebackOutbox --------------------------
(* Instances of WritebackOutbox for TLC.                                     *)
EXTENDS WritebackOutbox, TLC

CONSTANTS r1, r2, e1

\* Two results of one engagement: the customer's answer changed between the
\* two deliveries of a webhook.
SameEngagement == [r \in Results |-> e1]

Symmetry == Permutations(Results) \cup Permutations(Workers)
=============================================================================
