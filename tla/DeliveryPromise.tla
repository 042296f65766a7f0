--------------------------- MODULE DeliveryPromise ---------------------------
(***************************************************************************)
(* What the outbox promises to the webhooks that fill it: a result that    *)
(* was accepted is settled, once and for good.  It is delivered only when  *)
(* ShopDeck has an answer for its engagement, or it is given up for a      *)
(* human to look at (the dead letters).                                    *)
(***************************************************************************)
CONSTANTS Results, Engagements, EngOf

VARIABLES
    outcome,   \* what became of a result
    answered   \* engagements ShopDeck has an answer for

vars == <<outcome, answered>>

Init ==
    /\ outcome = [r \in Results |-> "none"]
    /\ answered = {}

Accept(r) ==
    /\ outcome[r] = "none"
    /\ outcome' = [outcome EXCEPT ![r] = "open"]
    /\ UNCHANGED answered

\* Only a result that was accepted makes ShopDeck answer.
Answer(r) ==
    /\ outcome[r] # "none"
    /\ answered' = answered \cup {EngOf[r]}
    /\ UNCHANGED outcome

Deliver(r) ==
    /\ outcome[r] = "open" /\ EngOf[r] \in answered
    /\ outcome' = [outcome EXCEPT ![r] = "delivered"]
    /\ UNCHANGED answered

GiveUp(r) ==
    /\ outcome[r] = "open"
    /\ outcome' = [outcome EXCEPT ![r] = "dead"]
    /\ UNCHANGED answered

Next == \E r \in Results : Accept(r) \/ Answer(r) \/ Deliver(r) \/ GiveUp(r)

SafeSpec == Init /\ [][Next]_vars

Spec == SafeSpec /\ \A r \in Results : WF_vars(Deliver(r) \/ GiveUp(r))
=============================================================================
