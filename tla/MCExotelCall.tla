----------------------------- MODULE MCExotelCall -----------------------------
(* Instances of ExotelCall for TLC.                                          *)
EXTENDS ExotelCall, TLC

CONSTANTS t1, t2, d1, d2

TwoTurns == {t1, t2}

\* The second turn contradicts the first.
Contradiction == (t1 :> d1) @@ (t2 :> d2)

EveryWebhook == {"start", "end", "transfer", "insights", t1, t2}

\* Each webhook has an id of its own ...
OwnEventId == [w \in Webhooks |-> w]

\* ... or has none, but for the turns.
TurnEventId == [w \in Webhooks |-> IF w \in Turns THEN w ELSE None]

\* One turn, for the liveness run: its outcome, once recorded, is enqueued.
Decisive == {t1}
OneDiagnosis == t1 :> d1
ShortCall == {"end", t1}

HandlerSymmetry == Permutations(Handlers)
=============================================================================
