--------------------------- MODULE MCShopDeckQueue ---------------------------
(* Instances of ShopDeckQueue for TLC.                                       *)
EXTENDS ShopDeckQueue, TLC

CONSTANTS i1, i2, e1, e2, r1, r2, a1

\* One item, two engagements that compete for it, two results for the first.
OneItemSeq == [i \in Items |-> 1]
OneItemOf == [e \in Engagements |-> i1]
OneEngOf == [r \in Results |-> e1]

\* Two attempts of one shipment.
TwoItemSeq == (i1 :> 1) @@ (i2 :> 2)

SameShipment == [i \in Items |-> a1]

HandlerSymmetry == Permutations(Handlers)
OneSymmetry == HandlerSymmetry \cup Permutations(Results) \cup Permutations(Contents)
=============================================================================
