----------------------------- MODULE MCNDRPoller -----------------------------
(* Instances of NDRPoller for TLC.                                           *)
EXTENDS NDRPoller, TLC

CONSTANTS i1, e1

OneItemOf == e1 :> i1
OneId == i1 :> e1
AnySeq == [i \in Items |-> 1]
OwnShipment == [i \in Items |-> i]
FirstEngagement == [r \in Results |-> e1]

TaskSymmetry == Permutations(Tasks)
=============================================================================
