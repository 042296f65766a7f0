---------------------------- MODULE MCSarvamCall ----------------------------
(* Instances of SarvamCall for TLC.                                          *)
EXTENDS SarvamCall, TLC

CONSTANTS c1, c2, o1, o2, d1, d2

\* Two calls that both end decided, and differently; the first is recorded, the
\* second has no status and is not.
TwoOutcomes == (c1 :> o1) @@ (c2 :> o2)
FirstFailed == (c1 :> "FAILED") @@ (c2 :> "COMPLETED")
TwoDiagnoses == (o1 :> d1) @@ (o2 :> d2)

Symmetry == Permutations(Handlers) \cup Permutations(Workers)
=============================================================================
