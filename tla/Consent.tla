------------------------------- MODULE Consent -------------------------------
(***************************************************************************)
(* What the Brain promises to whoever talks to it about acting on the      *)
(* Catalog: an action is asked for, and waits for one word.  The word is   *)
(* its own session's, is given once and stands.  Only what was granted is   *)
(* done, at most once, and no more of it than was asked for.               *)
(***************************************************************************)
EXTENDS Naturals

CONSTANTS
    Requests, Operations, None,
    Exporting      \* the operations that also put the family into an export

VARIABLES
    asked,      \* the operation a request is for, or None
    word,       \* what was said of it
    saved,      \* how many families were saved for it
    exported    \* the requests whose family was put into an export

vars == <<asked, word, saved, exported>>

Init ==
    /\ asked = [n \in Requests |-> None]
    /\ word = [n \in Requests |-> "none"]
    /\ saved = [n \in Requests |-> 0]
    /\ exported = {}

Ask(n, op) ==
    /\ word[n] = "none"
    /\ word' = [word EXCEPT ![n] = "waiting"]
    /\ asked' = [asked EXCEPT ![n] = op]
    /\ UNCHANGED <<saved, exported>>

\* The session agrees, declines, or lets the time pass.
Decide(n, said) ==
    /\ word[n] = "waiting"
    /\ word' = [word EXCEPT ![n] = said]
    /\ UNCHANGED <<asked, saved, exported>>

Save(n) ==
    /\ word[n] = "granted" /\ saved[n] = 0
    /\ saved' = [saved EXCEPT ![n] = 1]
    /\ UNCHANGED <<asked, word, exported>>

Export(n) ==
    /\ word[n] = "granted" /\ asked[n] \in Exporting /\ saved[n] = 1
    /\ exported' = exported \cup {n}
    /\ UNCHANGED <<asked, word, saved>>

Next == \E n \in Requests :
    \/ \E op \in Operations : Ask(n, op)
    \/ \E said \in {"granted", "refused", "lapsed"} : Decide(n, said)
    \/ Save(n) \/ Export(n)

Spec == Init /\ [][Next]_vars
==============================================================================
