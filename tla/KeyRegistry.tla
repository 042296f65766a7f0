------------------------------ MODULE KeyRegistry ------------------------------
(***************************************************************************)
(* What a register of business keys promises (rules PRD-05 and RET-02): a  *)
(* key that was once claimed belongs to its first owner for good, also     *)
(* when the owner carries another key by now, and every entity carries a   *)
(* key of its own from the moment it exists.                                *)
(***************************************************************************)
CONSTANTS BusinessKeys, Entities, None

VARIABLES
    owner,      \* the entity a key belongs to, or None
    carried     \* the key an entity carries, or None as long as there is no entity

vars == <<owner, carried>>

Init ==
    /\ owner \in [BusinessKeys -> Entities \cup {None}]
    /\ carried \in [Entities -> BusinessKeys \cup {None}]
    /\ \A e \in Entities : carried[e] # None => owner[carried[e]] = e

\* One transaction may claim several free keys, for entities that are there or that it
\* makes, and hand each entity another of its keys.
Claim ==
    /\ owner' \in [BusinessKeys -> Entities \cup {None}]
    /\ carried' \in [Entities -> BusinessKeys \cup {None}]
    /\ \A k \in BusinessKeys : owner[k] # None => owner'[k] = owner[k]
    /\ \A e \in Entities :
         carried'[e] # carried[e] => carried'[e] # None /\ owner'[carried'[e]] = e

Spec == Init /\ [][Claim]_vars
================================================================================
