--------------------------- MODULE EngagementRecord ---------------------------
(***************************************************************************)
(* One document of customer_engagements and its rows in                    *)
(* outbound_writeback_queue, with the operations of                        *)
(* CustomerEngagementRepository that the webhooks of both voice providers  *)
(* and the poller share.  Each operation is one atomic MongoDB update.     *)
(*                                                                         *)
(* An outcome of a call is an element of Outcomes; DiagnosisOf it is what  *)
(* enters the result_id, uuid5(engagement_id : diagnosis).                 *)
(***************************************************************************)
EXTENDS Naturals, FiniteSets

CONSTANTS
    Outcomes,      \* what a call can end on
    Diagnoses,
    DiagnosisOf,   \* the diagnosis of an outcome
    None

ASSUME RecordAssumption ==
    /\ DiagnosisOf \in [Outcomes -> Diagnoses]
    /\ None \notin Outcomes \cup Diagnoses

VARIABLES
    state,     \* status of the engagement
    norm,      \* normalization_status, until it is claimed
    claimed,   \* metadata.intelligence_result_id, as the diagnosis in it
    outbox     \* the outcome in the row of a result_id, None when there is no row

recordVars == <<state, norm, claimed, outbox>>

Terminal == {"COMPLETED", "FAILED", "ESCALATED"}
States == {"REQUESTED", "DISPATCHED", "CONNECTED", "IN_PROGRESS"} \cup Terminal

RecordTypeOK ==
    /\ state \in States
    /\ norm = IF state \in Terminal THEN "PENDING" ELSE "NOT_READY"
    /\ claimed \in Diagnoses \cup {None}
    /\ outbox \in [Diagnoses -> Outcomes \cup {None}]

RecordInit ==
    /\ state = "REQUESTED" /\ norm = "NOT_READY"
    /\ claimed = None
    /\ outbox = [d \in Diagnoses |-> None]

\* Faulty: the final states are not excluded.
AllowedPrevious_Any(new) ==
    CASE new = "DISPATCHED"  -> {"REQUESTED"}
      [] new = "CONNECTED"   -> {"REQUESTED", "DISPATCHED"}
      [] new = "IN_PROGRESS" -> {"REQUESTED", "DISPATCHED", "CONNECTED"}
      [] OTHER               -> States

AllowedPrevious(new) ==
    CASE new = "DISPATCHED"  -> {"REQUESTED"}
      [] new = "CONNECTED"   -> {"REQUESTED", "DISPATCHED"}
      [] new = "IN_PROGRESS" -> {"REQUESTED", "DISPATCHED", "CONNECTED"}
      [] OTHER               -> States \ Terminal

\* transition_state: one compare-and-swap; a transition that comes too late is
\* ignored.  A final state queues the engagement for normalization.
TransitionState(new) ==
    /\ UNCHANGED <<claimed, outbox>>
    /\ IF state \in AllowedPrevious(new)
         THEN /\ state' = new
              /\ norm' = IF new \in Terminal THEN "PENDING" ELSE norm
         ELSE UNCHANGED <<state, norm>>

\* claim_intelligence_writeback; nothing depends on who won.
ClaimWriteback(d) ==
    /\ claimed' = IF claimed = None THEN d ELSE claimed
    /\ UNCHANGED <<state, norm, outbox>>

\* enqueue_intelligence_writeback: result_id is unique, the first payload stays.
EnqueueWriteback(o) ==
    /\ outbox' = [outbox EXCEPT ![DiagnosisOf[o]] = IF @ = None THEN o ELSE @]
    /\ UNCHANGED <<state, norm, claimed>>

Enqueued == {d \in Diagnoses : outbox[d] # None}

Rank == [s \in States |->
            CASE s = "REQUESTED"   -> 0
              [] s = "DISPATCHED"  -> 1
              [] s = "CONNECTED"   -> 2
              [] s = "IN_PROGRESS" -> 3
              [] OTHER             -> 4]
=============================================================================
