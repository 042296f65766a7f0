----------------------------- MODULE NDRDecision -----------------------------
(***************************************************************************)
(* What the poller does with a claimed item between the claim and the call: *)
(* it reads the shipment in ShopDeck, lets the NDR orchestrator decide,      *)
(* reads the shipment again for what the agent is told, stores that in the   *)
(* engagement and has the call placed.  The shipment goes on meanwhile, and  *)
(* a try that fails is repeated from the claim, perhaps days later.          *)
(*                                                                         *)
(* NDRPoller has the claims, slots and reports of the same code and takes    *)
(* the decision to be any; here is the decision, for one item.              *)
(***************************************************************************)
EXTENDS Integers

CONSTANTS
    MaxCount,     \* failed delivery attempts that the model counts to
    LastDay, MaxTries,
    Windows,      \* reschedule_window_days, by attempt; 2 days for any other
    Reasons,      \* what the reason of an item may say: sets of the terms below
    Couriers,     \* "disputed" is one whose "not reachable" is doubted
    Missing

ASSUME DecisionAssumption ==
    /\ MaxCount \in Nat /\ LastDay \in Nat \ {0} /\ MaxTries \in Nat
    /\ DOMAIN Windows \subseteq Nat /\ \A n \in DOMAIN Windows : Windows[n] \in Nat
    /\ \A r \in Reasons : r \subseteq {"fake", "refused", "address", "not reachable",
                                       "unavailable", "operational"}
    /\ Missing \notin Reasons

VARIABLES
    shipment,   \* shipment_ndr_reports and orders, live: count, and its two statuses
    reason,     \* ndr_reason_at_enroll of the item
    day,
    pc, tries,
    first,      \* ghost: the shipment's count when the item was claimed
    seen,       \* the evidence of the first reading; Missing: it was not to be had
    decision,   \* the DispatchDecision
    ccc,        \* the CustomerConversationContext: of both readings
    record,     \* call_context of the engagement in MongoDB, Missing before the first
    calls,      \* the calls placed
    counts      \* ghost: the counts that were true on a day

decisionVars == <<shipment, reason, day, pc, tries, first, seen, decision, ccc, record,
                  calls, counts>>

Shipment == [count : 0..MaxCount, ndrClosed : BOOLEAN, orderClosed : BOOLEAN,
             courier : Couriers \cup {Missing}]
Strategies == {"PRIORITY_CONCIERGE_ESCALATION", "DOORSTEP_VERIFICATION_AND_DISPUTE",
               "ADDRESS_AND_LANDMARK_ENRICHMENT", "BUYER_INTENT_CONFIRMATION",
               "AUTONOMOUS_RESCHEDULE"}

\* why: the attempts that the mission's why_this_call names; count: past_delivery_attempts;
\* on: ghost, the day on which that was read.
Conversation == [why : 1..(MaxCount + 1), count : 0..MaxCount, on : 1..LastDay]
Context == [why : 1..(MaxCount + 1), count : 0..MaxCount, on : 1..LastDay, day : 1..LastDay,
            dates : SUBSET (1..(LastDay + 2))]

DecisionInit ==
    /\ shipment \in {s \in Shipment : s.count <= 1 /\ ~s.ndrClosed /\ ~s.orderClosed}
    /\ reason \in Reasons
    /\ day = 1 /\ pc = "idle" /\ tries = 0 /\ first = 0
    /\ seen = Missing /\ decision = Missing /\ ccc = Missing /\ record = Missing
    /\ calls = {}
    /\ counts = {<<1, shipment.count>>}

-----------------------------------------------------------------------------
(* The engines of the NDR domain.  Scores are in hundredths.                 *)

\* NDRDiagnosticEngine.diagnose_failure.
Diagnose(why, courier, count) ==
    IF \/ "fake" \in why
       \/ courier = "disputed" /\ "not reachable" \in why /\ count = 1
    THEN "SUSPECTED_FAKE_ATTEMPT"
    ELSE IF "refused" \in why THEN "BUYER_REMORSE_OR_REJECTION"
    ELSE IF "address" \in why THEN "ADDRESS_OR_LOCATION_DEFECT"
    ELSE IF why \cap {"unavailable", "not reachable"} # {} THEN "CUSTOMER_UNAVAILABLE"
    ELSE IF "operational" \in why THEN "OPERATIONAL_OR_TRANSIT_DELAY"
    ELSE "UNKNOWN"

\* NDRPriorityRiskEngine.evaluate_priority_and_risk, what a decision depends on.
Risk(count, mood) ==
    LET base == IF count >= 2 THEN 60 ELSE 30
        penalty == IF mood = "upset" THEN 40 ELSE 0
    IN  [cx |-> base + penalty, allowed |-> count < 3]

\* NDRStrategyEngine.determine_strategy.
Strategy(diagnosis, risk) ==
    IF ~risk.allowed \/ risk.cx >= 85 THEN "PRIORITY_CONCIERGE_ESCALATION"
    ELSE CASE diagnosis = "SUSPECTED_FAKE_ATTEMPT" -> "DOORSTEP_VERIFICATION_AND_DISPUTE"
           [] diagnosis = "ADDRESS_OR_LOCATION_DEFECT" -> "ADDRESS_AND_LANDMARK_ENRICHMENT"
           [] diagnosis = "BUYER_REMORSE_OR_REJECTION" -> "BUYER_INTENT_CONFIRMATION"
           [] OTHER -> "AUTONOMOUS_RESCHEDULE"

\* Whether the recommendation carries an ExecutionIntent; all of them are for a VOICE call.
HasIntent(strategy) == strategy # "PRIORITY_CONCIERGE_ESCALATION"

\* Faulty: what the order says is not looked at.
Closed_NdrOnly(e) == e.ndrClosed

Closed(e) == e.ndrClosed \/ e.orderClosed

\* What map_to_evidence leaves of no reading, and the defaults of the orchestrator: an
\* open shipment, one attempt, an unknown courier.
Default == [count |-> 1, ndrClosed |-> FALSE, orderClosed |-> FALSE, courier |-> "other"]

\* A count of 0 is 1.
OneAtLeast(n) == IF n = 0 THEN 1 ELSE n

Evidence(e) == IF e = Missing THEN Default ELSE [e EXCEPT !.count = OneAtLeast(@)]

\* orchestrate_resolution.  map_to_evidence supplies no customer.state.sentiment, so that
\* the mood is NEUTRAL.
OrchestrateResolution(e, why) ==
    LET risk == Risk(e.count, "neutral")
        strategy == Strategy(Diagnose(why, e.courier, e.count), risk)
    IN  IF Closed(e) THEN [disposition |-> "ALREADY_RESOLVED", strategy |-> Missing]
        ELSE [disposition |-> IF risk.allowed THEN "ENGAGE" ELSE "POLICY_PROHIBITED",
              strategy |-> strategy]

-----------------------------------------------------------------------------
(* The poller's task, from await to await.                                   *)

Claim ==
    /\ pc = "idle" /\ tries < MaxTries
    /\ pc' = "evidence" /\ tries' = tries + 1 /\ first' = shipment.count
    /\ UNCHANGED <<shipment, reason, day, seen, decision, ccc, record, calls, counts>>

\* execute_evidence_request: whatever is not a 200 is no evidence, and no error.
ReadEvidence ==
    /\ pc = "evidence"
    /\ seen' \in {shipment, Missing}
    /\ pc' = "decide"
    /\ UNCHANGED <<shipment, reason, day, tries, first, decision, ccc, record, calls, counts>>

\* A record without a courier is no NDRContext: that raises (see Fail).  A decision not to
\* dispatch is reported as intelligence_no_action, which ShopDeck refuses from claimed:
\* that raises as well, and the item is claimed again.
Decide ==
    LET d == OrchestrateResolution(Evidence(seen), reason) IN
    /\ pc = "decide"
    /\ Evidence(seen).courier # Missing
    /\ decision' = d
    /\ pc' = IF d.disposition = "ENGAGE" THEN "hydrate" ELSE "idle"
    /\ UNCHANGED <<shipment, reason, day, tries, first, seen, ccc, record, calls, counts>>

Window(count) == IF count \in DOMAIN Windows THEN Windows[count] ELSE 2

\* build: the second reading beside the mission of the first; without evidence, phone or
\* payment mode it raises (see Fail).
Hydrate ==
    /\ pc = "hydrate"
    /\ ccc' = [why |-> Evidence(seen).count, count |-> shipment.count, on |-> day]
    /\ pc' = "prepare"
    /\ UNCHANGED <<shipment, reason, day, tries, first, seen, decision, record, calls, counts>>

\* project: the dates are days from now.
Project(x, now) ==
    [why |-> x.why, count |-> x.count, on |-> x.on, day |-> now,
     dates |-> {now + n : n \in {m \in {1, 2} : m <= Window(OneAtLeast(x.count))}}]

\* Faulty: an engagement that exists is given the new mission.
Stored_Remissioned(old, new) ==
    IF old = Missing THEN new ELSE [old EXCEPT !.why = new.why]

\* create_engagement: the engagement is the item's, and the one that exists is kept.
Stored(old, new) == IF old = Missing THEN new ELSE old

\* project and prepare_engagement, which requires an ExecutionIntent, else it raises (see
\* Fail).
Prepare ==
    /\ pc = "prepare" /\ HasIntent(decision.strategy)
    /\ record' = Stored(record, Project(ccc, day))
    /\ pc' = "dispatch"
    /\ UNCHANGED <<shipment, reason, day, tries, first, seen, decision, ccc, calls, counts>>

\* dispatch_call takes what the agent is told from the stored engagement.  That the
\* provider's answer is lost is a failure of the try.
Dispatch ==
    /\ pc = "dispatch"
    /\ calls' = calls \cup {[told |-> record, day |-> day, seen |-> seen, first |-> first,
                             strategy |-> decision.strategy]}
    /\ pc' \in {"called", "idle"}
    /\ UNCHANGED <<shipment, reason, day, tries, first, seen, decision, ccc, record, counts>>

\* Whatever raises, and the end of the process: the item is claimed again.
Fail ==
    /\ pc \in {"evidence", "decide", "hydrate", "prepare", "dispatch"}
    /\ pc' = "idle"
    /\ UNCHANGED <<shipment, reason, day, tries, first, seen, decision, ccc, record, calls,
                   counts>>

\* The sync job: another attempt failed, or one of the statuses is final.
ShipmentMoves ==
    /\ shipment' \in {[shipment EXCEPT !.count = @ + 1], [shipment EXCEPT !.ndrClosed = TRUE],
                      [shipment EXCEPT !.orderClosed = TRUE]} \ {shipment}
    /\ shipment'.count <= MaxCount /\ ~Closed(shipment)
    /\ counts' = counts \cup {<<day, shipment'.count>>}
    /\ UNCHANGED <<reason, day, pc, tries, first, seen, decision, ccc, record, calls>>

\* Also between two awaits of a try.
Midnight ==
    /\ day < LastDay
    /\ day' = day + 1
    /\ counts' = counts \cup {<<day', shipment.count>>}
    /\ UNCHANGED <<shipment, reason, pc, tries, first, seen, decision, ccc, record, calls>>

DecisionNext ==
    \/ Claim \/ ReadEvidence \/ Decide \/ Hydrate \/ Prepare \/ Dispatch \/ Fail
    \/ ShipmentMoves \/ Midnight

DecisionSpec == DecisionInit /\ [][DecisionNext]_decisionVars

-----------------------------------------------------------------------------
(* Properties.                                                               *)

DecisionTypeOK ==
    /\ shipment \in Shipment /\ reason \in Reasons
    /\ day \in 1..LastDay /\ tries \in 0..MaxTries /\ first \in 0..MaxCount
    /\ pc \in {"idle", "evidence", "decide", "hydrate", "prepare", "dispatch", "called"}
    /\ seen \in Shipment \cup {Missing}
    /\ decision \in [disposition : {"ENGAGE", "ALREADY_RESOLVED", "POLICY_PROHIBITED"},
                     strategy : Strategies \cup {Missing}] \cup {Missing}
    /\ ccc \in Conversation \cup {Missing} /\ record \in Context \cup {Missing}
    /\ counts \subseteq (1..LastDay) \X (0..MaxCount)

\* A call is placed for a shipment that was read open and below the third attempt, or not
\* read at all, and never for a case that is to go to a person.
CallHasGrounds ==
    \A c \in calls :
        /\ HasIntent(c.strategy)
        /\ c.seen # Missing => ~c.seen.ndrClosed /\ ~c.seen.orderClosed /\ c.seen.count < 3

\* What an agent is told hangs together, although it comes of two readings and a clock while
\* the shipment moves and midnight passes, and although all tries share one engagement: the
\* attempts it names as facts were those of the day of the second reading, the reason of the
\* call names no more of them, and the dates offered are those that so many attempts allow,
\* reckoned from a day that is not before the reading nor after the call.
ToldHangsTogether ==
    \A c \in calls :
        LET told == c.told IN
        /\ <<told.on, told.count>> \in counts /\ told.on <= told.day /\ told.day <= c.day
        /\ told.why <= OneAtLeast(told.count)
        /\ \A d \in told.dates : d - told.day \in {1, 2} /\ d - told.day <= Window(OneAtLeast(told.count))

-----------------------------------------------------------------------------
(* What the documentation says and the code does not do: violated.            *)

\* ccc_contracts.py: "the 3rd+ attempt never dispatches a call at all per policy".
NoThirdAttemptCall == \A c \in calls : c.first < 3

\* GATE3-PASS-MASTER.md: "why_this_call: e.g. Order had 1 failed delivery attempts".  It is the
\* count of the first reading, or 1 without one, beside past_delivery_attempts of the second.
ReasonNamesTheAttempts == \A c \in calls : c.told.why = OneAtLeast(c.told.count)

\* config.py: the reschedule window is in days ahead of now.
OfferedDatesAreAhead == \A c \in calls : \A d \in c.told.dates : d > c.day

===============================================================================
