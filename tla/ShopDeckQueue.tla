---------------------------- MODULE ShopDeckQueue ----------------------------
(***************************************************************************)
(* The ShopDeck BS side of the NDR call pipeline: the tables ndr_queue,    *)
(* ndr_engagements and ndr_intelligence_results, and the HTTP handlers     *)
(* that the Brain calls (scratch_shopdeck_canonical/backend/api).          *)
(*                                                                         *)
(* A handler runs each repository call on a connection of its own, so one  *)
(* step of a handler is one statement or transaction, and two handlers     *)
(* interleave between them.  A handler remembers a successful answer until *)
(* it is used again; a refusal leaves nothing behind.  Any statement may   *)
(* raise (a lost connection, an argument that asyncpg refuses to encode, a *)
(* restart of the server): Abort.                                          *)
(***************************************************************************)
EXTENDS Naturals, FiniteSets

CONSTANTS
    Items,        \* queue items: one per (awb_no, ndr_attempt_seq)
    Shipment,     \* the shipment (awb_no) of an item
    AttemptSeq,   \* its ndr_attempt_seq
    Engagements,  \* engagement ids; the Brain derives the idempotency key from it
    ItemOf,       \* the item an engagement is requested for
    Results,      \* intelligence result ids
    EngOf,        \* the engagement a result is about
    Contents,     \* values of the immutable fields of a result
    Handlers,     \* requests the server serves at once
    MaxClaims,    \* max_claim_attempts
    MaxRetries,   \* max_retries
    None

ASSUME ConstantsAssumption ==
    /\ AttemptSeq \in [Items -> Nat]
    /\ ItemOf \in [Engagements -> Items]
    /\ EngOf \in [Results -> Engagements]
    /\ MaxClaims \in Nat \ {0} /\ MaxRetries \in Nat \ {0}
    /\ None \notin Engagements \cup Results \cup Contents

VARIABLES
    rows,       \* shipment_ndr_reports: the source row behind each item
    status,     \* queue_status, "none" before enrollment
    lease,      \* lease_expires_at: null, in the future, in the past
    claims,     \* claim_attempt_count
    retries,    \* retry_count, kept up to MaxRetries: it is only compared with it
    engs,       \* rows of ndr_engagements (is_active is never reset)
    callSid,    \* engagements whose call_sid is set
    completed,  \* engagements whose completed_at is set
    blanked,    \* history: engagements whose completed_at was set, and set back to NULL
    intel,      \* ndr_intelligence_results: the content stored under a result id
    req         \* the request each handler serves, or its last answer

queueVars == <<status, lease, claims, retries>>
engVars == <<engs, callSid, completed, blanked>>
vars == <<rows, queueVars, engVars, intel, req>>

Statuses == {"eligible", "claimed", "engagement_registered", "call_dispatched",
             "call_completed", "intelligence_pending", "intelligence_received",
             "action_ready", "failed_retryable", "permanently_failed"}
Closed == {"action_ready", "permanently_failed"}

\* Faulty: a completion may overtake the dispatch report.
AllowedFrom_Overtaking(new) ==
    CASE new = "engagement_registered" -> {"claimed"}
      [] new = "call_dispatched"       -> {"engagement_registered"}
      [] new = "call_completed"        -> {"engagement_registered", "call_dispatched"}
      [] new = "intelligence_pending"  -> {"call_completed"}
      [] OTHER                         -> {}

\* ALLOWED_TRANSITIONS; failed_retryable is routed to apply_failure instead.
AllowedFrom(new) ==
    CASE new = "engagement_registered" -> {"claimed"}
      [] new = "call_dispatched"       -> {"engagement_registered"}
      [] new = "call_completed"        -> {"call_dispatched"}
      [] new = "intelligence_pending"  -> {"call_completed"}
      [] OTHER                         -> {}

Free == [op |-> "none", at |-> "done", e |-> None, r |-> None, c |-> None,
         code |-> "none"]

Operations == {"none", "register", "dispatched", "completed", "submit", "fail", "sync"}

Statements == {"reg_active", "reg_item", "reg_insert", "reg_move", "disp_move",
               "comp_stamp", "comp_move", "int_engagement", "int_insert", "int_ready",
               "sync_terminal"}

Codes == {"none", "200", "201", "500"}

Requests ==
    [op : Operations, at : Statements \cup {"done"}, e : Engagements \cup {None},
     r : Results \cup {None}, c : Contents \cup {None}, code : Codes]

TypeOK ==
    /\ rows \in [Items -> {"absent", "pending", "other", "terminal"}]
    /\ status \in [Items -> Statuses \cup {"none"}]
    /\ lease \in [Items -> {"null", "live", "expired"}]
    /\ claims \in [Items -> 0..MaxClaims]
    /\ retries \in [Items -> 0..MaxRetries]
    /\ engs \subseteq Engagements
    /\ callSid \subseteq engs
    /\ completed \subseteq engs /\ blanked \subseteq engs
    /\ intel \in [Results -> Contents \cup {None}]
    /\ req \in [Handlers -> Requests]

Init ==
    /\ rows = [i \in Items |-> "absent"]
    /\ status = [i \in Items |-> "none"]
    /\ lease = [i \in Items |-> "null"]
    /\ claims = [i \in Items |-> 0]
    /\ retries = [i \in Items |-> 0]
    /\ engs = {} /\ callSid = {} /\ completed = {} /\ blanked = {}
    /\ intel = [r \in Results |-> None]
    /\ req = [h \in Handlers |-> Free]

-----------------------------------------------------------------------------
(* Handlers: a request enters at its first statement, and answers.          *)

Request(op, at, e, r, c, code) ==
    [op |-> op, at |-> at, e |-> e, r |-> r, c |-> c, code |-> code]

Enter(h, op, at, e, r, c) ==
    /\ req[h].at = "done"
    /\ req' = [req EXCEPT ![h] = Request(op, at, e, r, c, "none")]

EnterAnswered(h, op, e, r, c, code) ==
    /\ req[h].at = "done"
    /\ req' = [req EXCEPT ![h] = Request(op, "done", e, r, c, code)]

Goto(h, at) == req' = [req EXCEPT ![h].at = at]

Answer(h, code) == req' = [req EXCEPT ![h].at = "done", ![h].code = code]

\* 4xx, 5xx, or an answer nobody waits for.
Finish(h) == req' = [req EXCEPT ![h] = Free]

\* transition_status: the row is locked, checked and updated in one transaction.
Move(i, new) ==
    /\ status[i] \in AllowedFrom(new)
    /\ status' = [status EXCEPT ![i] = new]

MoveOrRefuse(h, i, new) ==
    /\ IF status[i] \in AllowedFrom(new) THEN Move(i, new) ELSE UNCHANGED status
    /\ Finish(h)

-----------------------------------------------------------------------------
(* Enrollment and claims.                                                    *)

\* The source table is written by the ShopDeck sync from the courier's data.
SourceRow(i, s) ==
    /\ rows[i] # "terminal" /\ rows[i] # s
    /\ rows' = [rows EXCEPT ![i] = s]
    /\ UNCHANGED <<queueVars, engVars, intel, req>>

\* Faulty: ON CONFLICT DO UPDATE SET queue_status = 'eligible'.
Sync_Upserting(h) ==
    /\ Enter(h, "sync", "sync_terminal", None, None, None)
    /\ status' = [i \in Items |-> IF rows[i] = "pending" THEN "eligible" ELSE status[i]]
    /\ UNCHANGED <<rows, lease, claims, retries, engVars, intel>>

\* The last step of run_orchestrator, after each sync: it reads its limits from _os, which is
\* not defined there.  The NameError is caught and logged, before anything is enrolled.
ScheduledSync(h) == EnterAnswered(h, "sync", None, None, None, "500")
                    /\ UNCHANGED <<rows, queueVars, engVars, intel>>

\* enroll_eligible_ndrs, the first half of POST /enroll, which an administrator may call; the
\* shipment_ndr_reports of other attempts are not looked at.
Sync(h) ==
    /\ Enter(h, "sync", "sync_terminal", None, None, None)
    /\ status' = [i \in Items |-> IF rows[i] = "pending" /\ status[i] = "none"
                                    THEN "eligible" ELSE status[i]]
    /\ UNCHANGED <<rows, lease, claims, retries, engVars, intel>>

\* DISTINCT ON (awb_no) ... ORDER BY awb_no, ndr_count DESC
LatestRowIsTerminal(i) ==
    \E j \in Items :
        /\ Shipment[j] = Shipment[i] /\ rows[j] = "terminal"
        /\ \A k \in Items : Shipment[k] = Shipment[i] /\ rows[k] # "absent"
                              => AttemptSeq[k] <= AttemptSeq[j]

MarkTerminal(h) ==
    /\ req[h].at = "sync_terminal"
    /\ status' = [i \in Items |->
                    IF status[i] \notin Closed \cup {"none"} /\ LatestRowIsTerminal(i)
                      THEN "permanently_failed" ELSE status[i]]
    /\ Finish(h)
    /\ UNCHANGED <<rows, lease, claims, retries, engVars, intel>>

\* Faulty: any open item with an expired lease is handed out again.
Claimable_AnyExpired(i) ==
    /\ \/ status[i] = "eligible"
       \/ status[i] \notin Closed /\ lease[i] = "expired"
    /\ claims[i] < MaxClaims

Claimable(i) ==
    /\ \/ status[i] = "eligible"
       \/ status[i] \in {"claimed", "failed_retryable"} /\ lease[i] = "expired"
    /\ claims[i] < MaxClaims

\* FOR UPDATE SKIP LOCKED passes over the rows other transactions hold; a
\* transaction is one step here, so which rows those are is a free choice.
Unlocked(held) == {i \in Items \ held : Claimable(i)}

\* The claimed row is the first in ndr_attempt_seq order (ndr_time breaks ties).
Claim(i) ==
    /\ \E held \in SUBSET Items :
        /\ i \in Unlocked(held)
        /\ \A j \in Unlocked(held) : AttemptSeq[i] <= AttemptSeq[j]
    /\ status' = [status EXCEPT ![i] = "claimed"]
    /\ lease' = [lease EXCEPT ![i] = "live"]
    /\ claims' = [claims EXCEPT ![i] = @ + 1]
    /\ UNCHANGED <<rows, retries, engVars, intel, req>>

Exhausted(i) == status[i] \notin Closed \cup {"none"} /\ claims[i] >= MaxClaims

\* No row to claim: every open item on its last attempt is closed, whoever
\* holds it and however far its call has come.
ClaimNothing ==
    /\ \E held \in SUBSET Items : Unlocked(held) = {}
    /\ status' = [i \in Items |-> IF Exhausted(i) THEN "permanently_failed"
                                                   ELSE status[i]]
    /\ UNCHANGED <<rows, lease, claims, retries, engVars, intel, req>>

LeaseExpires(i) ==
    /\ lease[i] = "live"
    /\ lease' = [lease EXCEPT ![i] = "expired"]
    /\ UNCHANGED <<rows, status, claims, retries, engVars, intel, req>>

-----------------------------------------------------------------------------
(* POST /engagements: five statements, each on its own.                     *)

ActiveEngagements(i) == {e \in engs : ItemOf[e] = i}

Register(h, e) ==
    /\ status[ItemOf[e]] # "none"
    /\ IF e \in engs THEN EnterAnswered(h, "register", e, None, None, "200")
                     ELSE Enter(h, "register", "reg_active", e, None, None)
    /\ UNCHANGED <<rows, queueVars, engVars, intel>>

RegisterActive(h) ==
    LET active == ActiveEngagements(ItemOf[req[h].e]) IN
    /\ req[h].at = "reg_active"
    /\ \/ active = {} /\ Goto(h, "reg_item")
       \/ \E a \in active : IF a \in callSid THEN Finish(h) ELSE Answer(h, "200")
    /\ UNCHANGED <<rows, queueVars, engVars, intel>>

RegisterItem(h) ==
    /\ req[h].at = "reg_item"
    /\ IF status[ItemOf[req[h].e]] = "claimed" THEN Goto(h, "reg_insert")
                                               ELSE Finish(h)
    /\ UNCHANGED <<rows, queueVars, engVars, intel>>

\* The primary key and the unique idempotency key refuse a second row.
RegisterInsert(h) ==
    /\ req[h].at = "reg_insert"
    /\ IF req[h].e \in engs THEN Finish(h) ELSE Goto(h, "reg_move")
    /\ engs' = engs \cup {req[h].e}
    /\ UNCHANGED <<rows, queueVars, callSid, completed, blanked, intel>>

RegisterMove(h) ==
    /\ req[h].at = "reg_move"
    /\ \/ Move(ItemOf[req[h].e], "engagement_registered") /\ Answer(h, "201")
       \/ status[ItemOf[req[h].e]] # "claimed" /\ Finish(h) /\ UNCHANGED status
    /\ UNCHANGED <<rows, lease, claims, retries, engVars, intel>>

-----------------------------------------------------------------------------
(* PATCH /queue/{id}/status.                                                 *)

\* A status without call data is one transaction.  The Brain reports
\* engagement_registered only once a registration was answered.
ReportStatus(i, new) ==
    /\ new \in {"engagement_registered", "intelligence_pending"}
    /\ ActiveEngagements(i) # {}
    /\ Move(i, new)
    /\ UNCHANGED <<rows, lease, claims, retries, engVars, intel, req>>

\* The call data is written before, and apart from, the status.
ReportDispatched(h, e) ==
    /\ e \in engs
    /\ Enter(h, "dispatched", "disp_move", e, None, None)
    /\ callSid' = callSid \cup {e}
    /\ UNCHANGED <<rows, queueVars, engs, completed, blanked, intel>>

DispatchedMove(h) ==
    /\ req[h].at = "disp_move"
    /\ MoveOrRefuse(h, ItemOf[req[h].e], "call_dispatched")
    /\ UNCHANGED <<rows, lease, claims, retries, engVars, intel>>

\* A completion is three statements.  The first overwrites the call data of the row with
\* completed_at = NULL, also when an earlier report has set it; the second sets it.
ReportCompleted(h, e) ==
    /\ e \in engs
    /\ Enter(h, "completed", "comp_stamp", e, None, None)
    /\ completed' = completed \ {e}
    /\ blanked' = blanked \cup ({e} \cap completed)
    /\ UNCHANGED <<rows, queueVars, engs, callSid, intel>>

CompletedStamp(h) ==
    /\ req[h].at = "comp_stamp"
    /\ Goto(h, "comp_move")
    /\ completed' = completed \cup {req[h].e}
    /\ blanked' = blanked \ {req[h].e}
    /\ UNCHANGED <<rows, queueVars, engs, callSid, intel>>

CompletedMove(h) ==
    /\ req[h].at = "comp_move"
    /\ MoveOrRefuse(h, ItemOf[req[h].e], "call_completed")
    /\ UNCHANGED <<rows, lease, claims, retries, engVars, intel>>

\* apply_failure looks neither at the status nor at the claimer.  Below both
\* limits it reads new_status before assigning it: the exception rolls back.
FailureIsFinal(i, business) ==
    \/ business /\ retries[i] + 1 >= MaxRetries
    \/ claims[i] >= MaxClaims

ReportFailure(h, i, business) ==
    /\ status[i] # "none"
    /\ \/ /\ FailureIsFinal(i, business)
          /\ status' = [status EXCEPT ![i] = "permanently_failed"]
          /\ retries' = [retries EXCEPT ![i] = IF business /\ @ < MaxRetries
                                                 THEN @ + 1 ELSE @]
          /\ req[h].at = "done" /\ Finish(h)
       \/ /\ ~FailureIsFinal(i, business)
          /\ EnterAnswered(h, "fail", None, None, None, "500")
          /\ UNCHANGED <<status, retries>>
    /\ UNCHANGED <<rows, lease, claims, engVars, intel>>

-----------------------------------------------------------------------------
(* POST /intelligence_results.                                               *)

ResultsOf(e) == {r \in Results : EngOf[r] = e /\ intel[r] # None}

\* Faulty: a known result_id is a duplicate whatever it says.
Submit_Uncompared(h, r, c) ==
    /\ EngOf[r] \in engs
    /\ IF intel[r] = None THEN Enter(h, "submit", "int_engagement", None, r, c)
                          ELSE EnterAnswered(h, "submit", None, r, c, "200")
    /\ UNCHANGED <<rows, queueVars, engVars, intel>>

Submit(h, r, c) ==
    /\ EngOf[r] \in engs
    /\ CASE intel[r] = None -> Enter(h, "submit", "int_engagement", None, r, c)
         [] intel[r] = c    -> EnterAnswered(h, "submit", None, r, c, "200")
         [] OTHER           -> req[h].at = "done" /\ Finish(h)
    /\ UNCHANGED <<rows, queueVars, engVars, intel>>

\* Faulty: the queue is moved on before the result is stored.
SubmitEngagement_ReadyFirst(h) ==
    /\ req[h].at = "int_engagement"
    /\ ResultsOf(EngOf[req[h].r]) = {} /\ Goto(h, "int_insert")
    /\ status' = [status EXCEPT ![ItemOf[EngOf[req[h].r]]] = "action_ready"]
    /\ UNCHANGED <<rows, lease, claims, retries, engVars, intel>>

SubmitEngagement(h) ==
    /\ req[h].at = "int_engagement"
    /\ IF ResultsOf(EngOf[req[h].r]) = {} THEN Goto(h, "int_insert")
                                          ELSE Finish(h)
    /\ UNCHANGED <<rows, queueVars, engVars, intel>>

\* Unique by result_id and by engagement_id.
SubmitInsert(h) ==
    /\ req[h].at = "int_insert"
    /\ \/ /\ ResultsOf(EngOf[req[h].r]) = {}
          /\ intel' = [intel EXCEPT ![req[h].r] = req[h].c]
          /\ Goto(h, "int_ready")
       \/ /\ ResultsOf(EngOf[req[h].r]) # {}
          /\ Finish(h)
          /\ UNCHANGED intel
    /\ UNCHANGED <<rows, queueVars, engVars>>

\* set_action_ready, whatever the status is by now.
SubmitReady(h) ==
    /\ req[h].at = "int_ready"
    /\ status' = [status EXCEPT ![ItemOf[EngOf[req[h].r]]] = "action_ready"]
    /\ Answer(h, "201")
    /\ UNCHANGED <<rows, lease, claims, retries, engVars, intel>>

-----------------------------------------------------------------------------
Abort(h) ==
    /\ req[h].at # "done"
    /\ Finish(h)
    /\ UNCHANGED <<rows, queueVars, engVars, intel>>

Serve(h) ==
    \/ RegisterActive(h) \/ RegisterItem(h) \/ RegisterInsert(h) \/ RegisterMove(h)
    \/ DispatchedMove(h) \/ CompletedStamp(h) \/ CompletedMove(h)
    \/ SubmitEngagement(h) \/ SubmitInsert(h) \/ SubmitReady(h)
    \/ MarkTerminal(h)
    \/ Abort(h)

Receive(h) ==
    \/ Sync(h) \/ ScheduledSync(h)
    \/ \E e \in Engagements : Register(h, e) \/ ReportDispatched(h, e)
                                             \/ ReportCompleted(h, e)
    \/ \E i \in Items, business \in BOOLEAN : ReportFailure(h, i, business)
    \/ \E r \in Results, c \in Contents : Submit(h, r, c)

Next ==
    \/ \E h \in Handlers : Serve(h) \/ Receive(h)
    \/ \E i \in Items : \/ Claim(i) \/ LeaseExpires(i)
                        \/ \E s \in {"pending", "other", "terminal"} : SourceRow(i, s)
                        \/ \E new \in Statuses : ReportStatus(i, new)
    \/ ClaimNothing

Spec == Init /\ [][Next]_vars

\* A request in flight ends, by an answer or a failure, and run_orchestrator gets to its last
\* step again and again.  Nothing in the code calls POST /enroll.
FairSpec ==
    Spec /\ \A h \in Handlers : WF_vars(Serve(h)) /\ SF_vars(ScheduledSync(h))

-----------------------------------------------------------------------------
(* Properties.                                                               *)

EngagementsOf(S, i) == {e \in S : ItemOf[e] = i}

\* The status of an item never runs ahead of its evidence, although the evidence is
\* written by other statements, of other requests: past registration there is an engagement
\* row, past dispatch one with a call_sid, past completion one with a completed_at, or one
\* that had it until another report of the same completion set out to write it again
\* (router update_queue_status).
StatusBackedByEvidence ==
    \A i \in Items :
        /\ status[i] \in {"engagement_registered", "call_dispatched", "call_completed",
                          "intelligence_pending"} => EngagementsOf(engs, i) # {}
        /\ status[i] \in {"call_dispatched", "call_completed", "intelligence_pending"}
              => EngagementsOf(callSid, i) # {}
        /\ status[i] \in {"call_completed", "intelligence_pending"}
              => EngagementsOf(completed \cup blanked, i) # {}

\* Every action_ready item shows up in the morning review: get_action_ready_items
\* finds a stored result of an engagement of that item.
ActionReadyHasResult ==
    \A i \in Items : status[i] = "action_ready" =>
        \E r \in Results : intel[r] # None /\ EngOf[r] \in engs /\ ItemOf[EngOf[r]] = i

\* Of the submissions that race for an engagement at most one is stored.
OneResultPerEngagement ==
    \A r, s \in Results : intel[r] # None /\ intel[s] # None /\ EngOf[r] = EngOf[s]
                            => r = s

\* A submission answered with success is stored, with the content it sent, and
\* stays so whatever comes later (idempotency by result_id, immutable fields).
AckedResultIsStored ==
    \A h \in Handlers :
        req[h].op = "submit" /\ req[h].at = "done" /\ req[h].code \in {"200", "201"}
            => intel[req[h].r] = req[h].c

\* A successful registration leaves an engagement row for the item, so that a
\* call can be placed on it ("Brain must call this BEFORE dispatching").
AckedRegistrationIsStored ==
    \A h \in Handlers :
        req[h].op = "register" /\ req[h].at = "done" /\ req[h].code \in {"200", "201"}
            => ActiveEngagements(ItemOf[req[h].e]) # {}

\* The retry budget is spent once: an item whose business failures reached
\* max_retries is closed for good.
SpentRetriesAreClosed == \A i \in Items : retries[i] >= MaxRetries => status[i] \in Closed

\* A closed item is never worked on again: late claims, reports and
\* registrations do not reopen it, and it is not enrolled a second time.
ClosedStaysClosed ==
    [][\A i \in Items : status[i] \in Closed => status'[i] \in Closed]_vars

\* Once an item has left the claim for a registered call it is never handed
\* to another claimer: neither a lease that runs out nor a failure report puts
\* it back in the pool.
RegisteredIsNotReclaimed ==
    [][\A i \in Items : status[i] \in {"engagement_registered", "call_dispatched",
                                       "call_completed", "intelligence_pending"}
                          => claims'[i] = claims[i]]_vars

-----------------------------------------------------------------------------
(* What the documentation says and the code does not do: violated.            *)

\* persist_intelligence_result: "Successful first submission -> auto-transitions
\* queue to action_ready"; with no request under way, the item of a result that
\* was acknowledged is closed.
AckedResultClosesItem ==
    (\A h \in Handlers : req[h].at = "done") =>
        \A h \in Handlers :
            req[h].op = "submit" /\ req[h].code \in {"200", "201"}
                => status[ItemOf[EngOf[req[h].r]]] \in Closed

\* apply_failure: "Marks an item as failed_retryable or permanently_failed."
FailureReportIsApplied ==
    \A h \in Handlers : req[h].op = "fail" => req[h].code # "500"

\* update_queue_status: "completed_at=None,  # will be set via raw update below".  With no
\* request under way, a completed item has an engagement that says when.
CompletedIsStamped ==
    (\A h \in Handlers : req[h].at = "done") =>
        \A i \in Items : status[i] = "call_completed" => EngagementsOf(completed, i) # {}

\* run_orchestrator: "NDR Queue Enrollment (ShopDeck BS responsibility - runs after each NDR
\* sync)".  A shipment that is delivered or returned leaves the queue, in every attempt of it
\* and wherever the pipeline stands.
TerminalShipmentLeavesQueue ==
    \A i \in Items : <>[]LatestRowIsTerminal(i)
                        => <>[](status[i] \in Closed \cup {"none"})
=============================================================================
