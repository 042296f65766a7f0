----------------------------- MODULE SarvamCall -----------------------------
(***************************************************************************)
(* A voice call over Sarvam: its one webhook, call-completed               *)
(* (api/webhooks/sarvam_webhooks.py), and the worker that fetches the       *)
(* recording later and reports it (workers/recording_fetch_worker.py).      *)
(*                                                                         *)
(* An item may have been called more than once under one engagement id, so  *)
(* there may be more than one completion, and each is delivered any number  *)
(* of times, to handlers that run concurrently.  ShopDeck's PATCH of        *)
(* call_completed is the handler of the canonical router: two statements    *)
(* that each write the outcome, the second one completed_at as well, and    *)
(* then the transition of the item (ShopDeckQueue), which answers 200 or    *)
(* 409.                                                                     *)
(***************************************************************************)
EXTENDS EngagementRecord

CONSTANTS
    Completions,   \* the completion webhooks, one per physical call
    OutcomeOf,     \* call_outcome in the agent's variables, None when undecided
    FinalState,    \* what the status of the payload stands for
    Silent,        \* completions whose payload has no status
    Recorded,      \* completions with an interaction_id
    Handlers,      \* requests served at once
    Workers,       \* recording workers; one that starts while another still runs
    MaxAttempts    \* MAX_FETCH_ATTEMPTS

ASSUME CallAssumption ==
    /\ OutcomeOf \in [Completions -> Outcomes \cup {None}]
    /\ FinalState \in [Completions -> {"COMPLETED", "FAILED"}]
    /\ Silent \subseteq Completions
    /\ \A c \in Silent : FinalState[c] = "COMPLETED"
    /\ Recorded \subseteq Completions
    /\ MaxAttempts \in Nat \ {0}
    /\ None \notin Completions \cup Workers

VARIABLES
    req,       \* the request each handler serves, or its last answer
    fetch,     \* the row of the engagement in recording_fetch_queue
    job,       \* what process_next of a worker is doing
    shop,      \* call_outcome and recording_url of the engagement at ShopDeck
    reported   \* completions for which ShopDeck has carried out a worker's report

vars == <<recordVars, req, fetch, job, shop, reported>>

Free == [c |-> None, at |-> "done", code |-> "none"]
NoFetch == [c |-> None, status |-> "absent", n |-> 0, token |-> None, ripe |-> FALSE]
NoJob == [at |-> "idle", c |-> None, n |-> 0]

Final == {"DELIVERED", "DEAD_LETTER"}
Steps == {"patch", "stamp", "fetch", "transition", "claim", "enqueue", "done"}

TypeOK ==
    /\ RecordTypeOK
    /\ req \in [Handlers -> [c : Completions \cup {None}, at : Steps, code : {"none", "200"}]]
    /\ fetch \in [c : Recorded \cup {None}, n : 0..(MaxAttempts - 1), ripe : BOOLEAN,
                  status : {"absent", "PENDING", "PROCESSING"} \cup Final,
                  token : Workers \cup {None}]
    /\ job \in [Workers -> [at : {"idle", "claimed", "fetched", "stamping", "settled", "failing"},
                            c : Recorded \cup {None}, n : 0..(MaxAttempts - 1)]]
    /\ shop \in [outcome : Completions \cup {None}, recording : Recorded \cup {None}]
    /\ reported \subseteq Recorded

Init ==
    /\ RecordInit
    /\ req = [h \in Handlers |-> Free]
    /\ fetch = NoFetch
    /\ job = [w \in Workers |-> NoJob]
    /\ shop = [outcome |-> None, recording |-> None]
    /\ reported = {}

-----------------------------------------------------------------------------
(* ShopDeck.                                                                 *)

\* status or None
CallOutcome(c) == IF c \in Silent THEN None ELSE c

\* Both statements of the PATCH write call_outcome, with no COALESCE: a report
\* without one writes null.  QueueStatusUpdateRequest has no recording_url, so
\* the recording a report names does not get here.
WriteOutcome(outcome) == shop' = [shop EXCEPT !.outcome = outcome]

-----------------------------------------------------------------------------
(* The webhook.                                                              *)

Goto(h, at) == req' = [req EXCEPT ![h].at = at]

Answer(h) == req' = [req EXCEPT ![h].at = "done", ![h].code = "200"]

\* log_event comes first; here nobody reads the events, and a repetition that is
\* not logged again is handled all the same.
Deliver(h, c) ==
    /\ req[h].at = "done"
    /\ req' = [req EXCEPT ![h] = [Free EXCEPT !.c = c, !.at = "patch"]]
    /\ UNCHANGED <<recordVars, fetch, job, shop, reported>>

\* The report of the webhook: the first statement of the PATCH, then the second.
\* Whatever becomes of it, the webhook goes on.  A report that is lost and arrives
\* later does what a repetition of the webhook does.
PatchCompleted(h) ==
    LET c == req[h].c IN
    /\ req[h].at = "patch"
    /\ \/ WriteOutcome(CallOutcome(c)) /\ Goto(h, "stamp")
       \/ Goto(h, "fetch") /\ UNCHANGED shop
    /\ UNCHANGED <<recordVars, fetch, job, reported>>

PatchStamp(h) ==
    LET c == req[h].c IN
    /\ req[h].at = "stamp"
    /\ WriteOutcome(CallOutcome(c)) \/ UNCHANGED shop
    /\ Goto(h, "fetch")
    /\ UNCHANGED <<recordVars, fetch, job, reported>>

\* enqueue_recording_fetch: engagement_id is unique, the first row stays.
EnqueueFetch(h) ==
    LET c == req[h].c IN
    /\ req[h].at = "fetch"
    /\ fetch' = IF c \in Recorded /\ fetch.status = "absent"
                  THEN [NoFetch EXCEPT !.c = c, !.status = "PENDING"] ELSE fetch
    /\ Goto(h, "transition")
    /\ UNCHANGED <<recordVars, job, shop, reported>>

Transition(h) ==
    LET c == req[h].c IN
    /\ req[h].at = "transition"
    /\ TransitionState(FinalState[c])
    /\ IF OutcomeOf[c] = None THEN Answer(h) ELSE Goto(h, "claim")
    /\ UNCHANGED <<fetch, job, shop, reported>>

\* Faulty: who does not win the claim leaves the rest to the winner.
ClaimResult_WinnerOnly(h) ==
    /\ req[h].at = "claim"
    /\ ClaimWriteback(DiagnosisOf[OutcomeOf[req[h].c]])
    /\ IF claimed = None THEN Goto(h, "enqueue") ELSE Answer(h)
    /\ UNCHANGED <<fetch, job, shop, reported>>

ClaimResult(h) ==
    /\ req[h].at = "claim"
    /\ ClaimWriteback(DiagnosisOf[OutcomeOf[req[h].c]])
    /\ Goto(h, "enqueue")
    /\ UNCHANGED <<fetch, job, shop, reported>>

EnqueueResult(h) ==
    /\ req[h].at = "enqueue"
    /\ EnqueueWriteback(OutcomeOf[req[h].c])
    /\ Answer(h)
    /\ UNCHANGED <<fetch, job, shop, reported>>

\* A MongoDB operation raises, or the process dies.
Raise(h) ==
    /\ req[h].at # "done"
    /\ req' = [req EXCEPT ![h] = Free]
    /\ UNCHANGED <<recordVars, fetch, job, shop, reported>>

-----------------------------------------------------------------------------
(* The recording worker.                                                     *)

\* The initial delay, a backoff or a lease is over.
Ripen ==
    /\ fetch.status # "absent" /\ ~fetch.ripe
    /\ fetch' = [fetch EXCEPT !.ripe = TRUE]
    /\ UNCHANGED <<recordVars, req, job, shop, reported>>

\* claim_pending_recording_fetch
ClaimFetch(w) ==
    /\ job[w].at = "idle"
    /\ fetch.status \in {"PENDING", "PROCESSING"} /\ fetch.ripe
    /\ fetch' = [fetch EXCEPT !.status = "PROCESSING", !.token = w, !.ripe = FALSE]
    /\ job' = [job EXCEPT ![w] = [at |-> "claimed", c |-> fetch.c, n |-> fetch.n]]
    /\ UNCHANGED <<recordVars, req, shop, reported>>

\* fetch_and_store_recording: the recording, or None when it is not there yet.
FetchRecording(w) ==
    /\ job[w].at = "claimed"
    /\ \E at \in {"fetched", "failing"} : job' = [job EXCEPT ![w].at = at]
    /\ UNCHANGED <<recordVars, req, fetch, shop, reported>>

\* Faulty: the report names the recording only.
ReportRecording_Bare(w) ==
    /\ job[w].at = "fetched"
    /\ \/ WriteOutcome(None) /\ job' = [job EXCEPT ![w].at = "stamping"]
       \/ job' = [job EXCEPT ![w].at = "failing"] /\ UNCHANGED shop
    /\ UNCHANGED <<recordVars, req, fetch, reported>>

\* The first statement of the PATCH; the outcome rides along, as the row had it.
ReportRecording(w) ==
    LET c == job[w].c IN
    /\ job[w].at = "fetched"
    /\ \/ WriteOutcome(CallOutcome(c)) /\ job' = [job EXCEPT ![w].at = "stamping"]
       \/ job' = [job EXCEPT ![w].at = "failing"] /\ UNCHANGED shop
    /\ UNCHANGED <<recordVars, req, fetch, reported>>

\* Faulty: any answer settles the row, not 2xx and 409 only.
ReportStamp_AnyAnswer(w) ==
    LET c == job[w].c IN
    /\ job[w].at = "stamping"
    /\ \/ WriteOutcome(CallOutcome(c)) /\ reported' = reported \cup {c}
       \/ UNCHANGED <<shop, reported>>
    /\ job' = [job EXCEPT ![w].at = "settled"]
    /\ UNCHANGED <<recordVars, req, fetch>>

\* The second statement, then the transition: 200 and 409 both come after it, any
\* other answer and a lost one perhaps.
ReportStamp(w) ==
    LET c == job[w].c IN
    /\ job[w].at = "stamping"
    /\ \/ /\ WriteOutcome(CallOutcome(c)) /\ reported' = reported \cup {c}
          /\ \E at \in {"settled", "failing"} : job' = [job EXCEPT ![w].at = at]
       \/ job' = [job EXCEPT ![w].at = "failing"] /\ UNCHANGED <<shop, reported>>
    /\ UNCHANGED <<recordVars, req, fetch>>

LastAttempt(w) == job[w].n + 1 >= MaxAttempts

Holds(w) == fetch.token = w

Mark(w) ==
    /\ \/ ~Holds(w) /\ job[w].at \in {"settled", "failing"} /\ UNCHANGED fetch
       \/ /\ Holds(w) /\ job[w].at = "settled"
          /\ fetch' = [fetch EXCEPT !.status = "DELIVERED"]
       \/ /\ Holds(w) /\ job[w].at = "failing" /\ LastAttempt(w)
          /\ fetch' = [fetch EXCEPT !.status = "DEAD_LETTER"]
       \/ /\ Holds(w) /\ job[w].at = "failing" /\ ~LastAttempt(w)
          /\ fetch' = [fetch EXCEPT !.status = "PENDING", !.n = @ + 1, !.token = None,
                                    !.ripe = FALSE]
    /\ job' = [job EXCEPT ![w] = NoJob]
    /\ UNCHANGED <<recordVars, req, shop, reported>>

\* The exception of a mark that was perhaps applied is taken for a failure.
MarkRaises(w) ==
    /\ job[w].at = "settled"
    /\ \/ Holds(w) /\ fetch' = [fetch EXCEPT !.status = "DELIVERED"]
       \/ UNCHANGED fetch
    /\ job' = [job EXCEPT ![w].at = "failing"]
    /\ UNCHANGED <<recordVars, req, shop, reported>>

\* The task is cancelled or dies, or an exception ends process_next.
Drop(w) ==
    /\ job[w].at # "idle"
    /\ job' = [job EXCEPT ![w] = NoJob]
    /\ UNCHANGED <<recordVars, req, fetch, shop, reported>>

-----------------------------------------------------------------------------
Serve(h) ==
    \/ PatchCompleted(h) \/ PatchStamp(h) \/ EnqueueFetch(h) \/ Transition(h)
    \/ ClaimResult(h) \/ EnqueueResult(h) \/ Raise(h)

Work(w) ==
    \/ ClaimFetch(w) \/ FetchRecording(w) \/ ReportRecording(w) \/ ReportStamp(w)
    \/ Mark(w) \/ MarkRaises(w) \/ Drop(w)

Next ==
    \/ \E h \in Handlers : Serve(h) \/ \E c \in Completions : Deliver(h, c)
    \/ \E w \in Workers : Work(w)
    \/ Ripen

Spec == Init /\ [][Next]_vars

-----------------------------------------------------------------------------
(* Properties.                                                               *)

\* Once ShopDeck knows how a call ended, only a completion that itself has no
\* status takes that away: the worker's report, which comes when the webhook is
\* long gone and has only what the row kept, is never the one that nulls it.
OutcomeIsKept ==
    [][shop.outcome # None /\ shop'.outcome = None
         => \/ \E h \in Handlers : req'[h] # req[h] /\ req[h].c \in Silent
            \/ \E w \in Workers : job'[w] # job[w] /\ job[w].c \in Silent]_vars

\* A row that is marked DELIVERED was reported and ShopDeck has carried the report
\* out, both statements, although a refusal of the status counts as success, an
\* answer may be lost and leases may overlap.
DeliveredWasReported == fetch.status = "DELIVERED" => fetch.c \in reported

\* A completion that was answered 200 with a decided outcome left a result for
\* its diagnosis in the outbox, whichever delivery had won the claim.
AckedCompletionIsEnqueued ==
    \A h \in Handlers :
        req[h].code = "200" /\ OutcomeOf[req[h].c] # None
            => DiagnosisOf[OutcomeOf[req[h].c]] \in Enqueued

-----------------------------------------------------------------------------
(* What the documentation says and the code does not do.                     *)

\* recording_fetch_worker.py:22-33: "a late report that gets a 409 ... has still
\* durably written recording_url".  No field of the request is named so, and a
\* row is marked DELIVERED for a recording that ShopDeck never had.
DeliveredIsRecorded == fetch.status = "DELIVERED" => shop.recording = fetch.c
=============================================================================
