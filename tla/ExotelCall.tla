------------------------------ MODULE ExotelCall ------------------------------
(***************************************************************************)
(* A voice call over Exotel: the dispatch by the poller, and the webhooks   *)
(* Exotel sends while the call lasts (src/api/webhooks/exotel_webhooks.py). *)
(*                                                                         *)
(* Every webhook is an HTTP request of its own.  Webhooks arrive late, out  *)
(* of order and more than once; their handlers run concurrently and         *)
(* interleave at every MongoDB operation, and any operation may raise.      *)
(* A handler remembers its answer until it serves the next request.         *)
(***************************************************************************)
EXTENDS EngagementRecord

CONSTANTS
    Turns,       \* customer turns of the call
    Decides,     \* the turns that the classifier finds decisive: not UNCLEAR
    Webhooks,    \* the webhooks of the call: "start", "end", ..., and the turns
    Carries,     \* webhooks whose payload names the engagement
    EventId,     \* EventId of a webhook's payload, None when it has none
    Handlers     \* requests served at once

ASSUME CallAssumption ==
    /\ Decides \subseteq Turns
    /\ Outcomes = Decides       \* the outcome of a turn is what was said in it
    /\ Webhooks \subseteq {"start", "end", "transfer", "insights"} \cup Turns
    /\ Turns \subseteq Webhooks
    /\ Carries \subseteq Webhooks
    /\ None \notin Webhooks

VARIABLES
    poller,    \* how far the dispatch of the call is
    known,     \* the engagement holds the id of the call
    pending,   \* metadata.pending_ndr_outcome
    logged,    \* webhooks with a row in customer_engagement_events
    linked,    \* those whose row has the engagement_id
    req,       \* the request each handler serves, or its last answer
    ended      \* a session-end was answered 200: Exotel need not repeat it

eventVars == <<logged, linked>>
vars == <<recordVars, poller, known, pending, eventVars, req, ended>>

Free == [w |-> None, at |-> "done", eng |-> FALSE, saw |-> None, code |-> "none"]

Steps == {"resolve", "correlate", "link", "log", "transition", "record", "read",
          "claim", "enqueue", "done"}

TypeOK ==
    /\ RecordTypeOK
    /\ poller \in {"calling", "accepted", "correlated", "over"}
    /\ known \in BOOLEAN
    /\ pending \in Decides \cup {None}
    /\ linked \subseteq logged /\ logged \subseteq Webhooks
    /\ req \in [Handlers -> [w : Webhooks \cup {None}, at : Steps, eng : BOOLEAN,
                             saw : Decides \cup {None}, code : {"none", "200"}]]
    /\ ended \in BOOLEAN

Init ==
    /\ RecordInit
    /\ poller = "calling" /\ known = FALSE
    /\ pending = None
    /\ logged = {} /\ linked = {}
    /\ req = [h \in Handlers |-> Free]
    /\ ended = FALSE

-----------------------------------------------------------------------------
(* The dispatch.                                                             *)

\* The provider takes the call, whether or not its answer arrives.
Dispatch ==
    /\ poller = "calling"
    /\ poller' \in {"accepted", "over"}
    /\ UNCHANGED <<recordVars, known, pending, eventVars, req, ended>>

\* persist_provider_correlation: the id of the call, and then the transition.
PersistCorrelation ==
    /\ poller = "accepted"
    /\ poller' = "correlated" /\ known' = TRUE
    /\ UNCHANGED <<recordVars, pending, eventVars, req, ended>>

MarkDispatched ==
    /\ poller = "correlated"
    /\ poller' = "over"
    /\ TransitionState("DISPATCHED")
    /\ UNCHANGED <<known, pending, eventVars, req, ended>>

\* execute_engagement fails the engagement on any exception; the queue poller
\* reports to ShopDeck and leaves the engagement as it is.
DispatchRaises ==
    /\ poller # "over"
    /\ poller' = "over"
    /\ TransitionState("FAILED") \/ UNCHANGED recordVars
    /\ UNCHANGED <<known, pending, eventVars, req, ended>>

-----------------------------------------------------------------------------
(* Requests.                                                                 *)

Goto(h, at) == req' = [req EXCEPT ![h].at = at]

Answer(h) ==
    /\ req' = [req EXCEPT ![h].at = "done", ![h].code = "200"]
    /\ ended' = (ended \/ req[h].w = "end")

\* Exotel delivers a webhook, for the first time or again.
Deliver(h, w) ==
    /\ poller # "calling"
    /\ req[h].at = "done"
    /\ req' = [req EXCEPT ![h] = [Free EXCEPT !.w = w, !.at = "resolve"]]
    /\ UNCHANGED <<recordVars, poller, known, pending, eventVars, ended>>

\* A call id that nobody knows yet leaves an event without its engagement; a
\* session-start is refused.
Resolve(h) ==
    LET found == req[h].w \in Carries \/ known IN
    /\ req[h].at = "resolve"
    /\ \/ /\ req[h].w # "start"
          /\ req' = [req EXCEPT ![h].eng = found, ![h].at = "log"]
       \/ /\ req[h].w = "start" /\ found
          /\ req' = [req EXCEPT ![h].eng = TRUE, ![h].at = "correlate"]
       \/ /\ req[h].w = "start" /\ ~found
          /\ req' = [req EXCEPT ![h] = Free]
    /\ UNCHANGED <<recordVars, poller, known, pending, eventVars, ended>>

\* update_engagement_correlation: the session id, and then the orphaned events.
Correlate(h) ==
    /\ req[h].at = "correlate"
    /\ known' = TRUE
    /\ Goto(h, "link")
    /\ UNCHANGED <<recordVars, poller, pending, eventVars, ended>>

LinkOrphans(h) ==
    /\ req[h].at = "link"
    /\ linked' = logged
    /\ Goto(h, "transition")
    /\ UNCHANGED <<recordVars, poller, known, pending, logged, ended>>

\* log_event: (provider, provider_event_id) is unique, and a sparse index of two
\* fields still holds the rows that lack one of them.
IsDuplicate(w) == \E v \in logged : EventId[v] = EventId[w]

LogEvent(h) ==
    LET w == req[h].w IN
    /\ req[h].at = "log"
    /\ IF IsDuplicate(w)
         THEN UNCHANGED eventVars
         ELSE /\ logged' = logged \cup {w}
              /\ linked' = IF req[h].eng THEN linked \cup {w} ELSE linked
    /\ IF req[h].eng /\ w # "insights" THEN Goto(h, "transition") /\ UNCHANGED ended
                                       ELSE Answer(h)
    /\ UNCHANGED <<recordVars, poller, known, pending>>

\* Status of a session-end is "failed" for busy and unanswered calls.
Reaches(w) ==
    CASE w = "start"    -> {"CONNECTED"}
      [] w = "transfer" -> {"ESCALATED"}
      [] w = "end"      -> {"COMPLETED", "FAILED"}
      [] OTHER          -> {"IN_PROGRESS"}

Transition(h) ==
    LET w == req[h].w IN
    /\ req[h].at = "transition"
    /\ \E new \in Reaches(w) : TransitionState(new)
    /\ CASE w \in Decides -> Goto(h, "record") /\ UNCHANGED ended
         [] w = "end"     -> Goto(h, "read") /\ UNCHANGED ended
         [] OTHER         -> Answer(h)
    /\ UNCHANGED <<poller, known, pending, eventVars>>

\* record_ndr_outcome_from_transcript swallows its exceptions.
RecordPending(h) ==
    /\ req[h].at = "record"
    /\ pending' \in {pending, req[h].w}
    /\ Answer(h)
    /\ UNCHANGED <<recordVars, poller, known, eventVars>>

\* _submit_pending_ndr_outcome: what it reads here it uses to the end.
ReadPending(h) ==
    /\ req[h].at = "read"
    /\ \/ /\ pending # None
          /\ req' = [req EXCEPT ![h].saw = pending, ![h].at = "claim"]
          /\ UNCHANGED ended
       \/ pending = None /\ Answer(h)
    /\ UNCHANGED <<recordVars, poller, known, pending, eventVars>>

\* Faulty: who does not win the claim leaves the rest to the winner.
ClaimResult_WinnerOnly(h) ==
    /\ req[h].at = "claim"
    /\ ClaimWriteback(DiagnosisOf[req[h].saw])
    /\ IF claimed = None THEN Goto(h, "enqueue") /\ UNCHANGED ended ELSE Answer(h)
    /\ UNCHANGED <<poller, known, pending, eventVars>>

ClaimResult(h) ==
    /\ req[h].at = "claim"
    /\ ClaimWriteback(DiagnosisOf[req[h].saw])
    /\ Goto(h, "enqueue")
    /\ UNCHANGED <<poller, known, pending, eventVars, ended>>

EnqueueResult(h) ==
    /\ req[h].at = "enqueue"
    /\ EnqueueWriteback(req[h].saw)
    /\ Answer(h)
    /\ UNCHANGED <<poller, known, pending, eventVars>>

\* Faulty: session-end swallows the exception of the submission.
Raise_Swallowed(h) ==
    /\ req[h].at # "done"
    /\ IF req[h].at = "enqueue" THEN Answer(h)
                                ELSE UNCHANGED ended /\ req' = [req EXCEPT ![h] = Free]
    /\ UNCHANGED <<recordVars, poller, known, pending, eventVars>>

\* The operation raises, or the process dies: no 200, and nothing is left of it.
Raise(h) ==
    /\ req[h].at # "done"
    /\ req' = [req EXCEPT ![h] = Free]
    /\ UNCHANGED <<recordVars, poller, known, pending, eventVars, ended>>

Serve(h) ==
    \/ Resolve(h) \/ Correlate(h) \/ LinkOrphans(h) \/ LogEvent(h) \/ Transition(h)
    \/ RecordPending(h) \/ ReadPending(h) \/ ClaimResult(h) \/ EnqueueResult(h)

Next ==
    \/ Dispatch \/ PersistCorrelation \/ MarkDispatched \/ DispatchRaises
    \/ \E h \in Handlers : \/ Serve(h) \/ Raise(h)
                           \/ \E w \in Webhooks : Deliver(h, w)

Spec == Init /\ [][Next]_vars

Serving(h, w) == req[h].at # "done" /\ req[h].w = w

\* A request ends.  Exotel repeats a session-end that was not answered with 200,
\* and not every one of them fails at the same operation.
FairSpec ==
    /\ Spec
    /\ \A h \in Handlers : WF_vars(Serve(h))
    /\ SF_vars(\E h \in Handlers : ~ended /\ Deliver(h, "end"))
    /\ SF_vars(\E h \in Handlers : Serving(h, "end") /\ Resolve(h))
    /\ SF_vars(\E h \in Handlers : Serving(h, "end") /\ LogEvent(h))
    /\ SF_vars(\E h \in Handlers : Serving(h, "end") /\ Transition(h))
    /\ SF_vars(\E h \in Handlers : ReadPending(h))
    /\ SF_vars(\E h \in Handlers : ClaimResult(h))
    /\ SF_vars(\E h \in Handlers : EnqueueResult(h))

-----------------------------------------------------------------------------
(* Properties.                                                               *)

Advances ==
    /\ Rank[state'] >= Rank[state]
    /\ state \in Terminal => state' = state

\* Whatever order webhooks, their repetitions and the dispatch come in, the state
\* of the engagement only goes forward, and a finished call stays as it ended.
NeverRegresses == [][Advances]_vars

\* A session-end that found an outcome and was answered 200 left a result in
\* the outbox, also when an earlier delivery had won the claim and then failed.
AckedEndIsEnqueued ==
    \A h \in Handlers : req[h].at = "done" /\ req[h].saw # None
                            => DiagnosisOf[req[h].saw] \in Enqueued

\* The result that is announced on the engagement is never replaced.
ClaimIsFinal == [][claimed # None => claimed' = claimed]_vars

\* An outcome that was recorded before the last session-end came in reaches the
\* outbox, through failures at every operation, as long as Exotel repeats it.
DecidedIsEnqueued ==
    pending # None /\ ~ended /\ (\A h \in Handlers : ~Serving(h, "end"))
        ~> Enqueued # {}
=============================================================================
