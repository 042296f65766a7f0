-------------------------- MODULE ExotelCall_proofs --------------------------
(***************************************************************************)
(* Proofs about ExotelCall, for any number of turns, webhooks and           *)
(* concurrent requests.                                                     *)
(***************************************************************************)
EXTENDS ExotelCall, TLAPS

USE RecordAssumption, CallAssumption

\* Types survive every operation of the record.
LEMMA TransitionType ==
    ASSUME RecordTypeOK, NEW new \in States \ {"REQUESTED"}, TransitionState(new)
    PROVE  RecordTypeOK' /\ outbox' = outbox
BY DEF RecordTypeOK, TransitionState, AllowedPrevious, States, Terminal

LEMMA ClaimType ==
    ASSUME RecordTypeOK, NEW d \in Diagnoses, ClaimWriteback(d)
    PROVE  RecordTypeOK' /\ outbox' = outbox
BY DEF RecordTypeOK, ClaimWriteback

LEMMA EnqueueType ==
    ASSUME RecordTypeOK, NEW o \in Outcomes, EnqueueWriteback(o)
    PROVE  RecordTypeOK'
BY DEF RecordTypeOK, EnqueueWriteback

LEMMA SameRecord ==
    ASSUME RecordTypeOK, UNCHANGED recordVars
    PROVE  RecordTypeOK' /\ outbox' = outbox
BY DEF RecordTypeOK, recordVars

\* What is enqueued stays, and EnqueueWriteback adds its result.
LEMMA EnqueueKeeps ==
    ASSUME RecordTypeOK, NEW o \in Outcomes, EnqueueWriteback(o)
    PROVE  Enqueued \subseteq Enqueued' /\ DiagnosisOf[o] \in Enqueued'
BY DEF RecordTypeOK, EnqueueWriteback, Enqueued

LEMMA SameOutbox == outbox' = outbox => Enqueued' = Enqueued
BY DEF Enqueued

\* A request carries an outcome from the moment it has read one until it serves
\* the next webhook, and once it is answered the result is in the outbox.
SawOK(h) ==
    /\ req[h].at # "done" => req[h].w \in Webhooks
    /\ req[h].at = "record" => req[h].w \in Decides
    /\ req[h].saw # None => req[h].at \in {"claim", "enqueue", "done"}
    /\ req[h].at \in {"claim", "enqueue"} => req[h].saw # None
    /\ req[h].at = "done" /\ req[h].saw # None => DiagnosisOf[req[h].saw] \in Enqueued

IInv == TypeOK /\ \A h \in Handlers : SawOK(h)

Requests == [w : Webhooks \cup {None}, at : Steps, eng : BOOLEAN,
             saw : Decides \cup {None}, code : {"none", "200"}]

\* The request of one handler changes, the others keep their SawOK.
LEMMA OthersKeep ==
    ASSUME IInv, NEW h \in Handlers, NEW r, req' = [req EXCEPT ![h] = r],
           r \in Requests, Enqueued \subseteq Enqueued',
           r.at # "done" => r.w \in Webhooks,
           r.at = "record" => r.w \in Decides,
           r.saw # None => r.at \in {"claim", "enqueue", "done"},
           r.at \in {"claim", "enqueue"} => r.saw # None,
           r.at = "done" /\ r.saw # None => DiagnosisOf[r.saw] \in Enqueued'
    PROVE  /\ req' \in [Handlers -> Requests]
           /\ \A k \in Handlers : SawOK(k)'
<1>1. req' \in [Handlers -> Requests]
  BY DEF IInv, TypeOK, Requests
<1>2. \A k \in Handlers : SawOK(k)'
  <2> SUFFICES ASSUME NEW k \in Handlers PROVE SawOK(k)'
    OBVIOUS
  <2>1. CASE k = h
    <3>1. req'[k] = r
      BY <2>1 DEF IInv, TypeOK
    <3> QED BY <3>1 DEF SawOK
  <2>2. CASE k # h
    <3>1. req'[k] = req[k]
      BY <2>2 DEF IInv, TypeOK
    <3>2. SawOK(k)
      BY DEF IInv
    <3> QED BY <3>1, <3>2 DEF SawOK
  <2> QED BY <2>1, <2>2
<1> QED BY <1>1, <1>2

LEMMA NobodyChanges ==
    ASSUME IInv, UNCHANGED req, Enqueued' = Enqueued
    PROVE  \A k \in Handlers : SawOK(k)'
<1> SUFFICES ASSUME NEW k \in Handlers PROVE SawOK(k)'
  OBVIOUS
<1>1. SawOK(k)
  BY DEF IInv
<1> QED BY <1>1 DEF SawOK

LEMMA FreeType == Free \in Requests /\ Free.saw = None /\ Free.at = "done"
BY DEF Free, Requests, Steps

-----------------------------------------------------------------------------
(* The initial state and every step.                                         *)

LEMMA InitIInv == Init => IInv
<1> SUFFICES ASSUME Init PROVE IInv
  OBVIOUS
<1>1. RecordTypeOK
  BY DEF Init, RecordInit, RecordTypeOK, States, Terminal
<1>2. req \in [Handlers -> Requests]
  BY FreeType DEF Init
<1>3. TypeOK
  BY <1>1, <1>2 DEF Init, TypeOK, Requests
<1>4. \A h \in Handlers : SawOK(h)
  BY FreeType DEF Init, SawOK
<1> QED BY <1>3, <1>4 DEF IInv

\* The dispatch leaves requests and results alone.
LEMMA DispatchStep ==
    ASSUME IInv, Dispatch \/ PersistCorrelation \/ MarkDispatched \/ DispatchRaises
    PROVE  IInv'
<1>1. RecordTypeOK' /\ outbox' = outbox /\ UNCHANGED req
  <2>1. CASE UNCHANGED <<recordVars, req>>
    BY <2>1 DEF recordVars, RecordTypeOK, IInv, TypeOK
  <2>2. CASE (TransitionState("DISPATCHED") \/ TransitionState("FAILED")) /\ UNCHANGED req
    <3>1. "DISPATCHED" \in States \ {"REQUESTED"} /\ "FAILED" \in States \ {"REQUESTED"}
      BY DEF States, Terminal
    <3> QED BY <2>2, <3>1, TransitionType DEF IInv, TypeOK
  <2> QED
    BY <2>1, <2>2 DEF Dispatch, PersistCorrelation, MarkDispatched, DispatchRaises, recordVars
<1>2. Enqueued' = Enqueued
  BY <1>1, SameOutbox
<1>3. \A k \in Handlers : SawOK(k)'
  BY <1>1, <1>2, NobodyChanges
<1>4. TypeOK'
  BY <1>1 DEF Dispatch, PersistCorrelation, MarkDispatched, DispatchRaises, eventVars,
     IInv, TypeOK
<1> QED BY <1>3, <1>4 DEF IInv

\* A step of a handler that reads no outcome and enqueues nothing.
LEMMA PlainStep ==
    ASSUME IInv, NEW h \in Handlers, NEW r \in Requests,
           req' = [req EXCEPT ![h] = r], r.saw = None, r.at \notin {"claim", "enqueue"},
           r.at # "done" => r.w \in Webhooks,
           r.at = "record" => r.w \in Decides,
           RecordTypeOK', outbox' = outbox
    PROVE  req' \in [Handlers -> Requests] /\ \A k \in Handlers : SawOK(k)'
<1>1. Enqueued' = Enqueued
  BY SameOutbox
<1> QED BY <1>1, OthersKeep

\* Goto and Answer move one request.
LEMMA MovedRequest ==
    ASSUME IInv, NEW h \in Handlers, NEW at \in Steps
    PROVE  /\ [req[h] EXCEPT !.at = at] \in Requests
           /\ [req[h] EXCEPT !.at = at].saw = req[h].saw
           /\ [req[h] EXCEPT !.at = at].at = at
           /\ [req[h] EXCEPT !.at = at].w = req[h].w
           /\ [req[h] EXCEPT !.at = "done", !.code = "200"] \in Requests
           /\ [req[h] EXCEPT !.at = "done", !.code = "200"].saw = req[h].saw
           /\ [req[h] EXCEPT !.at = "done", !.code = "200"].at = "done"
<1>1. req[h] \in Requests
  BY DEF IInv, TypeOK, Requests
<1>2. "done" \in Steps
  BY DEF Steps
<1> QED BY <1>1, <1>2 DEF Requests

LEMMA GotoIs ==
    ASSUME IInv, NEW h \in Handlers, NEW at \in Steps, Goto(h, at)
    PROVE  req' = [req EXCEPT ![h] = [req[h] EXCEPT !.at = at]]
BY DEF Goto, IInv, TypeOK

LEMMA AnswerIs ==
    ASSUME IInv, NEW h \in Handlers, Answer(h)
    PROVE  /\ req' = [req EXCEPT ![h] = [req[h] EXCEPT !.at = "done", !.code = "200"]]
           /\ ended' = (ended \/ req[h].w = "end")
BY DEF Answer, IInv, TypeOK

\* Before the pending outcome is read a request carries none.
LEMMA NothingSeen ==
    ASSUME IInv, NEW h \in Handlers, req[h].at \notin {"claim", "enqueue", "done"}
    PROVE  req[h].saw = None
BY DEF IInv, SawOK

\* What is left of TypeOK when the record and the requests are typed.
LEMMA TypeParts ==
    ASSUME RecordTypeOK', req' \in [Handlers -> Requests], poller' = poller,
           known' \in BOOLEAN, pending' \in Decides \cup {None},
           linked' \subseteq logged', logged' \subseteq Webhooks, ended' \in BOOLEAN,
           TypeOK
    PROVE  TypeOK'
BY DEF TypeOK, Requests

\* Every answer keeps the type of ended.
LEMMA EndedType ==
    ASSUME IInv, NEW h \in Handlers, req[h].at # "done", Answer(h) \/ ended' = ended
    PROVE  ended' \in BOOLEAN
BY AnswerIs DEF IInv, TypeOK

LEMMA DeliverStep ==
    ASSUME IInv, NEW h \in Handlers, NEW w \in Webhooks, Deliver(h, w)
    PROVE  IInv'
<1> DEFINE r == [Free EXCEPT !.w = w, !.at = "resolve"]
<1>1. r \in Requests /\ r.saw = None /\ r.at = "resolve" /\ r.w = w
  BY FreeType DEF Free, Requests, Steps
<1>2. RecordTypeOK' /\ outbox' = outbox
  BY SameRecord DEF Deliver, IInv, TypeOK
<1>3. req' = [req EXCEPT ![h] = r]
  BY DEF Deliver
<1> HIDE DEF r
<1>4. req' \in [Handlers -> Requests] /\ \A k \in Handlers : SawOK(k)'
  BY <1>1, <1>2, <1>3, PlainStep
<1>5. TypeOK'
  BY <1>2, <1>4 DEF Deliver, eventVars, IInv, TypeOK, Requests
<1> QED BY <1>4, <1>5 DEF IInv

LEMMA RaiseStep ==
    ASSUME IInv, NEW h \in Handlers, Raise(h)
    PROVE  IInv'
<1>1. RecordTypeOK' /\ outbox' = outbox
  BY SameRecord DEF Raise, IInv, TypeOK
<1>2. req' \in [Handlers -> Requests] /\ \A k \in Handlers : SawOK(k)'
  BY <1>1, FreeType, PlainStep DEF Raise
<1>3. TypeOK'
  BY <1>1, <1>2 DEF Raise, eventVars, IInv, TypeOK, Requests
<1> QED BY <1>2, <1>3 DEF IInv

LEMMA ResolveStep ==
    ASSUME IInv, NEW h \in Handlers, Resolve(h)
    PROVE  IInv'
<1>1. RecordTypeOK' /\ outbox' = outbox
  BY SameRecord DEF Resolve, IInv, TypeOK
<1>2. PICK r \in Requests : /\ req' = [req EXCEPT ![h] = r]
                            /\ r.saw = None /\ r.at \notin {"claim", "enqueue"}
                            /\ r.at # "done" => r.w \in Webhooks
                            /\ r.at # "record"
  <2>1. req[h] \in Requests
    BY DEF IInv, TypeOK, Requests
  <2>2. req[h].saw = None /\ req[h].w \in Webhooks
    BY NothingSeen DEF Resolve, IInv, SawOK
  <2>3. PICK found \in BOOLEAN : found = (req[h].w \in Carries \/ known)
    BY DEF IInv, TypeOK
  <2> DEFINE r1 == [req[h] EXCEPT !.eng = found, !.at = "log"]
             r2 == [req[h] EXCEPT !.eng = TRUE, !.at = "correlate"]
  <2>4. r1 \in Requests /\ r1.saw = None /\ r1.at = "log" /\ r1.w = req[h].w
    BY <2>1, <2>2 DEF Requests, Steps
  <2>5. r2 \in Requests /\ r2.saw = None /\ r2.at = "correlate" /\ r2.w = req[h].w
    BY <2>1, <2>2 DEF Requests, Steps
  <2>6. \/ req' = [req EXCEPT ![h] = r1]
        \/ req' = [req EXCEPT ![h] = r2]
        \/ req' = [req EXCEPT ![h] = Free]
    <3>1. \/ req' = [req EXCEPT ![h].eng = found, ![h].at = "log"]
          \/ req' = [req EXCEPT ![h].eng = TRUE, ![h].at = "correlate"]
          \/ req' = [req EXCEPT ![h] = Free]
      BY <2>3, Zenon DEF Resolve
    <3> QED BY <3>1 DEF IInv, TypeOK
  <2> HIDE DEF r1, r2
  <2> QED BY <2>2, <2>4, <2>5, <2>6, FreeType
<1>3. req' \in [Handlers -> Requests] /\ \A k \in Handlers : SawOK(k)'
  BY <1>1, <1>2, PlainStep
<1>4. TypeOK'
  BY <1>1, <1>3 DEF Resolve, eventVars, IInv, TypeOK, Requests
<1> QED BY <1>3, <1>4 DEF IInv

\* A handler before it reads the outcome goes on, or answers.
LEMMA EarlyStep ==
    ASSUME IInv, NEW h \in Handlers, req[h].at \notin {"claim", "enqueue", "done"},
           \/ \E next \in Steps \ {"claim", "enqueue"} :
                 Goto(h, next) /\ (next = "record" => req[h].w \in Decides)
           \/ Answer(h),
           RecordTypeOK', outbox' = outbox
    PROVE  req' \in [Handlers -> Requests] /\ \A k \in Handlers : SawOK(k)'
<1>1. req[h].saw = None /\ req[h].w \in Webhooks
  BY NothingSeen DEF IInv, SawOK
<1>2. CASE \E next \in Steps \ {"claim", "enqueue"} :
              Goto(h, next) /\ (next = "record" => req[h].w \in Decides)
  <2>1. PICK next \in Steps \ {"claim", "enqueue"} :
            Goto(h, next) /\ (next = "record" => req[h].w \in Decides)
    BY <1>2, Zenon
  <2> DEFINE r == [req[h] EXCEPT !.at = next]
  <2>2. req' = [req EXCEPT ![h] = r]
    BY <2>1, GotoIs
  <2>3. r \in Requests /\ r.saw = req[h].saw /\ r.at = next /\ r.w = req[h].w
    BY <2>1, MovedRequest
  <2> HIDE DEF r
  <2> QED BY <1>1, <2>1, <2>2, <2>3, PlainStep
<1>3. CASE Answer(h)
  <2> DEFINE r == [req[h] EXCEPT !.at = "done", !.code = "200"]
  <2>1. req' = [req EXCEPT ![h] = r]
    BY <1>3, AnswerIs
  <2>2. r \in Requests /\ r.saw = req[h].saw /\ r.at = "done"
    <3>1. "done" \in Steps
      BY DEF Steps
    <3> QED BY <3>1, MovedRequest
  <2> HIDE DEF r
  <2> QED BY <1>1, <2>1, <2>2, PlainStep
<1> QED BY <1>2, <1>3

LEMMA CorrelateStep ==
    ASSUME IInv, NEW h \in Handlers, Correlate(h) \/ LinkOrphans(h)
    PROVE  IInv'
<1>1. RecordTypeOK' /\ outbox' = outbox
  BY SameRecord DEF Correlate, LinkOrphans, IInv, TypeOK
<1>2. req' \in [Handlers -> Requests] /\ \A k \in Handlers : SawOK(k)'
  <2>1. {"link", "transition"} \subseteq Steps \ {"claim", "enqueue"}
    BY DEF Steps
  <2> QED BY <1>1, <2>1, EarlyStep DEF Correlate, LinkOrphans
<1>3. TypeOK'
  BY <1>1, <1>2 DEF Correlate, LinkOrphans, eventVars, IInv, TypeOK, Requests
<1> QED BY <1>2, <1>3 DEF IInv

LEMMA LogEventStep ==
    ASSUME IInv, NEW h \in Handlers, LogEvent(h)
    PROVE  IInv'
<1>1. RecordTypeOK' /\ outbox' = outbox
  BY SameRecord DEF LogEvent, IInv, TypeOK
<1>2. req[h].at = "log" /\ req[h].w \in Webhooks
  BY DEF LogEvent, IInv, SawOK
<1>3. (Goto(h, "transition") /\ UNCHANGED ended) \/ Answer(h)
  BY DEF LogEvent
<1>4. req' \in [Handlers -> Requests] /\ \A k \in Handlers : SawOK(k)'
  <2>1. "transition" \in Steps \ {"claim", "enqueue"}
    BY DEF Steps
  <2> QED BY <1>1, <1>2, <1>3, <2>1, EarlyStep
<1>5. ended' \in BOOLEAN
  BY <1>2, <1>3, EndedType
<1>6. linked' \subseteq logged' /\ logged' \subseteq Webhooks
  BY <1>2 DEF LogEvent, eventVars, IInv, TypeOK
<1>7. UNCHANGED <<poller, known, pending>>
  BY DEF LogEvent
<1> QED BY <1>1, <1>4, <1>5, <1>6, <1>7, TypeParts DEF IInv, TypeOK

LEMMA TransitionStep ==
    ASSUME IInv, NEW h \in Handlers, Transition(h)
    PROVE  IInv'
<1>1. RecordTypeOK' /\ outbox' = outbox
  <2>1. PICK new \in Reaches(req[h].w) : TransitionState(new)
    BY DEF Transition
  <2>2. new \in States \ {"REQUESTED"}
    BY DEF Reaches, States, Terminal
  <2> QED BY <2>1, <2>2, TransitionType DEF IInv, TypeOK
<1>2. req[h].at = "transition"
  BY DEF Transition
<1>3. \/ Goto(h, "record") /\ UNCHANGED ended /\ req[h].w \in Decides
      \/ Goto(h, "read") /\ UNCHANGED ended
      \/ Answer(h)
  BY DEF Transition
<1>4. req' \in [Handlers -> Requests] /\ \A k \in Handlers : SawOK(k)'
  <2>1. {"record", "read"} \subseteq Steps \ {"claim", "enqueue"}
    BY DEF Steps
  <2> QED BY <1>1, <1>2, <1>3, <2>1, EarlyStep
<1>5. ended' \in BOOLEAN
  BY <1>2, <1>3, EndedType
<1>6. UNCHANGED <<poller, known, pending, logged, linked>>
  BY DEF Transition, eventVars
<1> QED BY <1>1, <1>4, <1>5, <1>6, TypeParts DEF IInv, TypeOK

LEMMA ReadStep ==
    ASSUME IInv, NEW h \in Handlers, ReadPending(h)
    PROVE  IInv'
<1>1. RecordTypeOK' /\ outbox' = outbox
  BY SameRecord DEF ReadPending, IInv, TypeOK
<1>2. req' \in [Handlers -> Requests] /\ \A k \in Handlers : SawOK(k)'
  <2>1. CASE pending = None
    BY <2>1, <1>1, EarlyStep DEF ReadPending
  <2>2. CASE pending # None
    <3> DEFINE r == [req[h] EXCEPT !.saw = pending, !.at = "claim"]
    <3>1. req' = [req EXCEPT ![h] = r]
      BY <2>2 DEF ReadPending, IInv, TypeOK
    <3>2. req[h] \in Requests /\ req[h].w \in Webhooks /\ pending \in Decides
      BY <2>2 DEF IInv, TypeOK, Requests, SawOK, ReadPending
    <3>3. r \in Requests /\ r.saw = pending /\ r.at = "claim" /\ r.w = req[h].w
      BY <3>2 DEF Requests, Steps
    <3>4. Enqueued' = Enqueued
      BY <1>1, SameOutbox
    <3> HIDE DEF r
    <3> QED BY <2>2, <3>1, <3>2, <3>3, <3>4, OthersKeep
  <2> QED BY <2>1, <2>2
<1>3. ended' \in BOOLEAN
  BY EndedType DEF ReadPending
<1>4. UNCHANGED <<poller, known, pending, logged, linked>>
  BY DEF ReadPending, eventVars
<1> QED BY <1>1, <1>2, <1>3, <1>4, TypeParts DEF IInv, TypeOK

LEMMA RecordPendingStep ==
    ASSUME IInv, NEW h \in Handlers, RecordPending(h)
    PROVE  IInv'
<1>1. RecordTypeOK' /\ outbox' = outbox
  BY SameRecord DEF RecordPending, IInv, TypeOK
<1>2. req' \in [Handlers -> Requests] /\ \A k \in Handlers : SawOK(k)'
  BY <1>1, EarlyStep DEF RecordPending
<1>3. ended' \in BOOLEAN
  BY EndedType DEF RecordPending
<1>4. UNCHANGED <<poller, known, logged, linked>> /\ pending' \in Decides \cup {None}
  BY DEF RecordPending, eventVars, IInv, TypeOK, SawOK
<1> QED BY <1>1, <1>2, <1>3, <1>4, TypeParts DEF IInv, TypeOK

LEMMA ClaimResultStep ==
    ASSUME IInv, NEW h \in Handlers, ClaimResult(h)
    PROVE  IInv'
<1>1. req[h] \in Requests /\ req[h].w \in Webhooks /\ req[h].saw \in Decides
  BY DEF IInv, TypeOK, Requests, SawOK, ClaimResult
<1>2. RecordTypeOK' /\ outbox' = outbox
  <2>1. DiagnosisOf[req[h].saw] \in Diagnoses
    BY <1>1 DEF RecordAssumption, CallAssumption
  <2> QED BY <2>1, ClaimType DEF ClaimResult, IInv, TypeOK
<1>3. req' \in [Handlers -> Requests] /\ \A k \in Handlers : SawOK(k)'
  <2> DEFINE r == [req[h] EXCEPT !.at = "enqueue"]
  <2>1. req' = [req EXCEPT ![h] = r]
    BY GotoIs DEF ClaimResult, Steps
  <2>2. r \in Requests /\ r.saw = req[h].saw /\ r.at = "enqueue" /\ r.w = req[h].w
    BY <1>1 DEF Requests, Steps
  <2>3. Enqueued' = Enqueued
    BY <1>2, SameOutbox
  <2>4. req[h].saw # None
    BY DEF IInv, SawOK, ClaimResult
  <2> HIDE DEF r
  <2> QED BY <1>1, <2>1, <2>2, <2>3, <2>4, OthersKeep
<1>4. UNCHANGED <<poller, known, pending, logged, linked, ended>>
  BY DEF ClaimResult, eventVars
<1> QED BY <1>2, <1>3, <1>4, TypeParts DEF IInv, TypeOK

LEMMA EnqueueResultStep ==
    ASSUME IInv, NEW h \in Handlers, EnqueueResult(h)
    PROVE  IInv'
<1>1. req[h] \in Requests /\ req[h].w \in Webhooks /\ req[h].saw \in Outcomes
  BY DEF IInv, TypeOK, Requests, SawOK, EnqueueResult, CallAssumption
<1>2. RecordTypeOK'
  BY <1>1, EnqueueType DEF EnqueueResult, IInv, TypeOK
<1>3. Enqueued \subseteq Enqueued' /\ DiagnosisOf[req[h].saw] \in Enqueued'
  BY <1>1, EnqueueKeeps DEF EnqueueResult, IInv, TypeOK
<1>4. req' \in [Handlers -> Requests] /\ \A k \in Handlers : SawOK(k)'
  <2> DEFINE r == [req[h] EXCEPT !.at = "done", !.code = "200"]
  <2>1. req' = [req EXCEPT ![h] = r]
    BY AnswerIs DEF EnqueueResult
  <2>2. r \in Requests /\ r.saw = req[h].saw /\ r.at = "done"
    BY <1>1 DEF Requests, Steps
  <2> HIDE DEF r
  <2> QED BY <1>3, <2>1, <2>2, OthersKeep
<1>5. ended' \in BOOLEAN
  BY EndedType DEF EnqueueResult
<1>6. UNCHANGED <<poller, known, pending, logged, linked>>
  BY DEF EnqueueResult, eventVars
<1> QED BY <1>2, <1>4, <1>5, <1>6, TypeParts DEF IInv, TypeOK

LEMMA StepIInv == IInv /\ [Next]_vars => IInv'
<1> SUFFICES ASSUME IInv, [Next]_vars PROVE IInv'
  OBVIOUS
<1>1. CASE Dispatch \/ PersistCorrelation \/ MarkDispatched \/ DispatchRaises
  BY <1>1, DispatchStep
<1>2. ASSUME NEW h \in Handlers, Serve(h) PROVE IInv'
  BY <1>2, ResolveStep, CorrelateStep, LogEventStep, TransitionStep, RecordPendingStep,
     ReadStep, ClaimResultStep, EnqueueResultStep DEF Serve
<1>3. ASSUME NEW h \in Handlers, Raise(h) PROVE IInv'
  BY <1>3, RaiseStep
<1>4. ASSUME NEW h \in Handlers, NEW w \in Webhooks, Deliver(h, w) PROVE IInv'
  BY <1>4, DeliverStep
<1>5. CASE UNCHANGED vars
  <2>1. RecordTypeOK' /\ outbox' = outbox
    BY <1>5, SameRecord DEF vars, IInv, TypeOK
  <2>2. \A k \in Handlers : SawOK(k)'
    BY <1>5, <2>1, SameOutbox, NobodyChanges DEF vars
  <2> QED BY <1>5, <2>1, <2>2 DEF vars, eventVars, IInv, TypeOK
<1> QED BY <1>1, <1>2, <1>3, <1>4, <1>5 DEF Next

\* The inductive invariant holds in every behaviour.
THEOREM Invariance == Spec => []IInv
BY InitIInv, StepIInv, PTL DEF Spec

\* The engagement, its events and the requests keep their types, and a call is
\* queued for normalization exactly when its state is final.
THEOREM TypeCorrect == Spec => []TypeOK
<1>1. IInv => TypeOK
  BY DEF IInv
<1> QED BY <1>1, Invariance, PTL

\* A session-end answered 200 that found an outcome left a result in the outbox
\* (the durability invariant of _submit_pending_ndr_outcome).
THEOREM AckedEndCorrect == Spec => []AckedEndIsEnqueued
<1>1. IInv => AckedEndIsEnqueued
  BY DEF IInv, SawOK, AckedEndIsEnqueued
<1> QED BY <1>1, Invariance, PTL

-----------------------------------------------------------------------------
(* What a step may never do.                                                 *)

\* transition_state moves forward or not at all.
LEMMA TransitionAdvances ==
    ASSUME RecordTypeOK, NEW new \in States \ {"REQUESTED"}, TransitionState(new)
    PROVE  Rank[state'] >= Rank[state] /\ (state \in Terminal => state' = state)
BY DEF RecordTypeOK, TransitionState, AllowedPrevious, States, Terminal, Rank

\* The state of the engagement changes only by transition_state.
LEMMA StateMoves ==
    ASSUME IInv, [Next]_vars
    PROVE  state' = state \/ \E new \in States \ {"REQUESTED"} : TransitionState(new)
<1>1. CASE Dispatch \/ PersistCorrelation \/ MarkDispatched \/ DispatchRaises
  BY <1>1 DEF Dispatch, PersistCorrelation, MarkDispatched, DispatchRaises, recordVars,
     States, Terminal
<1>2. ASSUME NEW h \in Handlers, Transition(h)
      PROVE  \E new \in States \ {"REQUESTED"} : TransitionState(new)
  BY <1>2 DEF Transition, Reaches, States, Terminal
<1>3. ASSUME NEW h \in Handlers,
             \/ Resolve(h) \/ Correlate(h) \/ LinkOrphans(h) \/ LogEvent(h)
             \/ RecordPending(h) \/ ReadPending(h) \/ ClaimResult(h)
             \/ EnqueueResult(h) \/ Raise(h) \/ \E w \in Webhooks : Deliver(h, w)
      PROVE  state' = state
  BY <1>3 DEF Resolve, Correlate, LinkOrphans, LogEvent, RecordPending, ReadPending,
     ClaimResult, EnqueueResult, Raise, Deliver, recordVars, ClaimWriteback, EnqueueWriteback
<1>4. CASE UNCHANGED vars
  BY <1>4 DEF vars, recordVars
<1> QED BY <1>1, <1>2, <1>3, <1>4 DEF Next, Serve

\* Late, repeated and reordered webhooks never move the engagement back, nor out
\* of a final state.
THEOREM NeverRegressesCorrect == Spec => NeverRegresses
<1>1. IInv /\ [Next]_vars => [Advances]_vars
  <2> SUFFICES ASSUME IInv, [Next]_vars PROVE Advances
    OBVIOUS
  <2>1. CASE state' = state
    <3>1. Rank[state] \in 0..4
      BY DEF IInv, TypeOK, RecordTypeOK, Rank, States, Terminal
    <3> QED BY <2>1, <3>1 DEF Advances
  <2>2. CASE \E new \in States \ {"REQUESTED"} : TransitionState(new)
    BY <2>2, TransitionAdvances DEF IInv, TypeOK, Advances
  <2> QED BY <2>1, <2>2, StateMoves
<1> QED BY <1>1, Invariance, PTL DEF Spec, NeverRegresses

\* The result announced on the engagement is never replaced.
THEOREM ClaimIsFinalCorrect == Spec => ClaimIsFinal
<1>1. [Next]_vars => [claimed # None => claimed' = claimed]_vars
  BY DEF Next, Serve, vars, recordVars, Dispatch, PersistCorrelation, MarkDispatched,
     DispatchRaises, TransitionState, Resolve, Correlate, LinkOrphans, LogEvent, Transition,
     RecordPending, ReadPending, ClaimResult, ClaimWriteback, EnqueueResult,
     EnqueueWriteback, Raise, Deliver
<1> QED BY <1>1, PTL DEF Spec, ClaimIsFinal
=============================================================================
