--------------------------- MODULE SarvamCall_proofs ---------------------------
(***************************************************************************)
(* Proofs about SarvamCall, for any number of completions, concurrent       *)
(* requests, recording workers and attempts.                                *)
(***************************************************************************)
EXTENDS SarvamCall, TLAPS

USE RecordAssumption, CallAssumption

\* Types survive every operation of the record.
LEMMA TransitionType ==
    ASSUME RecordTypeOK, NEW new \in States \ {"REQUESTED"}, TransitionState(new)
    PROVE  RecordTypeOK' /\ outbox' = outbox
BY DEF RecordTypeOK, TransitionState, AllowedPrevious, States, Terminal

LEMMA ClaimType ==
    ASSUME RecordTypeOK, NEW d \in Diagnoses, ClaimWriteback(d)
    PROVE  RecordTypeOK' /\ outbox' = outbox
BY DEF RecordTypeOK, ClaimWriteback

LEMMA EnqueueType ==
    ASSUME RecordTypeOK, NEW o \in Outcomes, EnqueueWriteback(o)
    PROVE  RecordTypeOK'
BY DEF RecordTypeOK, EnqueueWriteback

LEMMA SameRecord ==
    ASSUME RecordTypeOK, UNCHANGED recordVars
    PROVE  RecordTypeOK' /\ outbox' = outbox
BY DEF RecordTypeOK, recordVars

\* What is enqueued stays, and EnqueueWriteback adds its result.
LEMMA EnqueueKeeps ==
    ASSUME RecordTypeOK, NEW o \in Outcomes, EnqueueWriteback(o)
    PROVE  Enqueued \subseteq Enqueued' /\ DiagnosisOf[o] \in Enqueued'
BY DEF RecordTypeOK, EnqueueWriteback, Enqueued

LEMMA SameOutbox == outbox' = outbox => Enqueued' = Enqueued
BY DEF Enqueued

Requests == [c : Completions \cup {None}, at : Steps, code : {"none", "200"}]

Rows == [c : Recorded \cup {None}, n : 0..(MaxAttempts - 1), ripe : BOOLEAN,
         status : {"absent", "PENDING", "PROCESSING"} \cup Final,
         token : Workers \cup {None}]

Jobs == [at : {"idle", "claimed", "fetched", "stamping", "settled", "failing"},
         c : Recorded \cup {None}, n : 0..(MaxAttempts - 1)]

Shops == [outcome : Completions \cup {None}, recording : Recorded \cup {None}]

\* Only a request with a decided outcome gets past the transition, and an answer
\* to it is given when its result is in the outbox.
RequestOK(h) ==
    /\ req[h].at # "done" => req[h].c \in Completions /\ req[h].code = "none"
    /\ req[h].at \in {"claim", "enqueue"} => OutcomeOf[req[h].c] # None
    /\ req[h].code = "200" => /\ req[h].c \in Completions
                              /\ OutcomeOf[req[h].c] # None
                                    => DiagnosisOf[OutcomeOf[req[h].c]] \in Enqueued

\* A worker's job is about the one row there is; while the row carries its token
\* the count it read is current; a settled job has been reported.
JobOK(w) ==
    /\ job[w].at # "idle" => /\ job[w].c = fetch.c /\ fetch.status # "absent"
                             /\ fetch.token = w => job[w].n = fetch.n
    /\ job[w].at = "settled" => job[w].c \in reported

FetchOK ==
    /\ fetch.status # "absent" => fetch.c \in Recorded
    /\ fetch.status = "DELIVERED" => fetch.c \in reported

RequestsOK == req \in [Handlers -> Requests] /\ \A h \in Handlers : RequestOK(h)

WorkersOK ==
    /\ fetch \in Rows /\ FetchOK
    /\ job \in [Workers -> Jobs] /\ \A w \in Workers : JobOK(w)
    /\ shop \in Shops
    /\ reported \subseteq Recorded

IInv == RecordTypeOK /\ RequestsOK /\ WorkersOK

-----------------------------------------------------------------------------
(* Requests.                                                                 *)

LEMMA FreeType == Free \in Requests /\ Free.at = "done" /\ Free.code = "none"
BY DEF Free, Requests, Steps

\* The request of one handler changes; what is enqueued stays.
LEMMA RequestMoves ==
    ASSUME RequestsOK, NEW h \in Handlers, NEW r \in Requests,
           req' = [req EXCEPT ![h] = r], Enqueued \subseteq Enqueued',
           r.at # "done" => r.c \in Completions /\ r.code = "none",
           r.at \in {"claim", "enqueue"} => OutcomeOf[r.c] # None,
           r.code = "200" => /\ r.c \in Completions
                             /\ OutcomeOf[r.c] # None
                                   => DiagnosisOf[OutcomeOf[r.c]] \in Enqueued'
    PROVE  RequestsOK'
<1>1. req' \in [Handlers -> Requests]
  BY DEF RequestsOK
<1>2. ASSUME NEW k \in Handlers PROVE RequestOK(k)'
  <2>1. CASE k = h
    <3>1. req'[k] = r
      BY <2>1 DEF RequestsOK
    <3> QED BY <3>1 DEF RequestOK
  <2>2. CASE k # h
    <3>1. req'[k] = req[k] /\ RequestOK(k)
      BY <2>2 DEF RequestsOK
    <3> QED BY <3>1 DEF RequestOK
  <2> QED BY <2>1, <2>2
<1> QED BY <1>1, <1>2 DEF RequestsOK

LEMMA NoRequestMoves ==
    ASSUME RequestsOK, UNCHANGED req, outbox' = outbox
    PROVE  RequestsOK'
<1>1. ASSUME NEW k \in Handlers PROVE RequestOK(k)'
  <2>1. RequestOK(k)
    BY DEF RequestsOK
  <2> QED BY <2>1, SameOutbox DEF RequestOK
<1> QED BY <1>1 DEF RequestsOK

\* Goto: the request stays what it was, at another place.
LEMMA GotoMoves ==
    ASSUME RequestsOK, NEW h \in Handlers, NEW at \in Steps \ {"done"}, Goto(h, at),
           req[h].at # "done", outbox' = outbox,
           at \in {"claim", "enqueue"} => OutcomeOf[req[h].c] # None
    PROVE  RequestsOK'
<1> DEFINE r == [req[h] EXCEPT !.at = at]
<1>1. req' = [req EXCEPT ![h] = r]
  BY DEF Goto, RequestsOK
<1>2. req[h] \in Requests /\ RequestOK(h)
  BY DEF RequestsOK
<1>3. r \in Requests /\ r.at = at /\ r.c = req[h].c /\ r.code = req[h].code
  BY <1>2 DEF Requests
<1>4. r.c \in Completions /\ r.code = "none"
  BY <1>2, <1>3 DEF RequestOK
<1>5. Enqueued' = Enqueued
  BY SameOutbox
<1> HIDE DEF r
<1> QED BY <1>1, <1>3, <1>4, <1>5, RequestMoves

\* Answer: what was decided is in the outbox.
LEMMA AnswerMoves ==
    ASSUME RequestsOK, NEW h \in Handlers, Answer(h), req[h].at # "done",
           Enqueued \subseteq Enqueued',
           OutcomeOf[req[h].c] # None => DiagnosisOf[OutcomeOf[req[h].c]] \in Enqueued'
    PROVE  RequestsOK'
<1> DEFINE r == [req[h] EXCEPT !.at = "done", !.code = "200"]
<1>1. req' = [req EXCEPT ![h] = r]
  BY DEF Answer, RequestsOK
<1>2. req[h] \in Requests /\ RequestOK(h)
  BY DEF RequestsOK
<1>3. r \in Requests /\ r.at = "done" /\ r.c = req[h].c /\ r.code = "200"
  BY <1>2 DEF Requests, Steps
<1>4. r.c \in Completions
  BY <1>2, <1>3 DEF RequestOK
<1> HIDE DEF r
<1> QED BY <1>1, <1>3, <1>4, RequestMoves

\* No step of a request, of a worker or of the clock disturbs the record or what
\* the requests know.
LEMMA RequestStep ==
    ASSUME IInv, [Next]_vars
    PROVE  RecordTypeOK' /\ RequestsOK'
<1> USE DEF IInv
<1>1. ASSUME NEW h \in Handlers, NEW c \in Completions, Deliver(h, c)
      PROVE  RecordTypeOK' /\ RequestsOK'
  <2> DEFINE r == [Free EXCEPT !.c = c, !.at = "patch"]
  <2>1. r \in Requests /\ r.at = "patch" /\ r.c = c /\ r.code = "none"
    BY DEF Free, Requests, Steps
  <2>2. RecordTypeOK' /\ Enqueued' = Enqueued
    BY <1>1, SameRecord, SameOutbox DEF Deliver
  <2>3. req' = [req EXCEPT ![h] = r]
    BY <1>1 DEF Deliver
  <2> HIDE DEF r
  <2> QED BY <2>1, <2>2, <2>3, RequestMoves
<1>2. ASSUME NEW h \in Handlers, PatchCompleted(h) \/ PatchStamp(h) \/ EnqueueFetch(h)
      PROVE  RecordTypeOK' /\ RequestsOK'
  <2>1. RecordTypeOK' /\ outbox' = outbox
    BY <1>2, SameRecord DEF PatchCompleted, PatchStamp, EnqueueFetch
  <2>2. req[h].at # "done" /\ \E at \in {"stamp", "fetch", "transition"} : Goto(h, at)
    BY <1>2 DEF PatchCompleted, PatchStamp, EnqueueFetch
  <2> QED BY <2>1, <2>2, GotoMoves DEF Steps
<1>3. ASSUME NEW h \in Handlers, Transition(h)
      PROVE  RecordTypeOK' /\ RequestsOK'
  <2>1. req[h].c \in Completions /\ req[h].at # "done"
    BY <1>3 DEF Transition, RequestsOK, RequestOK
  <2>2. RecordTypeOK' /\ outbox' = outbox
    <3>1. FinalState[req[h].c] \in {"COMPLETED", "FAILED"}
      BY <2>1 DEF CallAssumption
    <3>2. FinalState[req[h].c] \in States \ {"REQUESTED"}
      BY <3>1 DEF States, Terminal
    <3>3. TransitionState(FinalState[req[h].c])
      BY <1>3 DEF Transition
    <3> QED BY <3>2, <3>3, TransitionType
  <2>3. CASE OutcomeOf[req[h].c] = None
    BY <1>3, <2>1, <2>2, <2>3, SameOutbox, AnswerMoves DEF Transition
  <2>4. CASE OutcomeOf[req[h].c] # None
    BY <1>3, <2>1, <2>2, <2>4, GotoMoves DEF Transition, Steps
  <2> QED BY <2>2, <2>3, <2>4
<1>4. ASSUME NEW h \in Handlers, ClaimResult(h)
      PROVE  RecordTypeOK' /\ RequestsOK'
  <2>1. req[h].c \in Completions /\ OutcomeOf[req[h].c] # None /\ req[h].at # "done"
    BY <1>4 DEF ClaimResult, RequestsOK, RequestOK
  <2>2. OutcomeOf[req[h].c] \in Outcomes
    BY <2>1 DEF CallAssumption
  <2>3. DiagnosisOf[OutcomeOf[req[h].c]] \in Diagnoses
    BY <2>2, RecordAssumption DEF RecordAssumption
  <2>4. RecordTypeOK' /\ outbox' = outbox
    BY <1>4, <2>3, ClaimType DEF ClaimResult
  <2> QED BY <1>4, <2>1, <2>4, GotoMoves DEF ClaimResult, Steps
<1>5. ASSUME NEW h \in Handlers, EnqueueResult(h)
      PROVE  RecordTypeOK' /\ RequestsOK'
  <2>1. req[h].c \in Completions /\ OutcomeOf[req[h].c] # None /\ req[h].at # "done"
    BY <1>5 DEF EnqueueResult, RequestsOK, RequestOK
  <2>2. OutcomeOf[req[h].c] \in Outcomes
    BY <2>1 DEF CallAssumption
  <2>3. RecordTypeOK'
    BY <1>5, <2>2, EnqueueType DEF EnqueueResult
  <2>4. Enqueued \subseteq Enqueued' /\ DiagnosisOf[OutcomeOf[req[h].c]] \in Enqueued'
    BY <1>5, <2>2, EnqueueKeeps DEF EnqueueResult
  <2> QED BY <1>5, <2>1, <2>3, <2>4, AnswerMoves DEF EnqueueResult
<1>6. ASSUME NEW h \in Handlers, Raise(h)
      PROVE  RecordTypeOK' /\ RequestsOK'
  BY <1>6, FreeType, SameRecord, SameOutbox, RequestMoves DEF Raise
<1>7. ASSUME NEW w \in Workers, Work(w)
      PROVE  RecordTypeOK' /\ RequestsOK'
  <2>1. UNCHANGED <<recordVars, req>>
    BY <1>7 DEF Work, ClaimFetch, FetchRecording, ReportRecording, ReportStamp, Mark,
                MarkRaises, Drop
  <2> QED BY <2>1, SameRecord, NoRequestMoves
<1>8. CASE Ripen
  BY <1>8, SameRecord, NoRequestMoves DEF Ripen
<1>9. CASE UNCHANGED vars
  BY <1>9, SameRecord, NoRequestMoves DEF vars
<1> QED BY <1>1, <1>2, <1>3, <1>4, <1>5, <1>6, <1>7, <1>8, <1>9 DEF Next, Serve

-----------------------------------------------------------------------------
(* The recording.                                                            *)

\* What the webhook does to the row: nothing, or the first row is written.
LEMMA RowAppears ==
    ASSUME WorkersOK, NEW c \in Recorded, fetch.status = "absent",
           fetch' = [NoFetch EXCEPT !.c = c, !.status = "PENDING"],
           UNCHANGED <<job, shop, reported>>
    PROVE  WorkersOK'
<1>1. fetch' \in Rows /\ fetch'.status = "PENDING" /\ fetch'.c = c
  <2>1. fetch' = [c |-> c, status |-> "PENDING", n |-> 0, token |-> None, ripe |-> FALSE]
    BY DEF NoFetch
  <2>2. 0 \in 0..(MaxAttempts - 1)
    BY DEF CallAssumption
  <2>3. [c |-> c, status |-> "PENDING", n |-> 0, token |-> None, ripe |-> FALSE] \in Rows
    BY <2>2 DEF Rows
  <2> QED BY <2>1, <2>3
<1>2. FetchOK'
  BY <1>1 DEF FetchOK
<1>3. ASSUME NEW w \in Workers PROVE JobOK(w)'
  <2>1. job[w].at = "idle"
    BY DEF WorkersOK, JobOK
  <2> QED BY <2>1 DEF JobOK
<1> QED BY <1>1, <1>2, <1>3 DEF WorkersOK

\* A statement of a report keeps ShopDeck's row a row.
LEMMA ReportType ==
    ASSUME shop \in Shops, NEW c \in Completions, WriteOutcome(CallOutcome(c))
    PROVE  shop' \in Shops
BY DEF Shops, WriteOutcome, CallOutcome

\* One worker's job changes, the row stays.
LEMMA JobMoves ==
    ASSUME WorkersOK, NEW w \in Workers, NEW j \in Jobs,
           job' = [job EXCEPT ![w] = j], fetch' = fetch,
           shop' \in Shops, reported' \subseteq Recorded, reported \subseteq reported',
           \/ j = NoJob
           \/ /\ job[w].at # "idle" /\ j.c = job[w].c /\ j.n = job[w].n
              /\ j.at = "settled" => j.c \in reported'
    PROVE  WorkersOK'
<1>1. fetch' \in Rows /\ FetchOK'
  BY DEF WorkersOK, FetchOK
<1>2. job' \in [Workers -> Jobs]
  BY DEF WorkersOK
<1>3. ASSUME NEW k \in Workers PROVE JobOK(k)'
  <2>1. JobOK(k)
    BY DEF WorkersOK
  <2>2. CASE k = w
    <3>1. job'[k] = j
      BY <2>2 DEF WorkersOK
    <3> QED BY <2>1, <2>2, <3>1 DEF JobOK, NoJob
  <2>3. CASE k # w
    <3>1. job'[k] = job[k]
      BY <2>3 DEF WorkersOK
    <3> QED BY <2>1, <3>1 DEF JobOK
  <2> QED BY <2>2, <2>3
<1> QED BY <1>1, <1>2, <1>3 DEF WorkersOK

\* The row moves on under the worker that holds it; the others' jobs are still
\* about it, and none of them holds it.
LEMMA RowMoves ==
    ASSUME WorkersOK, NEW w \in Workers, NEW j \in Jobs, NEW f \in Rows,
           job' = [job EXCEPT ![w] = j], fetch' = f, UNCHANGED <<shop, reported>>,
           fetch.status # "absent", f.status # "absent", f.c = fetch.c,
           f.token \in {w, None},
           f.status = "DELIVERED" => f.c \in reported,
           j.at # "idle" => j.c = f.c,
           j.at # "idle" /\ f.token = w => j.n = f.n,
           j.at = "settled" => j.c \in reported
    PROVE  WorkersOK'
<1>1. FetchOK'
  BY DEF WorkersOK, FetchOK
<1>2. job' \in [Workers -> Jobs]
  BY DEF WorkersOK
<1>3. ASSUME NEW k \in Workers PROVE JobOK(k)'
  <2>1. JobOK(k)
    BY DEF WorkersOK
  <2>2. CASE k = w
    <3>1. job'[k] = j
      BY <2>2 DEF WorkersOK
    <3> QED BY <2>2, <3>1 DEF JobOK
  <2>3. CASE k # w
    <3>1. job'[k] = job[k]
      BY <2>3 DEF WorkersOK
    <3>2. f.token # k
      BY <2>3 DEF CallAssumption
    <3> QED BY <2>1, <3>1, <3>2 DEF JobOK
  <2> QED BY <2>2, <2>3
<1> QED BY <1>1, <1>2, <1>3 DEF WorkersOK

LEMMA NoJobType == NoJob \in Jobs /\ NoJob.at = "idle"
BY DEF NoJob, Jobs, CallAssumption

\* A worker's step keeps the row and the jobs in order.
LEMMA WorkStep ==
    ASSUME WorkersOK, NEW w \in Workers, Work(w)
    PROVE  WorkersOK'
<1>1. job[w] \in Jobs /\ JobOK(w) /\ fetch \in Rows /\ FetchOK
      /\ shop \in Shops /\ reported \subseteq Recorded
  BY DEF WorkersOK
<1>2. CASE ClaimFetch(w)
  <2> DEFINE j == [at |-> "claimed", c |-> fetch.c, n |-> fetch.n]
             f == [fetch EXCEPT !.status = "PROCESSING", !.token = w, !.ripe = FALSE]
  <2>1. j \in Jobs /\ j.at = "claimed" /\ j.c = fetch.c /\ j.n = fetch.n
    BY <1>1 DEF Jobs, Rows
  <2>2. f \in Rows /\ f.status = "PROCESSING" /\ f.token = w /\ f.c = fetch.c /\ f.n = fetch.n
    BY <1>1 DEF Rows
  <2>3. job' = [job EXCEPT ![w] = j] /\ fetch' = f /\ fetch.status # "absent"
        /\ UNCHANGED <<shop, reported>>
    BY <1>2 DEF ClaimFetch
  <2> HIDE DEF j, f
  <2> QED BY <2>1, <2>2, <2>3, RowMoves
<1>3. CASE FetchRecording(w)
  <2>1. PICK at \in {"fetched", "failing"} : job' = [job EXCEPT ![w].at = at]
    BY <1>3 DEF FetchRecording
  <2> DEFINE j == [job[w] EXCEPT !.at = at]
  <2>2. j \in Jobs /\ j.at = at /\ j.c = job[w].c /\ j.n = job[w].n
    BY <1>1 DEF Jobs
  <2>3. job' = [job EXCEPT ![w] = j] /\ job[w].at # "idle" /\ UNCHANGED <<fetch, shop, reported>>
    BY <1>3, <2>1 DEF FetchRecording
  <2> HIDE DEF j
  <2> QED BY <1>1, <2>2, <2>3, JobMoves
<1>4. CASE ReportRecording(w)
  <2>1. job[w].at = "fetched" /\ UNCHANGED <<fetch, reported>>
    BY <1>4 DEF ReportRecording
  <2>2. job[w].c \in Completions
    BY <1>1, <2>1 DEF JobOK, FetchOK, CallAssumption
  <2>3. PICK at \in {"stamping", "failing"} :
            /\ job' = [job EXCEPT ![w].at = at]
            /\ WriteOutcome(CallOutcome(job[w].c)) \/ UNCHANGED shop
    BY <1>4 DEF ReportRecording
  <2> DEFINE j == [job[w] EXCEPT !.at = at]
  <2>4. j \in Jobs /\ j.at = at /\ j.c = job[w].c /\ j.n = job[w].n
    BY <1>1 DEF Jobs
  <2>5. job' = [job EXCEPT ![w] = j]
    BY <2>3
  <2> HIDE DEF j
  <2>6. shop' \in Shops
    BY <1>1, <2>2, <2>3, ReportType
  <2> QED BY <1>1, <2>1, <2>4, <2>5, <2>6, JobMoves
<1>8. CASE ReportStamp(w)
  <2>1. job[w].at = "stamping" /\ fetch' = fetch
    BY <1>8 DEF ReportStamp
  <2>2. job[w].c \in Recorded /\ job[w].c \in Completions
    BY <1>1, <2>1 DEF JobOK, FetchOK, CallAssumption
  <2>3. PICK at \in {"settled", "failing"} :
            /\ job' = [job EXCEPT ![w].at = at]
            /\ \/ WriteOutcome(CallOutcome(job[w].c)) /\ reported' = reported \cup {job[w].c}
               \/ at = "failing" /\ UNCHANGED <<shop, reported>>
    BY <1>8 DEF ReportStamp
  <2> DEFINE j == [job[w] EXCEPT !.at = at]
  <2>4. j \in Jobs /\ j.at = at /\ j.c = job[w].c /\ j.n = job[w].n
    BY <1>1 DEF Jobs
  <2>5. job' = [job EXCEPT ![w] = j]
    BY <2>3
  <2> HIDE DEF j
  <2>6. /\ shop' \in Shops /\ reported' \subseteq Recorded /\ reported \subseteq reported'
        /\ at = "settled" => job[w].c \in reported'
    BY <1>1, <2>2, <2>3, ReportType
  <2> QED BY <2>1, <2>4, <2>5, <2>6, JobMoves
<1>5. CASE Mark(w)
  <2>1. job' = [job EXCEPT ![w] = NoJob] /\ UNCHANGED <<shop, reported>>
        /\ job[w].at \in {"settled", "failing"}
    BY <1>5 DEF Mark
  <2>2. job[w].c = fetch.c /\ fetch.status # "absent" /\ (Holds(w) => job[w].n = fetch.n)
    BY <1>1, <2>1 DEF JobOK, Holds
  <2>3. CASE UNCHANGED fetch
    BY <1>1, <2>1, <2>3, NoJobType, JobMoves
  <2>4. CASE Holds(w) /\ job[w].at = "settled" /\ fetch' = [fetch EXCEPT !.status = "DELIVERED"]
    <3> DEFINE f == [fetch EXCEPT !.status = "DELIVERED"]
    <3>1. f \in Rows /\ f.status = "DELIVERED" /\ f.c = fetch.c /\ f.token = w
      BY <1>1, <2>4 DEF Rows, Final, Holds
    <3>2. f.c \in reported
      BY <1>1, <2>2, <2>4, <3>1 DEF JobOK
    <3>3. fetch' = f
      BY <2>4
    <3> HIDE DEF f
    <3> QED BY <2>1, <2>2, <3>1, <3>2, <3>3, NoJobType, RowMoves
  <2>5. CASE Holds(w) /\ fetch' = [fetch EXCEPT !.status = "DEAD_LETTER"]
    <3> DEFINE f == [fetch EXCEPT !.status = "DEAD_LETTER"]
    <3>1. f \in Rows /\ f.status = "DEAD_LETTER" /\ f.c = fetch.c /\ f.token = w
      BY <1>1, <2>5 DEF Rows, Final, Holds
    <3>2. fetch' = f
      BY <2>5
    <3> HIDE DEF f
    <3> QED BY <2>1, <2>2, <3>1, <3>2, NoJobType, RowMoves
  <2>6. CASE /\ Holds(w) /\ ~LastAttempt(w)
             /\ fetch' = [fetch EXCEPT !.status = "PENDING", !.n = @ + 1, !.token = None,
                                       !.ripe = FALSE]
    <3> DEFINE f == [fetch EXCEPT !.status = "PENDING", !.n = @ + 1, !.token = None,
                                  !.ripe = FALSE]
    <3>1. fetch.n + 1 \in 0..(MaxAttempts - 1)
      BY <1>1, <2>2, <2>6 DEF Rows, LastAttempt, CallAssumption
    <3>2. f \in Rows /\ f.status = "PENDING" /\ f.c = fetch.c /\ f.token = None
      BY <1>1, <3>1 DEF Rows
    <3>3. fetch' = f
      BY <2>6
    <3> HIDE DEF f
    <3> QED BY <2>1, <2>2, <3>2, <3>3, NoJobType, RowMoves
  <2> QED BY <1>5, <2>3, <2>4, <2>5, <2>6 DEF Mark
<1>6. CASE MarkRaises(w)
  <2>1. job[w].at = "settled" /\ job' = [job EXCEPT ![w].at = "failing"]
        /\ UNCHANGED <<shop, reported>>
    BY <1>6 DEF MarkRaises
  <2> DEFINE j == [job[w] EXCEPT !.at = "failing"]
  <2>2. j \in Jobs /\ j.at = "failing" /\ j.c = job[w].c /\ j.n = job[w].n
    BY <1>1 DEF Jobs
  <2>3. job' = [job EXCEPT ![w] = j]
    BY <2>1
  <2>4. job[w].c = fetch.c /\ fetch.status # "absent" /\ (Holds(w) => job[w].n = fetch.n)
        /\ job[w].c \in reported
    BY <1>1, <2>1 DEF JobOK, Holds
  <2> HIDE DEF j
  <2>5. CASE UNCHANGED fetch
    BY <1>1, <2>1, <2>2, <2>3, <2>5, JobMoves
  <2>6. CASE Holds(w) /\ fetch' = [fetch EXCEPT !.status = "DELIVERED"]
    <3> DEFINE f == [fetch EXCEPT !.status = "DELIVERED"]
    <3>1. f \in Rows /\ f.status = "DELIVERED" /\ f.c = fetch.c /\ f.token = w /\ f.n = fetch.n
      BY <1>1, <2>6 DEF Rows, Final, Holds
    <3>2. fetch' = f
      BY <2>6
    <3>3. j.c = f.c /\ j.n = f.n /\ f.c \in reported
      BY <2>2, <2>4, <2>6, <3>1
    <3> HIDE DEF f
    <3> QED BY <2>1, <2>2, <2>3, <2>4, <3>1, <3>2, <3>3, RowMoves
  <2> QED BY <1>6, <2>5, <2>6 DEF MarkRaises
<1>7. CASE Drop(w)
  BY <1>1, <1>7, NoJobType, JobMoves DEF Drop
<1> QED BY <1>2, <1>3, <1>4, <1>5, <1>6, <1>7, <1>8 DEF Work

LEMMA WorkersUnchanged ==
    ASSUME WorkersOK, UNCHANGED <<fetch, job, shop, reported>>
    PROVE  WorkersOK'
BY DEF WorkersOK, FetchOK, JobOK

LEMMA RecordingStep ==
    ASSUME IInv, [Next]_vars
    PROVE  WorkersOK'
<1>1. WorkersOK /\ RequestsOK
  BY DEF IInv
<1>2. ASSUME NEW h \in Handlers, PatchCompleted(h) \/ PatchStamp(h)
      PROVE  WorkersOK'
  <2>1. req[h].c \in Completions /\ UNCHANGED <<fetch, job, reported>>
    BY <1>1, <1>2 DEF PatchCompleted, PatchStamp, RequestsOK, RequestOK
  <2>2. WriteOutcome(CallOutcome(req[h].c)) \/ UNCHANGED shop
    BY <1>2 DEF PatchCompleted, PatchStamp
  <2>3. shop' \in Shops
    BY <1>1, <2>1, <2>2, ReportType DEF WorkersOK
  <2> QED BY <1>1, <2>1, <2>3 DEF WorkersOK, FetchOK, JobOK
<1>3. ASSUME NEW h \in Handlers, EnqueueFetch(h)
      PROVE  WorkersOK'
  <2>1. UNCHANGED <<job, shop, reported>>
    BY <1>3 DEF EnqueueFetch
  <2>2. CASE req[h].c \in Recorded /\ fetch.status = "absent"
    <3>1. fetch' = [NoFetch EXCEPT !.c = req[h].c, !.status = "PENDING"]
      BY <1>3, <2>2 DEF EnqueueFetch
    <3> QED BY <1>1, <2>1, <2>2, <3>1, RowAppears
  <2>3. CASE ~(req[h].c \in Recorded /\ fetch.status = "absent")
    BY <1>1, <1>3, <2>1, <2>3, WorkersUnchanged DEF EnqueueFetch
  <2> QED BY <2>2, <2>3
<1>4. ASSUME NEW h \in Handlers,
             Transition(h) \/ ClaimResult(h) \/ EnqueueResult(h) \/ Raise(h)
      PROVE  WorkersOK'
  BY <1>1, <1>4, WorkersUnchanged DEF Transition, ClaimResult, EnqueueResult, Raise
<1>5. ASSUME NEW h \in Handlers, NEW c \in Completions, Deliver(h, c)
      PROVE  WorkersOK'
  BY <1>1, <1>5, WorkersUnchanged DEF Deliver
<1>6. ASSUME NEW w \in Workers, Work(w)
      PROVE  WorkersOK'
  BY <1>1, <1>6, WorkStep
<1>7. CASE Ripen
  <2> DEFINE f == [fetch EXCEPT !.ripe = TRUE]
  <2>1. f \in Rows /\ f.status = fetch.status /\ f.c = fetch.c /\ f.token = fetch.token
        /\ f.n = fetch.n
    BY <1>1 DEF WorkersOK, Rows
  <2>2. fetch' = f /\ UNCHANGED <<job, shop, reported>>
    BY <1>7 DEF Ripen
  <2> HIDE DEF f
  <2> QED BY <1>1, <2>1, <2>2 DEF WorkersOK, FetchOK, JobOK
<1>8. CASE UNCHANGED vars
  BY <1>1, <1>8, WorkersUnchanged DEF vars
<1> QED BY <1>2, <1>3, <1>4, <1>5, <1>6, <1>7, <1>8 DEF Next, Serve

-----------------------------------------------------------------------------
LEMMA InitIInv == Init => IInv
<1> SUFFICES ASSUME Init PROVE IInv
  OBVIOUS
<1>1. RecordTypeOK
  BY DEF Init, RecordInit, RecordTypeOK, States, Terminal
<1>2. RequestsOK
  <2>1. ASSUME NEW h \in Handlers PROVE req[h] = Free
    BY DEF Init
  <2> QED BY <2>1, FreeType DEF Init, RequestsOK, RequestOK
<1>3. WorkersOK
  <2>1. fetch \in Rows /\ FetchOK
    BY DEF Init, NoFetch, Rows, FetchOK, CallAssumption
  <2>2. ASSUME NEW w \in Workers PROVE job[w] = NoJob
    BY DEF Init
  <2>3. \A w \in Workers : JobOK(w)
    BY <2>2, NoJobType DEF JobOK, NoJob
  <2> QED BY <2>1, <2>3, NoJobType DEF Init, WorkersOK, Shops
<1> QED BY <1>1, <1>2, <1>3 DEF IInv

LEMMA Invariance == Spec => []IInv
<1>1. IInv /\ [Next]_vars => IInv'
  BY RequestStep, RecordingStep DEF IInv
<1> QED BY <1>1, InitIInv, PTL DEF Spec

\* Every variable of a call keeps its type, whatever the requests, the workers
\* and ShopDeck do (sarvam_webhooks.py, recording_fetch_worker.py).
THEOREM TypeCorrect == Spec => []TypeOK
<1>1. IInv => TypeOK
  BY DEF IInv, RequestsOK, WorkersOK, TypeOK, Requests, Rows, Jobs, Shops
<1> QED BY <1>1, Invariance, PTL

\* A row of recording_fetch_queue that is marked DELIVERED was reported, and
\* ShopDeck has carried out both statements of the report, however many workers
\* had the row claimed.
THEOREM DeliveredReportedCorrect == Spec => []DeliveredWasReported
<1>1. IInv => DeliveredWasReported
  BY DEF IInv, WorkersOK, FetchOK, DeliveredWasReported
<1> QED BY <1>1, Invariance, PTL

\* A completion webhook that was answered 200 with a decided outcome has a
\* result for its diagnosis in the outbox, for any number of deliveries.
THEOREM AckedCompletionCorrect == Spec => []AckedCompletionIsEnqueued
<1>1. ASSUME IInv, NEW h \in Handlers
      PROVE  req[h].code = "200" /\ OutcomeOf[req[h].c] # None
                => DiagnosisOf[OutcomeOf[req[h].c]] \in Enqueued
  BY <1>1 DEF IInv, RequestsOK, RequestOK
<1>2. IInv => AckedCompletionIsEnqueued
  BY <1>1 DEF AckedCompletionIsEnqueued
<1> QED BY <1>2, Invariance, PTL

\* One step of OutcomeIsKept.
OutcomeKept ==
    shop.outcome # None /\ shop'.outcome = None
      => \/ \E h \in Handlers : req'[h] # req[h] /\ req[h].c \in Silent
         \/ \E w \in Workers : job'[w] # job[w] /\ job[w].c \in Silent

\* Only a report of a completion that has no status takes away the outcome that
\* ShopDeck has, for any number of completions, requests and workers.
THEOREM OutcomeKeptCorrect == Spec => OutcomeIsKept
<1>1. ASSUME IInv, Next PROVE OutcomeKept
  <2>1. ASSUME NEW c \in Completions \ Silent, WriteOutcome(CallOutcome(c))
        PROVE  OutcomeKept
    <3>1. CallOutcome(c) # None
      BY DEF CallOutcome, CallAssumption
    <3>2. shop \in Shops
      BY <1>1 DEF IInv, WorkersOK
    <3> QED BY <2>1, <3>1, <3>2 DEF WriteOutcome, OutcomeKept, Shops
  <2>2. CASE UNCHANGED shop
    BY <2>2 DEF OutcomeKept
  <2>3. ASSUME NEW h \in Handlers, PatchCompleted(h) \/ PatchStamp(h)
        PROVE  OutcomeKept
    <3>1. req[h].c \in Completions
      BY <1>1, <2>3 DEF IInv, RequestsOK, RequestOK, PatchCompleted, PatchStamp
    <3>2. req'[h] # req[h]
      BY <1>1, <2>3 DEF IInv, RequestsOK, Requests, PatchCompleted, PatchStamp, Goto
    <3>3. WriteOutcome(CallOutcome(req[h].c)) \/ UNCHANGED shop
      BY <2>3 DEF PatchCompleted, PatchStamp
    <3>4. CASE req[h].c \in Silent
      BY <3>2, <3>4 DEF OutcomeKept
    <3>5. CASE req[h].c \notin Silent
      BY <2>1, <2>2, <3>1, <3>3, <3>5
    <3> QED BY <3>4, <3>5
  <2>4. ASSUME NEW w \in Workers, ReportRecording(w) \/ ReportStamp(w)
        PROVE  OutcomeKept
    <3>1. job[w].c \in Completions
      BY <1>1, <2>4 DEF IInv, WorkersOK, JobOK, FetchOK, ReportRecording, ReportStamp,
                        CallAssumption
    <3>2. job'[w] # job[w]
      BY <1>1, <2>4 DEF IInv, WorkersOK, Jobs, ReportRecording, ReportStamp
    <3>3. WriteOutcome(CallOutcome(job[w].c)) \/ UNCHANGED shop
      BY <2>4 DEF ReportRecording, ReportStamp
    <3>4. CASE job[w].c \in Silent
      BY <3>2, <3>4 DEF OutcomeKept
    <3>5. CASE job[w].c \notin Silent
      BY <2>1, <2>2, <3>1, <3>3, <3>5
    <3> QED BY <3>4, <3>5
  <2>5. ASSUME NEW h \in Handlers,
               EnqueueFetch(h) \/ Transition(h) \/ ClaimResult(h) \/ EnqueueResult(h) \/ Raise(h)
        PROVE  OutcomeKept
    BY <2>2, <2>5 DEF EnqueueFetch, Transition, ClaimResult, EnqueueResult, Raise
  <2>6. ASSUME NEW h \in Handlers, NEW c \in Completions, Deliver(h, c)
        PROVE  OutcomeKept
    BY <2>2, <2>6 DEF Deliver
  <2>7. ASSUME NEW w \in Workers,
               ClaimFetch(w) \/ FetchRecording(w) \/ Mark(w) \/ MarkRaises(w) \/ Drop(w)
        PROVE  OutcomeKept
    BY <2>2, <2>7 DEF ClaimFetch, FetchRecording, Mark, MarkRaises, Drop
  <2>8. CASE Ripen
    BY <2>2, <2>8 DEF Ripen
  <2> QED BY <1>1, <2>3, <2>4, <2>5, <2>6, <2>7, <2>8 DEF Next, Serve, Work
<1>2. IInv /\ [Next]_vars => [OutcomeKept]_vars
  BY <1>1
<1>3. OutcomeIsKept <=> [][OutcomeKept]_vars
  BY DEF OutcomeIsKept, OutcomeKept
<1> QED BY <1>2, <1>3, Invariance, PTL DEF Spec
=============================================================================
