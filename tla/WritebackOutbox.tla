--------------------------- MODULE WritebackOutbox ---------------------------
(***************************************************************************)
(* The Brain's outbox of intelligence results: the MongoDB collection      *)
(* outbound_writeback_queue, the OutboundWritebackWorker tasks that drain  *)
(* it (one per process; a restart overlaps with its predecessor), and the  *)
(* POST to ShopDeck, which is lost, late or answered.                      *)
(*                                                                         *)
(* ShopDeck keeps one result per engagement, whichever came first.         *)
(* Results are identified by their result_id; the payload of a row never   *)
(* changes, so a result that is stored was stored with its row's content.  *)
(***************************************************************************)
EXTENDS Naturals, FiniteSets

CONSTANTS
    Results,       \* result ids: uuid5(engagement_id : diagnosis)
    Engagements,
    EngOf,         \* the engagement a result is about
    Workers,       \* worker tasks; a worker's claim_token is the worker itself,
                   \* for it never acts on a claim it made before its last one
    MaxAttempts,   \* MAX_DELIVERY_ATTEMPTS
    None

ASSUME OutboxAssumption ==
    /\ EngOf \in [Results -> Engagements]
    /\ MaxAttempts \in Nat \ {0}
    /\ None \notin Workers \cup Results

VARIABLES
    row,       \* status of the row of a result, "absent" before it is enqueued
    attempts,  \* its attempt_count
    token,     \* its claim_token
    ripe,      \* PENDING: next_attempt_at is past; PROCESSING: the lease is past
    job,       \* what process_next of a worker is doing
    alive,     \* whether the task runs
    stored,    \* results ShopDeck has stored
    late       \* requests under way that nobody waits for any more

rowVars == <<row, attempts, token, ripe>>
shopVars == <<stored, late>>
vars == <<rowVars, job, alive, shopVars>>

Final == {"DELIVERED", "DEAD_LETTER"}
NoJob == [at |-> "idle", r |-> None, n |-> 0, code |-> "none"]

Jobs == [at : {"idle", "claimed", "posted", "answered", "failing"},
         r : Results \cup {None}, n : 0..(MaxAttempts - 1),
         code : {"none", "ok", "has_result", "reject", "transient"}]

TypeOK ==
    /\ row \in [Results -> {"absent", "PENDING", "PROCESSING"} \cup Final]
    /\ attempts \in [Results -> 0..(MaxAttempts - 1)]
    /\ token \in [Results -> Workers \cup {None}]
    /\ ripe \in [Results -> BOOLEAN]
    /\ job \in [Workers -> Jobs]
    /\ alive \in [Workers -> {"up", "stopped", "crashed"}]
    /\ stored \subseteq Results /\ late \subseteq Results

Init ==
    /\ row = [r \in Results |-> "absent"]
    /\ attempts = [r \in Results |-> 0]
    /\ token = [r \in Results |-> None]
    /\ ripe = [r \in Results |-> TRUE]
    /\ job = [w \in Workers |-> NoJob]
    /\ alive = [w \in Workers |-> "up"]
    /\ stored = {} /\ late = {}

-----------------------------------------------------------------------------
(* The queue.                                                                *)

\* result_id is unique: a second enqueue finds its row and changes nothing.
Enqueue(r) ==
    /\ row[r] = "absent"
    /\ row' = [row EXCEPT ![r] = "PENDING"]
    /\ UNCHANGED <<attempts, token, ripe, job, alive, shopVars>>

\* Time passes: a backoff ends, or a lease runs out under its holder.
Ripen(r) ==
    /\ ~ripe[r]
    /\ ripe' = [ripe EXCEPT ![r] = TRUE]
    /\ UNCHANGED <<row, attempts, token, job, alive, shopVars>>

\* Faulty: forgets the rows whose worker died.
Claimable_PendingOnly(r) == row[r] = "PENDING" /\ ripe[r]

\* Faulty: the lease of a row is looked at whatever its status.
Claimable_AnyLease(r) == row[r] # "absent" /\ ripe[r]

Claimable(r) == row[r] \in {"PENDING", "PROCESSING"} /\ ripe[r]

\* One find_one_and_update.  The attempt count is read here and used later.
Claim(w, r) ==
    /\ alive[w] = "up" /\ job[w].at = "idle"
    /\ Claimable(r)
    /\ row' = [row EXCEPT ![r] = "PROCESSING"]
    /\ token' = [token EXCEPT ![r] = w]
    /\ ripe' = [ripe EXCEPT ![r] = FALSE]
    /\ job' = [job EXCEPT ![w] = [at |-> "claimed", r |-> r, n |-> attempts[r],
                                  code |-> "none"]]
    /\ UNCHANGED <<attempts, alive, shopVars>>

-----------------------------------------------------------------------------
(* The POST to ShopDeck.                                                     *)

Answered(e) == \E s \in stored : EngOf[s] = e

Post(w) ==
    /\ job[w].at = "claimed"
    /\ job' = [job EXCEPT ![w].at = "posted"]
    /\ UNCHANGED <<rowVars, alive, shopVars>>

Reply(w, code) == job' = [job EXCEPT ![w].at = "answered", ![w].code = code]

\* 200 duplicate, 409 engagement_already_has_result, 201 -- or a failure: 401, 403
\* and other 4xx (a rejection), 5xx or 429; a 5xx may follow the INSERT.
Serve(w) ==
    LET r == job[w].r IN
    /\ job[w].at = "posted"
    /\ \/ r \in stored /\ Reply(w, "ok") /\ UNCHANGED stored
       \/ r \notin stored /\ Answered(EngOf[r]) /\ Reply(w, "has_result")
          /\ UNCHANGED stored
       \/ ~Answered(EngOf[r]) /\ stored' = stored \cup {r}
          /\ \E code \in {"ok", "transient"} : Reply(w, code)
       \/ \E code \in {"reject", "transient"} : Reply(w, code) /\ UNCHANGED stored
    /\ UNCHANGED <<rowVars, alive, late>>

\* httpx gives up; the request itself may still be under way.
Timeout(w) ==
    /\ job[w].at = "posted"
    /\ job' = [job EXCEPT ![w].at = "answered", ![w].code = "transient"]
    /\ late' = late \cup {job[w].r}
    /\ UNCHANGED <<rowVars, alive, stored>>

\* Served without a reader, or lost.
LateArrival(r) ==
    /\ r \in late
    /\ late' = late \ {r}
    /\ \/ ~Answered(EngOf[r]) /\ stored' = stored \cup {r}
       \/ UNCHANGED stored
    /\ UNCHANGED <<rowVars, job, alive>>

-----------------------------------------------------------------------------
(* What the answer does to the row.                                          *)

\* The filter of every mark_*: the claim token, and not the status.
Holds(w) == token[job[w].r] = w

\* Faulty: any answer below 500 settles the row.
Settled_AnyAnswer(w) == job[w].at = "answered" /\ job[w].code # "transient"

\* 2xx, or a 409 that names engagement_already_has_result.
Settled(w) == job[w].at = "answered" /\ job[w].code \in {"ok", "has_result"}

MarkSuccess(w) ==
    /\ Settled(w)
    /\ row' = [row EXCEPT ![job[w].r] = IF Holds(w) THEN "DELIVERED" ELSE @]
    /\ job' = [job EXCEPT ![w] = NoJob]
    /\ UNCHANGED <<attempts, token, ripe, alive, shopVars>>

\* The update raises although it may have been applied.  After a 2xx the
\* exception is caught and handled as a transient failure.
MarkSuccessRaises(w) ==
    /\ Settled(w) /\ job[w].code = "ok"
    /\ \/ row' = [row EXCEPT ![job[w].r] = IF Holds(w) THEN "DELIVERED" ELSE @]
       \/ UNCHANGED row
    /\ job' = [job EXCEPT ![w].at = "failing"]
    /\ UNCHANGED <<attempts, token, ripe, alive, shopVars>>

\* Everywhere else the exception ends process_next; the row is left as it is.
MarkRaises(w) ==
    /\ job[w].at \in {"answered", "failing"}
    /\ job[w].code = "ok" => job[w].at = "failing"
    /\ job' = [job EXCEPT ![w] = NoJob]
    /\ UNCHANGED <<rowVars, alive, shopVars>>

MarkDeadLetter(w) ==
    /\ job[w].at = "answered" /\ job[w].code = "reject"
    /\ row' = [row EXCEPT ![job[w].r] = IF Holds(w) THEN "DEAD_LETTER" ELSE @]
    /\ job' = [job EXCEPT ![w] = NoJob]
    /\ UNCHANGED <<attempts, token, ripe, alive, shopVars>>

LastAttempt(w) == job[w].n + 1 >= MaxAttempts

\* Another attempt after a backoff, or the dead letter after the last one.
HandleTransient(w) ==
    LET r == job[w].r IN
    /\ \/ job[w].at = "answered" /\ job[w].code = "transient"
       \/ job[w].at = "failing"
    /\ \/ ~Holds(w) /\ UNCHANGED rowVars
       \/ /\ Holds(w) /\ LastAttempt(w)
          /\ row' = [row EXCEPT ![r] = "DEAD_LETTER"]
          /\ UNCHANGED <<attempts, token, ripe>>
       \/ /\ Holds(w) /\ ~LastAttempt(w)
          /\ row' = [row EXCEPT ![r] = "PENDING"]
          /\ attempts' = [attempts EXCEPT ![r] = @ + 1]
          /\ token' = [token EXCEPT ![r] = None]
          /\ ripe' = [ripe EXCEPT ![r] = FALSE]
    /\ job' = [job EXCEPT ![w] = NoJob]
    /\ UNCHANGED <<alive, shopVars>>

-----------------------------------------------------------------------------
(* Worker tasks end and start.                                               *)

\* stop() cancels the task at whatever it awaits; CancelledError passes the
\* handlers of process_next.  A crash does the same without asking.
Halt(w, how) ==
    /\ alive[w] = "up"
    /\ alive' = [alive EXCEPT ![w] = how]
    /\ late' = IF job[w].at = "posted" THEN late \cup {job[w].r} ELSE late
    /\ job' = [job EXCEPT ![w] = NoJob]
    /\ UNCHANGED <<rowVars, stored>>

Start(w) ==
    /\ alive[w] # "up"
    /\ alive' = [alive EXCEPT ![w] = "up"]
    /\ UNCHANGED <<rowVars, job, shopVars>>

Mark(w) == MarkSuccess(w) \/ MarkDeadLetter(w) \/ HandleTransient(w)

Work(w) ==
    \/ Post(w) \/ Serve(w) \/ Timeout(w)
    \/ Mark(w) \/ MarkSuccessRaises(w) \/ MarkRaises(w)

Next ==
    \/ \E r \in Results : Enqueue(r) \/ Ripen(r) \/ LateArrival(r)
    \/ \E w \in Workers : \/ Work(w) \/ Start(w)
                          \/ \E r \in Results : Claim(w, r)
                          \/ \E how \in {"stopped", "crashed"} : Halt(w, how)

Spec == Init /\ [][Next]_vars

\* The loop polls for ever: a row that is due again and again is claimed, for
\* claims come in next_attempt_at order and a retried row goes to the back.  A
\* task is restarted.  A claim takes seconds and its lease 300 of them: not every
\* claim is overtaken by the lease, a crash or a MongoDB error at the same point.
FairSpec ==
    /\ Spec
    /\ \A r \in Results : WF_vars(Ripen(r)) /\ SF_vars(\E w \in Workers : Claim(w, r))
    /\ \A w \in Workers : /\ WF_vars(Start(w))
                          /\ SF_vars(Post(w) /\ Holds(w))
                          /\ SF_vars((Serve(w) \/ Timeout(w)) /\ Holds(w))
                          /\ SF_vars(Mark(w) /\ Holds(w))

-----------------------------------------------------------------------------
(* Properties.                                                               *)

\* A DELIVERED row is one ShopDeck has an answer for, through every lost,
\* late and repeated request: no timeout or rejection is taken for a success.
DeliveredIsAnswered == \A r \in Results : row[r] = "DELIVERED" => Answered(EngOf[r])

\* The count a worker read when it claimed is still the count of the row when the
\* worker acts on it: however often a row changes hands, the attempts of those who
\* lost it are not counted, and the limit is compared with a current number.
HeldCountIsCurrent ==
    \A r \in Results, w \in Workers :
        job[w].r = r /\ token[r] = w => job[w].n = attempts[r]

\* Its worker does not know yet whether the update that delivered it was applied.
Unconfirmed(r) == \E w \in Workers : job[w].r = r /\ job[w].at = "failing" /\ token[r] = w

\* A final row is out of the reach of every worker but the one that closed it:
\* DEAD_LETTER stays, and DELIVERED is only taken back by its own worker, when
\* the update that wrote it raised.
FinalRowsAreFenced ==
    [][\A r \in Results :
        /\ row[r] = "DEAD_LETTER" => row'[r] = "DEAD_LETTER"
        /\ row[r] = "DELIVERED" /\ row'[r] # "DELIVERED"
              => Unconfirmed(r)]_vars

Outcome(r) ==
    CASE row[r] = "absent"      -> "none"
      [] row[r] = "DEAD_LETTER" -> "dead"
      [] row[r] = "DELIVERED" /\ ~Unconfirmed(r) -> "delivered"
      [] OTHER                  -> "open"

Promise == INSTANCE DeliveryPromise
              WITH outcome <- [r \in Results |-> Outcome(r)],
                   answered <- {EngOf[r] : r \in stored}

\* What is accepted is never lost, reopened or delivered without an answer ...
KeepsPromise == Promise!SafeSpec

\* ... and it is settled in the end, through crashes, lost leases, timeouts and
\* retries.
KeepsPromiseInTime == Promise!Spec
=============================================================================
