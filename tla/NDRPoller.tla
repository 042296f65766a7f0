------------------------------ MODULE NDRPoller ------------------------------
(***************************************************************************)
(* The consumer of the NDR queue in the Brain (workers/ndr_queue_poller.py) *)
(* composed with the queue it consumes, ShopDeckQueue.  Every request of a  *)
(* task is a request of ShopDeckQueue, statement by statement; a task that   *)
(* stops waiting leaves its request running.                                *)
(*                                                                         *)
(* One loop claims items; each claimed item is worked on by a task of its   *)
(* own, which holds a slot until its call is over.                          *)
(***************************************************************************)
EXTENDS Naturals, FiniteSets

CONSTANTS
    Items, Shipment, AttemptSeq, Engagements, ItemOf, Results, EngOf, Contents,
    MaxClaims, MaxRetries, None,
    EngagementId,   \* uuid5 of the queue_item_id: one engagement for all attempts
    Tasks,          \* names for tasks; a task's requests go under its name
    Others,         \* requests of the webhooks and of ShopDeck's sync job
    Slots,          \* max_concurrent_calls
    CourierSays     \* what shipment_ndr_reports comes to say of an item

ASSUME PollerAssumption ==
    /\ EngagementId \in [Items -> Engagements]
    /\ \A i \in Items : ItemOf[EngagementId[i]] = i
    /\ Tasks \cap Others = {}
    /\ IsFiniteSet(Tasks) /\ Slots \in 1..Cardinality(Tasks)
    /\ CourierSays \subseteq {"pending", "other", "terminal"}
    /\ None \notin Items

VARIABLES
    rows, status, lease, claims, retries, engs, callSid, completed, blanked, intel, req,
    hours,    \* it is within calling hours
    loop,     \* where _poll_loop is
    held,     \* the item in the answer to its claim
    free,     \* the value of the semaphore
    task,     \* what each task does, and on which item
    over,     \* the engagement in MongoDB is in a final state
    calls     \* physical calls placed for an item

Queue == INSTANCE ShopDeckQueue WITH Handlers <- Tasks \cup Others

ASSUME QueueAssumption == Queue!ConstantsAssumption

pollVars == <<hours, loop, held, free, task, over, calls>>
shopVars == <<rows, status, lease, claims, retries, engs, callSid, completed, blanked, intel, req>>
vars == <<shopVars, pollVars>>

Idle == [at |-> "idle", item |-> None]

Places == {"idle", "prepare", "register", "registering", "patch", "dispatch",
           "correlate", "report", "reporting", "fail", "wait"}

TypeOK ==
    /\ hours \in BOOLEAN
    /\ loop \in {"gate", "slot", "claim", "answer", "stopped"}
    /\ held \in Items \cup {None}
    /\ free \in 0..Slots
    /\ task \in [Tasks -> [at : Places, item : Items \cup {None}]]
    /\ over \in [Items -> BOOLEAN]
    /\ calls \in [Items -> Nat]

Init ==
    /\ Queue!Init
    /\ hours \in BOOLEAN
    /\ loop = "gate" /\ held = None /\ free = Slots
    /\ task = [t \in Tasks |-> Idle]
    /\ over = [i \in Items |-> FALSE]
    /\ calls = [i \in Items |-> 0]

-----------------------------------------------------------------------------
(* _poll_loop.                                                               *)

Gate ==
    /\ loop = "gate" /\ hours
    /\ loop' = "slot"
    /\ UNCHANGED <<shopVars, hours, held, free, task, over, calls>>

Acquire ==
    /\ loop = "slot" /\ free > 0
    /\ loop' = "claim" /\ free' = free - 1
    /\ UNCHANGED <<shopVars, hours, held, task, over, calls>>

ClaimItem(i) ==
    /\ loop = "claim"
    /\ Queue!Claim(i)
    /\ loop' = "answer" /\ held' = i
    /\ UNCHANGED <<hours, free, task, over, calls>>

ClaimNothing ==
    /\ loop = "claim"
    /\ Queue!ClaimNothing
    /\ loop' = "gate" /\ free' = free + 1
    /\ UNCHANGED <<hours, held, task, over, calls>>

\* Faulty: the slot is not given back.
ClaimRaises_Leaking ==
    /\ loop \in {"claim", "answer"}
    /\ loop' = "gate" /\ held' = None
    /\ UNCHANGED <<shopVars, hours, free, task, over, calls>>

\* The request fails before or after ShopDeck has claimed an item.
ClaimRaises ==
    /\ loop \in {"claim", "answer"}
    /\ loop' = "gate" /\ held' = None /\ free' = free + 1
    /\ UNCHANGED <<shopVars, hours, task, over, calls>>

\* The answer names the active engagement: one with a call_sid has been
\* dispatched, and its task ends at once.
Spawn(t) ==
    /\ loop = "answer" /\ task[t] = Idle
    /\ loop' = "gate" /\ held' = None
    /\ IF Queue!ActiveEngagements(held) \cap callSid # {}
         THEN free' = free + 1 /\ UNCHANGED task
         ELSE task' = [task EXCEPT ![t] = [at |-> "prepare", item |-> held]] /\ UNCHANGED free
    /\ UNCHANGED <<shopVars, hours, over, calls>>

\* stop() cancels the loop wherever it waits; the tasks go on.
Stop ==
    /\ loop # "stopped"
    /\ loop' = "stopped" /\ held' = None
    /\ UNCHANGED <<shopVars, hours, free, task, over, calls>>

\* The process dies, or ends after stop(), and starts anew.
Restart ==
    /\ loop' = "gate" /\ held' = None /\ free' = Slots
    /\ task' = [t \in Tasks |-> Idle]
    /\ UNCHANGED <<shopVars, hours, over, calls>>

-----------------------------------------------------------------------------
(* _process_claimed_item and its wrapper.                                    *)

Goto(t, at) == task' = [task EXCEPT ![t].at = at]

At(t, at) == task[t].at = at

\* Context, decision and prepare_engagement, which keeps the record of an earlier
\* attempt as it is.  A decision against a call is reported as
\* intelligence_no_action, a status the queue refuses: it ends like a failure.
Prepare(t) ==
    /\ At(t, "prepare")
    /\ \E at \in {"register", "fail"} : Goto(t, at)
    /\ UNCHANGED <<shopVars, hours, loop, held, free, over, calls>>

Register(t) ==
    /\ At(t, "register")
    /\ Queue!Register(t, EngagementId[task[t].item])
    /\ Goto(t, "registering")
    /\ UNCHANGED <<hours, loop, held, free, over, calls>>

Registered(t) ==
    /\ At(t, "registering") /\ req[t].at = "done"
    /\ Goto(t, IF req[t].code \in {"200", "201"} THEN "patch" ELSE "fail")
    /\ UNCHANGED <<shopVars, hours, loop, held, free, over, calls>>

\* Faulty: relies on the transition that a fresh registration makes.
Patch_Implicit(t) ==
    /\ At(t, "patch")
    /\ Goto(t, "dispatch")
    /\ UNCHANGED <<shopVars, hours, loop, held, free, over, calls>>

\* A registration that is repeated does not move the queue on, so the poller
\* does; a 409 says that it is there already.
Patch(t) ==
    LET i == task[t].item IN
    /\ At(t, "patch")
    /\ \/ Queue!ReportStatus(i, "engagement_registered")
       \/ status[i] # "claimed" /\ UNCHANGED shopVars
    /\ Goto(t, "dispatch")
    /\ UNCHANGED <<hours, loop, held, free, over, calls>>

\* Faulty: tries again when the answer is lost.
Dispatch_Retried(t) ==
    LET i == task[t].item IN
    /\ At(t, "dispatch")
    /\ calls' = [calls EXCEPT ![i] = IF @ > MaxClaims THEN @ ELSE @ + 1]
    /\ \E at \in {"correlate", "dispatch"} : Goto(t, at)
    /\ UNCHANGED <<shopVars, hours, loop, held, free, over>>

\* The provider places the call, also when its answer is lost.
Dispatch(t) ==
    LET i == task[t].item IN
    /\ At(t, "dispatch")
    /\ calls' = [calls EXCEPT ![i] = @ + 1]
    /\ \E at \in {"correlate", "fail"} : Goto(t, at)
    /\ UNCHANGED <<shopVars, hours, loop, held, free, over>>

Correlate(t) ==
    /\ At(t, "correlate")
    /\ Goto(t, "report")
    /\ UNCHANGED <<shopVars, hours, loop, held, free, over, calls>>

Report(t) ==
    /\ At(t, "report")
    /\ Queue!ReportDispatched(t, EngagementId[task[t].item])
    /\ Goto(t, "reporting")
    /\ UNCHANGED <<hours, loop, held, free, over, calls>>

Reported(t) ==
    /\ At(t, "reporting")
    /\ \/ /\ Queue!DispatchedMove(t)
          /\ Goto(t, IF status[task[t].item] = "engagement_registered" THEN "wait"
                                                                     ELSE "fail")
       \/ Queue!Abort(t) /\ Goto(t, "fail")
    /\ UNCHANGED <<hours, loop, held, free, over, calls>>

\* Any await raises; a request that timed out goes on without the task.
Raise(t) ==
    /\ task[t].at \notin {"idle", "fail", "wait"}
    /\ Goto(t, "fail")
    /\ UNCHANGED <<shopVars, hours, loop, held, free, over, calls>>

Release(t) ==
    /\ task' = [task EXCEPT ![t] = Idle]
    /\ free' = free + 1

\* One report, which may fail; call_failed is a business failure.
Fail(t) ==
    /\ At(t, "fail")
    /\ \/ \E h \in Tasks \cup Others : Queue!ReportFailure(h, task[t].item, TRUE)
       \/ UNCHANGED shopVars
    /\ Release(t)
    /\ UNCHANGED <<hours, loop, held, over, calls>>

\* _wait_for_call_completion: the engagement is in a final state, perhaps since
\* an earlier attempt, ...
CallIsOver(t) ==
    /\ At(t, "wait") /\ over[task[t].item]
    /\ Release(t)
    /\ UNCHANGED <<shopVars, hours, loop, held, over, calls>>

\* Faulty: no ceiling on the wait.
GiveUp_Never(t) ==
    /\ At(t, "wait") /\ over[task[t].item]
    /\ Release(t)
    /\ UNCHANGED <<shopVars, hours, loop, held, over, calls>>

\* ... or call_completion_max_wait_seconds have passed.
GiveUp(t) ==
    /\ At(t, "wait")
    /\ Release(t)
    /\ UNCHANGED <<shopVars, hours, loop, held, over, calls>>

-----------------------------------------------------------------------------
(* What else happens.                                                        *)

ClockStrikes ==
    /\ hours' = ~hours
    /\ UNCHANGED <<shopVars, loop, held, free, task, over, calls>>

\* A webhook of the voice provider ends the engagement; it may get lost.
CallEnds(i) ==
    /\ calls[i] > 0 /\ ~over[i]
    /\ over' = [over EXCEPT ![i] = TRUE]
    /\ UNCHANGED <<shopVars, hours, loop, held, free, task, calls>>

\* Requests of tasks that are not waiting for them any more.
Deserted(t) == task[t].at \notin {"registering", "reporting"}

Webhook(h, i) ==
    /\ calls[i] > 0
    /\ \/ Queue!ReportCompleted(h, EngagementId[i])
       \/ \E r \in Results, c \in Contents :
              EngOf[r] = EngagementId[i] /\ Queue!Submit(h, r, c)

Elsewhere ==
    /\ \/ \E t \in Tasks : (At(t, "registering") \/ Deserted(t)) /\ Queue!Serve(t)
       \/ \E h \in Others : Queue!Serve(h) \/ Queue!Sync(h) \/ \E i \in Items : Webhook(h, i)
       \/ \E i \in Items : \/ Queue!LeaseExpires(i)
                           \/ \E s \in CourierSays : Queue!SourceRow(i, s)
    /\ UNCHANGED pollVars

Loop ==
    \/ Gate \/ Acquire \/ ClaimNothing \/ ClaimRaises
    \/ \E i \in Items : ClaimItem(i)
    \/ \E t \in Tasks : Spawn(t)

Step(t) ==
    \/ Prepare(t) \/ Register(t) \/ Registered(t) \/ Patch(t) \/ Dispatch(t)
    \/ Correlate(t) \/ Report(t) \/ Reported(t) \/ Raise(t) \/ Fail(t)
    \/ CallIsOver(t) \/ GiveUp(t)

Next ==
    \/ Loop \/ Stop \/ Restart
    \/ \E t \in Tasks : Step(t)
    \/ \E i \in Items : CallEnds(i)
    \/ ClockStrikes \/ Elsewhere

Spec == Init /\ [][Next]_vars

\* The loop, the tasks and the requests go on, and a stopped process is started
\* again; neither calling hours nor webhooks are sure to come.
FairSpec ==
    /\ Spec
    /\ WF_vars(Loop) /\ WF_vars(loop = "stopped" /\ Restart)
    /\ \A t \in Tasks : WF_vars(Step(t)) /\ WF_vars(Queue!Serve(t) /\ UNCHANGED pollVars)

-----------------------------------------------------------------------------
(* Properties.                                                               *)

\* Every call has a claim of its own: whatever is lost, repeated or restarted, a
\* customer is called at most max_claim_attempts times for an item.
CallsAreClaimed == \A i \in Items : calls[i] <= claims[i]

\* The semaphore counts: every way out of the loop and of a task gives its slot
\* back, and once only.
SlotsBalance ==
    loop # "stopped" =>
        free + Cardinality({t \in Tasks : task[t] # Idle})
             + (IF loop \in {"claim", "answer"} THEN 1 ELSE 0) = Slots

\* Once the customer was called the item is not handed out for another attempt,
\* also when the call was placed for a claim whose lease had run out.
CalledIsNotReclaimed ==
    [][\A i \in Items : calls[i] > 0 => claims'[i] = claims[i]]_vars

\* The poller does not run out of slots: failures, lost answers and webhooks that
\* never come give them back in the end.
SlotComesBack == free = 0 ~> free > 0

-----------------------------------------------------------------------------
(* What the documentation says and the code does not do: violated.            *)

\* "Real customers must never be called outside this window": the gate is passed
\* before the wait for a slot.
CallsWithinHours == [][calls' # calls => hours]_vars
=============================================================================
