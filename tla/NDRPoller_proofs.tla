-------------------------- MODULE NDRPoller_proofs --------------------------
(* What NDRPoller guarantees for any number of tasks, slots, items and        *)
(* requests.  The poller is shown to drive the queue by the queue's own steps,*)
(* so that what ShopDeckQueue_proofs proves of the queue (its types, that     *)
(* only claims reopen an item) holds here too.                                *)
EXTENDS NDRPoller, FiniteSetTheorems, TLAPS

Shop == INSTANCE ShopDeckQueue_proofs WITH Handlers <- Tasks \cup Others

\* The queue as its own proofs know it is the queue of NDRPoller.
LEMMA SameAssumption == Shop!ConstantsAssumption
  BY QueueAssumption DEF Queue!ConstantsAssumption, Shop!ConstantsAssumption

LEMMA SameInit == Queue!Init <=> Shop!Init
  BY DEF Queue!Init, Queue!Free, Shop!Init, Shop!Free

LEMMA SameNext == Queue!Next <=> Shop!Next
  BY DEF
      Queue!Init, Queue!Statuses, Queue!Closed, Queue!AllowedFrom, Queue!Free, Queue!Request,
      Queue!Enter, Queue!EnterAnswered, Queue!Goto, Queue!Answer, Queue!Finish, Queue!Move,
      Queue!MoveOrRefuse, Queue!SourceRow, Queue!Sync, Queue!LatestRowIsTerminal,
      Queue!MarkTerminal, Queue!Claimable, Queue!Unlocked, Queue!Claim, Queue!Exhausted,
      Queue!ClaimNothing, Queue!LeaseExpires, Queue!ActiveEngagements, Queue!Register,
      Queue!RegisterActive, Queue!RegisterItem, Queue!RegisterInsert, Queue!RegisterMove,
      Queue!ReportStatus, Queue!ReportDispatched, Queue!DispatchedMove, Queue!ReportCompleted,
      Queue!CompletedStamp, Queue!ScheduledSync, Queue!CompletedMove, Queue!FailureIsFinal, Queue!ReportFailure, Queue!ResultsOf,
      Queue!Submit, Queue!SubmitEngagement, Queue!SubmitInsert, Queue!SubmitReady, Queue!Abort,
      Queue!Serve, Queue!Receive, Queue!Next, Queue!vars, Queue!queueVars, Queue!engVars,
      Shop!Init, Shop!Statuses, Shop!Closed, Shop!AllowedFrom, Shop!Free, Shop!Request,
      Shop!Enter, Shop!EnterAnswered, Shop!Goto, Shop!Answer, Shop!Finish, Shop!Move,
      Shop!MoveOrRefuse, Shop!SourceRow, Shop!Sync, Shop!LatestRowIsTerminal, Shop!MarkTerminal,
      Shop!Claimable, Shop!Unlocked, Shop!Claim, Shop!Exhausted, Shop!ClaimNothing,
      Shop!LeaseExpires, Shop!ActiveEngagements, Shop!Register, Shop!RegisterActive,
      Shop!RegisterItem, Shop!RegisterInsert, Shop!RegisterMove, Shop!ReportStatus,
      Shop!ReportDispatched, Shop!DispatchedMove, Shop!ReportCompleted, Shop!CompletedStamp,
      Shop!ScheduledSync, Shop!CompletedMove,
      Shop!FailureIsFinal, Shop!ReportFailure, Shop!ResultsOf, Shop!Submit, Shop!SubmitEngagement,
      Shop!SubmitInsert, Shop!SubmitReady, Shop!Abort, Shop!Serve, Shop!Receive, Shop!Next,
      Shop!vars, Shop!queueVars, Shop!engVars
LEMMA SameSpec == Queue!Spec => Shop!Spec
<1>1. [Queue!Next]_(Queue!vars) => [Shop!Next]_(Shop!vars) BY SameNext
     DEF Queue!vars, Queue!queueVars, Queue!engVars, Shop!vars, Shop!queueVars, Shop!engVars
<1> QED BY <1>1, SameInit, PTL DEF Queue!Spec, Shop!Spec

-----------------------------------------------------------------------------
(* What a step does to the tasks.                                            *)

Task == [at : Places, item : Items \cup {None}]

\* Where a task may still place its call, and where the queue says it may have.
Before == {"prepare", "register", "registering", "patch", "dispatch"}
After == {"dispatch", "correlate", "report", "reporting", "wait"}

Busy == {t \in Tasks : task[t].at # "idle"}

\* The tasks that may still place a call for an item.
Callers(i) == {t \in Tasks : task[t].item = i /\ task[t].at \in Before}

Called(t) == calls' = [calls EXCEPT ![task[t].item] = @ + 1]

\* A task goes on: it comes before its call from no place behind it, and behind it only
\* by way of the report that the queue has moved on.
GoesOn(t, at) ==
    /\ at \in Places \ {"idle"}
    /\ Goto(t, at) /\ free' = free
    /\ at \in Before => task[t].at \in Before
    /\ at \in After => task[t].at \in After \/ Patch(t)
    /\ calls' = calls \/ (Called(t) /\ task[t].at = "dispatch" /\ at \notin Before)

LEMMA StepShape ==
    ASSUME NEW t \in Tasks, Step(t)
    PROVE  /\ task[t].at # "idle"
           /\ UNCHANGED <<hours, loop, held, over>>
           /\ \/ Release(t) /\ calls' = calls
              \/ \E at \in Places : GoesOn(t, at)
<1> USE DEF GoesOn, Places, Before, After, At, pollVars
<1>1. CASE Prepare(t) BY <1>1 DEF Prepare
<1>2. CASE Register(t) BY <1>2 DEF Register
<1>3. CASE Registered(t) BY <1>3 DEF Registered
<1>4. CASE Patch(t) BY <1>4 DEF Patch
<1>5. CASE Dispatch(t) BY <1>5 DEF Dispatch, Called
<1>6. CASE Correlate(t) BY <1>6 DEF Correlate
<1>7. CASE Report(t) BY <1>7 DEF Report
<1>8. CASE Reported(t) BY <1>8 DEF Reported
<1>9. CASE Raise(t) BY <1>9 DEF Raise
<1>10. CASE Fail(t) BY <1>10 DEF Fail
<1>11. CASE CallIsOver(t) BY <1>11 DEF CallIsOver
<1>12. CASE GiveUp(t) BY <1>12 DEF GiveUp
<1> QED BY <1>1, <1>2, <1>3, <1>4, <1>5, <1>6, <1>7, <1>8, <1>9, <1>10, <1>11, <1>12 DEF Step

\* One task is changed, into a task again.
LEMMA TaskChanges ==
    ASSUME task \in [Tasks -> Task], NEW t \in Tasks, NEW r \in Task,
           task' = [task EXCEPT ![t] = r]
    PROVE  /\ task' \in [Tasks -> Task]
           /\ task'[t] = r
           /\ \A u \in Tasks : u # t => task'[u] = task[u]
  OBVIOUS

LEMMA GotoChanges ==
    ASSUME task \in [Tasks -> Task], NEW t \in Tasks, NEW at \in Places, Goto(t, at)
    PROVE  /\ task' \in [Tasks -> Task]
           /\ task'[t].at = at /\ task'[t].item = task[t].item
           /\ \A u \in Tasks : u # t => task'[u] = task[u]
<1> DEFINE r == [task[t] EXCEPT !.at = at]
<1>1. task[t] \in Task OBVIOUS
<1>2. r \in Task /\ r.at = at /\ r.item = task[t].item BY <1>1 DEF Task
<1>3. task' = [task EXCEPT ![t] = r] BY DEF Goto
<1> HIDE DEF r
<1> QED BY <1>2, <1>3, TaskChanges

-----------------------------------------------------------------------------
(* Slots.                                                                    *)

\* The slot of a claim that is under way.
InHand == IF loop \in {"claim", "answer"} THEN 1 ELSE 0

Working ==
    /\ \A t \in Tasks : task[t].at = "idle" <=> task[t].item = None
    /\ held # None <=> loop = "answer"

Counted == free + Cardinality(Busy) + InHand

\* A loop that is stopped while it claims takes its slot along.
SlotsKept == Counted <= Slots /\ (loop # "stopped" => Counted = Slots)

SlotInv == TypeOK /\ Working /\ SlotsKept

LEMMA TasksAreFinite ==
    /\ Slots \in Nat
    /\ \A S : S \subseteq Tasks => IsFiniteSet(S) /\ Cardinality(S) \in Nat
<1>1. IsFiniteSet(Tasks) BY PollerAssumption
<1>2. Cardinality(Tasks) \in Nat BY <1>1, FS_CardinalityType
<1>3. Slots \in 1..Cardinality(Tasks) BY PollerAssumption
<1>4. ASSUME NEW S, S \subseteq Tasks PROVE IsFiniteSet(S) /\ Cardinality(S) \in Nat
  BY <1>1, <1>4, FS_Subset, FS_CardinalityType
<1> QED BY <1>2, <1>3, <1>4

LEMMA SlotInit == Init => SlotInv
<1> SUFFICES ASSUME Init PROVE SlotInv
  OBVIOUS
<1> USE DEF Init
<1>1. Idle \in Task /\ Idle.at = "idle" /\ Idle.item = None BY DEF Idle, Task, Places
<1>2. Slots \in Nat BY TasksAreFinite
<1>3. TypeOK BY <1>1, <1>2 DEF TypeOK, Task
<1>4. Working BY <1>1 DEF Working
<1>5. Busy = {} BY <1>1 DEF Busy
<1>6. Cardinality(Busy) = 0 BY <1>5, FS_EmptySet
<1>7. SlotsKept BY <1>2, <1>6 DEF SlotsKept, Counted, InHand
<1> QED BY <1>3, <1>4, <1>7 DEF SlotInv

LEMMA BusyChanges ==
    ASSUME task \in [Tasks -> Task], task' \in [Tasks -> Task], NEW t \in Tasks,
           \A u \in Tasks : u # t => task'[u] = task[u]
    PROVE  Cardinality(Busy') =
               Cardinality(Busy) + (IF task'[t].at = "idle" THEN 0 ELSE 1)
                                 - (IF task[t].at = "idle" THEN 0 ELSE 1)
<1>f. IsFiniteSet(Busy) /\ Cardinality(Busy) \in Nat BY TasksAreFinite DEF Busy
<1>1. CASE task'[t].at = "idle" /\ task[t].at # "idle"
  <2>1. Busy' = Busy \ {t} /\ t \in Busy BY <1>1 DEF Busy
  <2>2. Cardinality(Busy \ {t}) = Cardinality(Busy) - 1 BY <2>1, <1>f, FS_RemoveElement
  <2> QED BY <2>1, <2>2, <1>1, <1>f
<1>2. CASE task'[t].at # "idle" /\ task[t].at = "idle"
  <2>1. Busy' = Busy \cup {t} /\ t \notin Busy BY <1>2 DEF Busy
  <2>2. Cardinality(Busy \cup {t}) = Cardinality(Busy) + 1 BY <2>1, <1>f, FS_AddElement
  <2> QED BY <2>1, <2>2, <1>2, <1>f
<1>3. CASE (task'[t].at = "idle") <=> (task[t].at = "idle")
  <2>1. Busy' = Busy BY <1>3 DEF Busy
  <2> QED BY <2>1, <1>3, <1>f
<1> QED BY <1>1, <1>2, <1>3

LEMMA SlotNext == SlotInv /\ [Next]_vars => SlotInv'
<1> SUFFICES ASSUME SlotInv, [Next]_vars PROVE SlotInv'
  OBVIOUS
<1>t. /\ task \in [Tasks -> Task] /\ free \in Nat
      /\ calls \in [Items -> Nat] /\ over \in [Items -> BOOLEAN] /\ hours \in BOOLEAN
      /\ loop \in {"gate", "slot", "claim", "answer", "stopped"}
      /\ held \in Items \cup {None}
  BY TasksAreFinite DEF SlotInv, TypeOK, Task
<1>w. Working BY DEF SlotInv
<1>s. SlotsKept BY DEF SlotInv
<1>b. Cardinality(Busy) \in Nat /\ Slots \in Nat BY TasksAreFinite DEF Busy
<1>i. Idle \in Task /\ Idle.at = "idle" /\ Idle.item = None BY DEF Idle, Task, Places
<1>n. None \notin Items BY PollerAssumption
<1>h. InHand \in Nat BY DEF InHand
\* It is enough that the slots still count up.
<1>k. ASSUME hours' \in BOOLEAN, over' \in [Items -> BOOLEAN], calls' \in [Items -> Nat],
             loop' \in {"gate", "slot", "claim", "answer", "stopped"},
             held' \in Items \cup {None}, task' \in [Tasks -> Task], free' \in Nat,
             Working', SlotsKept'
      PROVE  SlotInv'
  <2> DEFINE n == Cardinality(Busy') h == InHand' g == free'
  <2>0. n \in Nat /\ Slots \in Nat BY TasksAreFinite DEF Busy
  <2>1. h \in Nat /\ g \in Nat BY <1>k DEF InHand
  <2>2. g + n + h <= Slots BY <1>k DEF SlotsKept, Counted
  <2> HIDE DEF n, h, g
  <2>3. g \in 0..Slots BY <2>0, <2>1, <2>2
  <2>4. TypeOK' BY <1>k, <2>3 DEF TypeOK, Task, g
  <2> QED BY <2>4, <1>k DEF SlotInv
\* The loop moves on, and so do the slots it holds.
<1>l. ASSUME UNCHANGED <<hours, over, calls, task>>,
             loop' \in {"gate", "slot", "claim", "answer", "stopped"},
             held' \in Items \cup {None}, held' # None <=> loop' = "answer",
             free' \in Nat,
             \/ free' + InHand' = free + InHand /\ loop # "stopped"
             \/ free' + InHand' <= free + InHand /\ loop' = "stopped"
      PROVE  SlotInv'
  <2> DEFINE n == Cardinality(Busy) m == Cardinality(Busy') h == InHand k == InHand' g == free'
  <2>1. Busy' = Busy BY <1>l DEF Busy
  <2>2. m = n /\ n \in Nat /\ Slots \in Nat BY <2>1, <1>b
  <2>3. h \in Nat /\ k \in Nat /\ free \in Nat /\ g \in Nat BY <1>h, <1>t, <1>l DEF InHand
  <2>4. free + n + h <= Slots /\ (loop # "stopped" => free + n + h = Slots)
    BY <1>s DEF SlotsKept, Counted
  <2>5. \/ g + k = free + h /\ loop # "stopped"
        \/ g + k <= free + h /\ loop' = "stopped"
    BY <1>l
  <2> HIDE DEF n, m, h, k, g
  <2>6. g + m + k <= Slots /\ (loop' # "stopped" => g + m + k = Slots)
    BY <2>2, <2>3, <2>4, <2>5
  <2>7. SlotsKept' BY <2>6 DEF SlotsKept, Counted, g, m, k
  <2>8. Working' BY <1>l, <1>w DEF Working
  <2> QED BY <1>k, <1>l, <1>t, <2>7, <2>8
\* A task changes, and with it whether it holds a slot.
<1>g. ASSUME NEW t \in Tasks, UNCHANGED <<hours, over>>, calls' \in [Items -> Nat],
             loop' \in {"gate", "slot", "claim", "answer", "stopped"},
             held' \in Items \cup {None}, held' # None <=> loop' = "answer",
             free' \in Nat, task' \in [Tasks -> Task],
             task'[t].at = "idle" <=> task'[t].item = None,
             \A u \in Tasks : u # t => task'[u] = task[u],
             free' + InHand' + (IF task'[t].at = "idle" THEN 0 ELSE 1)
                 = free + InHand + (IF task[t].at = "idle" THEN 0 ELSE 1),
             loop' # "stopped" => loop # "stopped"
      PROVE  SlotInv'
  <2> DEFINE n == Cardinality(Busy) m == Cardinality(Busy') h == InHand k == InHand' g == free'
             x == IF task[t].at = "idle" THEN 0 ELSE 1
             y == IF task'[t].at = "idle" THEN 0 ELSE 1
  <2>1. m = n + y - x BY <1>g, <1>t, BusyChanges
  <2>2. m \in Nat /\ n \in Nat /\ Slots \in Nat BY TasksAreFinite, <1>b DEF Busy
  <2>3. h \in Nat /\ k \in Nat /\ free \in Nat /\ g \in Nat /\ x \in Nat /\ y \in Nat
    BY <1>h, <1>t, <1>g DEF InHand
  <2>4. free + n + h <= Slots /\ (loop # "stopped" => free + n + h = Slots)
    BY <1>s DEF SlotsKept, Counted
  <2>5. g + k + y = free + h + x BY <1>g
  <2>6. loop' # "stopped" => loop # "stopped" BY <1>g
  <2> HIDE DEF n, m, h, k, g, x, y
  <2>7. g + m + k <= Slots /\ (loop' # "stopped" => g + m + k = Slots)
    BY <2>1, <2>2, <2>3, <2>4, <2>5, <2>6
  <2>8. SlotsKept' BY <2>7 DEF SlotsKept, Counted, g, m, k
  <2>9. Working' BY <1>g, <1>w DEF Working
  <2> QED BY <1>k, <1>g, <1>t, <2>8, <2>9
<1>1. CASE Gate BY <1>1, <1>l, <1>t, <1>w DEF Gate, InHand, Working
<1>2. CASE Acquire
  <2>1. free' \in Nat /\ free' + 1 = free BY <1>2, <1>t DEF Acquire
  <2>2. InHand = 0 /\ InHand' = 1 BY <1>2 DEF Acquire, InHand
  <2>3. free' + InHand' = free + InHand
    <3> DEFINE g == free'
    <3>1. g \in Nat /\ g + 1 = free /\ free \in Nat BY <2>1, <1>t
    <3> HIDE DEF g
    <3>2. g + 1 = free + 0 BY <3>1
    <3> QED BY <3>2, <2>2 DEF g
  <2> QED BY <1>2, <2>1, <2>3, <1>l, <1>t, <1>w DEF Acquire, Working
<1>3. ASSUME NEW i \in Items, ClaimItem(i) PROVE SlotInv'
  BY <1>3, <1>l, <1>t, <1>n DEF ClaimItem, InHand
<1>r. ASSUME free' = free + 1, InHand = 1, InHand' = 0
      PROVE  free' \in Nat /\ free' + InHand' = free + InHand
  BY <1>r, <1>t
<1>4. CASE ClaimNothing
  <2>1. InHand = 1 /\ InHand' = 0 /\ free' = free + 1 BY <1>4 DEF ClaimNothing, InHand
  <2>2. held = None /\ held' = None BY <1>4, <1>w DEF ClaimNothing, Working
  <2> QED BY <1>4, <2>1, <2>2, <1>r, <1>l, <1>t DEF ClaimNothing
<1>5. CASE ClaimRaises
  <2>1. InHand = 1 /\ InHand' = 0 /\ free' = free + 1 BY <1>5 DEF ClaimRaises, InHand
  <2> QED BY <1>5, <2>1, <1>r, <1>l, <1>t DEF ClaimRaises
<1>6. CASE Stop
  <2>1. InHand' = 0 /\ free' = free BY <1>6 DEF Stop, InHand
  <2>2. free' + InHand' <= free + InHand BY <2>1, <1>t, <1>h
  <2> QED BY <1>6, <2>1, <2>2, <1>l, <1>t DEF Stop
<1>7. ASSUME NEW t \in Tasks, Spawn(t) PROVE SlotInv'
  <2>1. InHand = 1 /\ InHand' = 0 BY <1>7 DEF Spawn, InHand
  <2>2. held \in Items /\ held' = None /\ loop' = "gate" /\ loop # "stopped"
        /\ UNCHANGED <<shopVars, hours, over, calls>> /\ task[t] = Idle
    BY <1>7, <1>t, <1>w DEF Spawn, Working
  <2>3. CASE free' = free + 1 /\ UNCHANGED task BY <2>1, <2>2, <2>3, <1>r, <1>l, <1>t
  <2>4. CASE task' = [task EXCEPT ![t] = [at |-> "prepare", item |-> held]] /\ UNCHANGED free
    <3> DEFINE r == [at |-> "prepare", item |-> held]
    <3>1. r \in Task /\ r.at # "idle" /\ r.item # None BY <2>2, <1>n DEF Task, Places
    <3>2. task' = [task EXCEPT ![t] = r] BY <2>4
    <3> HIDE DEF r
    <3>3. /\ task' \in [Tasks -> Task] /\ task'[t] = r
          /\ \A u \in Tasks : u # t => task'[u] = task[u]
      BY <3>1, <3>2, <1>t, TaskChanges
    <3>4. free' + InHand' + (IF task'[t].at = "idle" THEN 0 ELSE 1)
              = free + InHand + (IF task[t].at = "idle" THEN 0 ELSE 1)
      BY <2>1, <2>2, <2>4, <3>1, <3>3, <1>i, <1>t
    <3> QED BY <3>1, <3>3, <3>4, <2>2, <2>4, <1>g, <1>t
  <2> QED BY <2>3, <2>4, <1>7 DEF Spawn
<1>8. CASE Restart
  <2>1. Busy' = {} BY <1>8, <1>i DEF Restart, Busy
  <2>2. Counted' = Slots /\ free' \in Nat
    <3>1. Cardinality(Busy') = 0 BY <2>1, FS_EmptySet
    <3>2. free' = Slots /\ InHand' = 0 BY <1>8 DEF Restart, InHand
    <3> QED BY <3>1, <3>2, <1>b DEF Counted
  <2>3. SlotsKept' BY <2>2, <1>b DEF SlotsKept
  <2>4. Working' BY <1>8, <1>i DEF Restart, Working
  <2>5. task' \in [Tasks -> Task] BY <1>8, <1>i DEF Restart
  <2> QED BY <1>8, <1>k, <1>t, <2>2, <2>3, <2>4, <2>5 DEF Restart
<1>9. ASSUME NEW t \in Tasks, Step(t) PROVE SlotInv'
  <2>1. task[t].at # "idle" /\ UNCHANGED <<hours, loop, held, over>> /\ InHand' = InHand
    BY <1>9, StepShape DEF InHand
  <2>h. /\ UNCHANGED <<hours, over>>
        /\ loop' \in {"gate", "slot", "claim", "answer", "stopped"}
        /\ held' \in Items \cup {None} /\ (held' # None <=> loop' = "answer")
        /\ (loop' # "stopped" => loop # "stopped")
    BY <2>1, <1>t, <1>w DEF Working
  <2>2. CASE Release(t) /\ calls' = calls
    <3>1. task' = [task EXCEPT ![t] = Idle] /\ free' = free + 1 BY <2>2 DEF Release
    <3>2. /\ task' \in [Tasks -> Task] /\ task'[t] = Idle
          /\ \A u \in Tasks : u # t => task'[u] = task[u]
      BY <3>1, <1>i, <1>t, TaskChanges
    <3>3. free' + InHand' + (IF task'[t].at = "idle" THEN 0 ELSE 1)
              = free + InHand + (IF task[t].at = "idle" THEN 0 ELSE 1)
      BY <2>1, <3>1, <3>2, <1>i, <1>t, <1>h
    <3>4. free' \in Nat BY <3>1, <1>t
    <3> QED BY <2>h, <2>2, <3>2, <3>3, <3>4, <1>i, <1>g, <1>t
  <2>3. ASSUME NEW at \in Places, GoesOn(t, at) PROVE SlotInv'
    <3>1. /\ task' \in [Tasks -> Task] /\ task'[t].at = at /\ task'[t].item = task[t].item
          /\ \A u \in Tasks : u # t => task'[u] = task[u]
      BY <2>3, <1>t, GotoChanges DEF GoesOn
    <3>2. at # "idle" /\ free' = free BY <2>3 DEF GoesOn
    <3>3. task[t].item # None BY <2>1, <1>w DEF Working
    <3>4. calls' \in [Items -> Nat] BY <2>3, <1>t DEF GoesOn, Called
    <3>5. free' + InHand' + (IF task'[t].at = "idle" THEN 0 ELSE 1)
              = free + InHand + (IF task[t].at = "idle" THEN 0 ELSE 1)
      BY <2>1, <3>1, <3>2, <1>t, <1>h
    <3> QED BY <2>h, <3>1, <3>2, <3>3, <3>4, <3>5, <1>g, <1>t
  <2> QED BY <1>9, <2>2, <2>3, StepShape
\* The rest leaves the loop and the tasks alone.
<1>e. ASSUME UNCHANGED <<loop, held, free, task, calls>>, hours' \in BOOLEAN,
             over' \in [Items -> BOOLEAN]
      PROVE  SlotInv'
  <2>1. Working' BY <1>e, <1>w DEF Working
  <2>2. Counted' = Counted BY <1>e DEF Counted, Busy, InHand
  <2>3. SlotsKept' BY <1>e, <1>s, <2>2 DEF SlotsKept
  <2> QED BY <1>e, <1>k, <1>t, <2>1, <2>3
<1>10. CASE ClockStrikes BY <1>10, <1>e, <1>t DEF ClockStrikes
<1>11. ASSUME NEW i \in Items, CallEnds(i) PROVE SlotInv' BY <1>11, <1>e, <1>t DEF CallEnds
<1>12. CASE Elsewhere BY <1>12, <1>e, <1>t DEF Elsewhere, pollVars
<1>13. CASE UNCHANGED vars BY <1>13, <1>e, <1>t DEF vars, pollVars
<1> QED BY <1>1, <1>2, <1>3, <1>4, <1>5, <1>6, <1>7, <1>8, <1>9, <1>10, <1>11, <1>12, <1>13
        DEF Next, Loop

LEMMA SlotsAlways == Spec => []SlotInv
<1>1. SlotInv /\ [Next]_vars => SlotInv' BY SlotNext
<1> QED BY SlotInit, <1>1, PTL DEF Spec

\* What the loop, the semaphore and the tasks hold is of its kind.
THEOREM PollerTypeCorrect == Spec => []TypeOK
<1>1. SlotInv => TypeOK BY DEF SlotInv
<1> QED BY <1>1, SlotsAlways, PTL

\* No slot is lost and none is given back twice, in whatever order the loop, the tasks, stop()
\* and restarts come.
THEOREM SlotsBalanceCorrect == Spec => []SlotsBalance
<1>1. SlotInv => SlotsBalance
  <2> SUFFICES ASSUME SlotInv PROVE SlotsBalance
    OBVIOUS
  <2>1. task \in [Tasks -> Task] /\ Working BY DEF SlotInv, TypeOK, Task
  <2>2. Busy = {t \in Tasks : task[t] # Idle}
    <3>1. ASSUME NEW t \in Tasks PROVE task[t].at = "idle" <=> task[t] = Idle
      BY <2>1 DEF Working, Task, Idle
    <3> QED BY <3>1 DEF Busy
  <2> QED BY <2>2 DEF SlotInv, SlotsKept, Counted, InHand, SlotsBalance
<1> QED BY <1>1, SlotsAlways, PTL

-----------------------------------------------------------------------------
(* Every step of the poller and of what surrounds it is a step of the queue. *)

LEMMA WorkHasItem ==
    ASSUME SlotInv, NEW t \in Tasks, task[t].at # "idle"
    PROVE  task[t].item \in Items
<1>1. task[t] \in Task /\ (task[t].at = "idle" <=> task[t].item = None)
  BY DEF SlotInv, TypeOK, Working, Task
<1> QED BY <1>1 DEF Task

LEMMA QueueStep == SlotInv /\ [Next]_vars => [Queue!Next]_(Queue!vars)
<1> SUFFICES ASSUME SlotInv, [Next]_vars PROVE Queue!Next \/ UNCHANGED shopVars
  BY DEF shopVars, Queue!vars, Queue!queueVars, Queue!engVars
<1>a. \A t \in Tasks : t \in Tasks \cup Others OBVIOUS
<1>1. CASE Gate \/ Acquire \/ ClaimRaises BY <1>1 DEF Gate, Acquire, ClaimRaises
<1>2. CASE ClaimNothing BY <1>2 DEF ClaimNothing, Queue!Next
<1>3. ASSUME NEW i \in Items, ClaimItem(i) PROVE Queue!Next
  BY <1>3 DEF ClaimItem, Queue!Next
<1>4. ASSUME NEW t \in Tasks, Spawn(t) PROVE UNCHANGED shopVars BY <1>4 DEF Spawn
<1>5. CASE Stop \/ Restart BY <1>5 DEF Stop, Restart
<1>6. ASSUME NEW t \in Tasks, Step(t) PROVE Queue!Next \/ UNCHANGED shopVars
  <2>1. task[t].item \in Items BY <1>6, StepShape, WorkHasItem
  <2>2. EngagementId[task[t].item] \in Engagements BY <2>1, PollerAssumption
  <2>3. CASE Register(t)
    BY <2>3, <2>2 DEF Register, Queue!Next, Queue!Receive
  <2>4. CASE Patch(t)
    BY <2>4, <2>1 DEF Patch, Queue!Next, Queue!Statuses
  <2>5. CASE Report(t)
    BY <2>5, <2>2 DEF Report, Queue!Next, Queue!Receive
  <2>6. CASE Reported(t)
    BY <2>6 DEF Reported, Queue!Next, Queue!Serve
  <2>7. CASE Fail(t)
    BY <2>7, <2>1 DEF Fail, Queue!Next, Queue!Receive
  <2>8. CASE \/ Prepare(t) \/ Registered(t) \/ Dispatch(t) \/ Correlate(t)
             \/ Raise(t) \/ CallIsOver(t) \/ GiveUp(t)
    BY <2>8 DEF Prepare, Registered, Dispatch, Correlate, Raise, CallIsOver, GiveUp
  <2> QED BY <1>6, <2>3, <2>4, <2>5, <2>6, <2>7, <2>8 DEF Step
<1>7. CASE ClockStrikes BY <1>7 DEF ClockStrikes
<1>8. ASSUME NEW i \in Items, CallEnds(i) PROVE UNCHANGED shopVars BY <1>8 DEF CallEnds
<1>9. CASE Elsewhere
  <2>1. ASSUME NEW t \in Tasks, Queue!Serve(t) PROVE Queue!Next BY <2>1 DEF Queue!Next
  <2>2. ASSUME NEW h \in Others, Queue!Serve(h) \/ Queue!Sync(h) PROVE Queue!Next
    BY <2>2 DEF Queue!Next, Queue!Receive
  <2>3. ASSUME NEW h \in Others, NEW i \in Items, Webhook(h, i) PROVE Queue!Next
    <3>1. EngagementId[i] \in Engagements BY PollerAssumption
    <3> QED BY <2>3, <3>1 DEF Webhook, Queue!Next, Queue!Receive
  <2>4. ASSUME NEW i \in Items, Queue!LeaseExpires(i) PROVE Queue!Next
    BY <2>4 DEF Queue!Next
  <2>5. ASSUME NEW i \in Items, NEW s \in CourierSays, Queue!SourceRow(i, s) PROVE Queue!Next
    BY <2>5, PollerAssumption DEF Queue!Next
  <2> QED BY <1>9, <2>1, <2>2, <2>3, <2>4, <2>5 DEF Elsewhere
<1>10. CASE UNCHANGED vars BY <1>10 DEF vars
<1> QED BY <1>1, <1>2, <1>3, <1>4, <1>5, <1>6, <1>7, <1>8, <1>9, <1>10 DEF Next, Loop

\* The queue keeps its promises to a poller that stops waiting for answers, restarts and
\* repeats: whatever it, its webhooks and ShopDeck's jobs do, the queue only makes its steps.
THEOREM QueueImplemented == Spec => Queue!Spec
<1>1. Init => Queue!Init BY DEF Init
<1>2. SlotInv /\ [Next]_vars => [Queue!Next]_(Queue!vars) BY QueueStep
<1> QED BY <1>1, <1>2, SlotsAlways, PTL DEF Spec, Queue!Spec

\* What the queue guarantees on its own it guarantees under this poller: a status never runs
\* ahead of its evidence.
THEOREM EvidenceUnderPoller == Spec => []Queue!StatusBackedByEvidence
<1>1. Shop!Spec => []Shop!StatusBackedByEvidence BY SameAssumption, Shop!EvidenceCorrect
<1>2. Shop!StatusBackedByEvidence => Queue!StatusBackedByEvidence
  BY DEF Shop!StatusBackedByEvidence, Shop!EngagementsOf, Queue!StatusBackedByEvidence,
         Queue!EngagementsOf
<1> QED BY <1>1, <1>2, SameSpec, QueueImplemented, PTL

\* All else that the queue guarantees: what is shown as ready has its result, what was
\* acknowledged is stored, a spent retry budget closes the item, what is closed stays closed,
\* and a registered call is not handed out again.
QueueGuarantees ==
    /\ [](/\ Queue!ActionReadyHasResult /\ Queue!AckedResultIsStored
          /\ Queue!AckedRegistrationIsStored /\ Queue!SpentRetriesAreClosed)
    /\ Queue!ClosedStaysClosed
    /\ Queue!RegisteredIsNotReclaimed

\* The poller cannot break any of it, whatever its tasks repeat, desert or run into.
THEOREM QueueHoldsUnderPoller == Spec => QueueGuarantees
<1>1. Shop!Spec => [](/\ Shop!ActionReadyHasResult /\ Shop!AckedResultIsStored
                      /\ Shop!AckedRegistrationIsStored /\ Shop!SpentRetriesAreClosed)
  <2>1. Shop!Spec => []Shop!ActionReadyHasResult BY SameAssumption, Shop!ReadyCorrect
  <2>2. Shop!Spec => []Shop!AckedResultIsStored BY SameAssumption, Shop!AckedResultCorrect
  <2>3. Shop!Spec => []Shop!AckedRegistrationIsStored
    BY SameAssumption, Shop!AckedRegistrationCorrect
  <2>4. Shop!Spec => []Shop!SpentRetriesAreClosed BY SameAssumption, Shop!RetryBudgetCorrect
  <2> QED BY <2>1, <2>2, <2>3, <2>4, PTL
<1>2. /\ Shop!ActionReadyHasResult => Queue!ActionReadyHasResult
      /\ Shop!AckedResultIsStored => Queue!AckedResultIsStored
      /\ Shop!AckedRegistrationIsStored => Queue!AckedRegistrationIsStored
      /\ Shop!SpentRetriesAreClosed => Queue!SpentRetriesAreClosed
  BY DEF Shop!ActionReadyHasResult, Queue!ActionReadyHasResult,
         Shop!AckedResultIsStored, Queue!AckedResultIsStored,
         Shop!AckedRegistrationIsStored, Queue!AckedRegistrationIsStored,
         Shop!SpentRetriesAreClosed, Queue!SpentRetriesAreClosed,
         Shop!ActiveEngagements, Queue!ActiveEngagements, Shop!Closed, Queue!Closed
<1>3. Shop!Spec => Queue!ClosedStaysClosed
  BY SameAssumption, Shop!ClosedForGood
  DEF Shop!ClosedStaysClosed, Queue!ClosedStaysClosed, Shop!Closed, Queue!Closed,
      Shop!vars, Shop!queueVars, Shop!engVars, Queue!vars, Queue!queueVars, Queue!engVars
<1>4. Shop!Spec => Queue!RegisteredIsNotReclaimed
  BY SameAssumption, Shop!NotReclaimedCorrect
  DEF Shop!RegisteredIsNotReclaimed, Queue!RegisteredIsNotReclaimed,
      Shop!vars, Shop!queueVars, Shop!engVars, Queue!vars, Queue!queueVars, Queue!engVars
<1> QED BY <1>1, <1>2, <1>3, <1>4, SameSpec, QueueImplemented, PTL DEF QueueGuarantees

LEMMA QueueTypes == Spec => []Shop!TypeOK
<1>1. Shop!Spec => []Shop!TypeOK BY SameAssumption, Shop!TypeCorrect
<1> QED BY <1>1, SameSpec, QueueImplemented, PTL

-----------------------------------------------------------------------------
(* Calls.                                                                    *)

\* The call that the loop may still make of an item it was handed.
Handed(i) == IF held = i THEN 1 ELSE 0

\* Every call that was placed or may still be placed has a claim of its own.
Covered(i) == calls[i] + Cardinality(Callers(i)) + Handed(i) <= claims[i]

Open == {"none", "eligible", "claimed", "failed_retryable"}

\* The queue knows of a claim, and does not hand out an item that may have been called.
Standing(i) ==
    /\ status[i] # "failed_retryable"
    /\ claims[i] > 0 => status[i] \notin {"none", "eligible"}
    /\ calls[i] > 0 => status[i] \notin Open
    /\ \A t \in Tasks : task[t].item = i =>
          /\ claims[i] > 0
          /\ task[t].at \in After => status[i] \notin Open

CallInv == \A i \in Items : Covered(i) /\ Standing(i)

LEMMA CallInit == Init => CallInv
<1> SUFFICES ASSUME Init, NEW i \in Items PROVE Covered(i) /\ Standing(i)
  BY DEF CallInv
<1>1. \A t \in Tasks : task[t].at = "idle" /\ task[t].item = None BY DEF Init, Idle
<1>2. None \notin Items BY PollerAssumption
<1>3. Callers(i) = {} BY <1>1 DEF Callers, Before
<1>4. calls[i] = 0 /\ claims[i] = 0 /\ held # i /\ status[i] = "none"
  BY <1>2 DEF Init, Queue!Init
<1>5. Covered(i) BY <1>3, <1>4, FS_EmptySet DEF Covered, Handed
<1>6. Standing(i) BY <1>1, <1>2, <1>4 DEF Standing
<1> QED BY <1>5, <1>6

\* Nobody but the loop claims an item.
LEMMA OnlyTheLoopClaims ==
    ASSUME SlotInv, [Next]_vars
    PROVE  claims' = claims \/ \E i \in Items : ClaimItem(i)
<1>1. CASE Gate \/ Acquire \/ ClaimRaises BY <1>1 DEF Gate, Acquire, ClaimRaises, shopVars
<1>2. CASE ClaimNothing BY <1>2 DEF ClaimNothing, Queue!ClaimNothing
<1>3. ASSUME NEW t \in Tasks, Spawn(t) PROVE claims' = claims BY <1>3 DEF Spawn, shopVars
<1>4. CASE Stop \/ Restart BY <1>4 DEF Stop, Restart, shopVars
<1>5. ASSUME NEW t \in Tasks, Step(t) PROVE claims' = claims
  <2>1. CASE Register(t) BY <2>1 DEF Register, Queue!Register, Queue!queueVars
  <2>2. CASE Patch(t) BY <2>2 DEF Patch, Queue!ReportStatus, shopVars
  <2>3. CASE Report(t) BY <2>3 DEF Report, Queue!ReportDispatched, Queue!queueVars
  <2>4. CASE Reported(t)
    BY <2>4 DEF Reported, Queue!DispatchedMove, Queue!Abort, Queue!queueVars
  <2>5. CASE Fail(t) BY <2>5 DEF Fail, Queue!ReportFailure, shopVars
  <2>6. CASE \/ Prepare(t) \/ Registered(t) \/ Dispatch(t) \/ Correlate(t)
             \/ Raise(t) \/ CallIsOver(t) \/ GiveUp(t)
    BY <2>6 DEF Prepare, Registered, Dispatch, Correlate, Raise, CallIsOver, GiveUp, shopVars
  <2> QED BY <1>5, <2>1, <2>2, <2>3, <2>4, <2>5, <2>6 DEF Step
<1>6. CASE ClockStrikes BY <1>6 DEF ClockStrikes, shopVars
<1>7. ASSUME NEW i \in Items, CallEnds(i) PROVE claims' = claims
  BY <1>7 DEF CallEnds, shopVars
<1>8. CASE Elsewhere
  <2>1. ASSUME NEW h, Queue!Serve(h) PROVE claims' = claims
    BY <2>1 DEF Queue!Serve, Queue!RegisterActive, Queue!RegisterItem, Queue!RegisterInsert,
       Queue!RegisterMove, Queue!DispatchedMove, Queue!CompletedStamp, Queue!CompletedMove, Queue!SubmitEngagement,
       Queue!SubmitInsert, Queue!SubmitReady, Queue!MarkTerminal, Queue!Abort, Queue!queueVars
  <2>2. ASSUME NEW h, Queue!Sync(h) PROVE claims' = claims BY <2>2 DEF Queue!Sync
  <2>3. ASSUME NEW h, NEW i, Webhook(h, i) PROVE claims' = claims
    BY <2>3 DEF Webhook, Queue!ReportCompleted, Queue!Submit, Queue!queueVars
  <2>4. ASSUME NEW i, Queue!LeaseExpires(i) PROVE claims' = claims
    BY <2>4 DEF Queue!LeaseExpires
  <2>5. ASSUME NEW i, NEW s, Queue!SourceRow(i, s) PROVE claims' = claims
    BY <2>5 DEF Queue!SourceRow, Queue!queueVars
  <2> QED BY <1>8, <2>1, <2>2, <2>3, <2>4, <2>5 DEF Elsewhere
<1>9. CASE UNCHANGED vars BY <1>9 DEF vars, shopVars
<1> QED BY <1>1, <1>2, <1>3, <1>4, <1>5, <1>6, <1>7, <1>8, <1>9 DEF Next, Loop

\* While nothing is claimed no item comes back to the pool.
LEMMA ShopGoesForward ==
    ASSUME SlotInv, Shop!TypeOK, [Next]_vars, claims' = claims, NEW k \in Items
    PROVE  Shop!Forward(k)
<1>1. [Shop!Next]_(Shop!vars)
  BY QueueStep, SameNext
     DEF Queue!vars, Queue!queueVars, Queue!engVars, Shop!vars, Shop!queueVars, Shop!engVars
<1>2. \A i \in Items : ~Shop!Claim(i)
  <2> SUFFICES ASSUME NEW i \in Items, Shop!Claim(i) PROVE FALSE
    OBVIOUS
  <2>1. claims \in [Items -> Nat] BY DEF Shop!TypeOK
  <2>2. claims'[i] = claims[i] + 1 BY <2>1 DEF Shop!Claim
  <2>3. claims[i] \in Nat /\ claims'[i] = claims[i] BY <2>1
  <2> QED BY <2>2, <2>3
<1> QED BY <1>1, <1>2, SameAssumption, Shop!OnlyClaimsReopen

LEMMA CallTypes ==
    ASSUME SlotInv, Shop!TypeOK, NEW i \in Items
    PROVE  /\ calls[i] \in Nat /\ claims[i] \in Nat
           /\ IsFiniteSet(Callers(i)) /\ Cardinality(Callers(i)) \in Nat
           /\ Handed(i) \in {0, 1}
           /\ status \in [Items -> Shop!Statuses \cup {"none"}]
           /\ task \in [Tasks -> Task] /\ Working
<1>1. Callers(i) \subseteq Tasks BY DEF Callers
<1> QED BY <1>1, TasksAreFinite
        DEF SlotInv, TypeOK, Task, Shop!TypeOK, Handed

\* Without a claim it is enough that the calls placed and still to be placed do not become
\* more, and that those behind their dispatch were let there by the queue.
LEMMA CallQuiet ==
    ASSUME SlotInv, Shop!TypeOK, CallInv, [Next]_vars, claims' = claims, NEW i \in Items,
           calls'[i] + Cardinality(Callers(i)') + Handed(i)'
               <= calls[i] + Cardinality(Callers(i)) + Handed(i),
           calls'[i] = calls[i]
               \/ \E t \in Tasks : task[t].item = i /\ task[t].at \in After,
           \A t \in Tasks : task'[t].item = i =>
               /\ claims[i] > 0
               /\ task'[t].at \in After => status'[i] \notin Open
    PROVE  Covered(i)' /\ Standing(i)'
<1>c. Covered(i) /\ Standing(i) BY DEF CallInv
<1>f. Shop!Forward(i) BY ShopGoesForward
<1>1. Covered(i)'
  <2> DEFINE x == calls'[i] + Cardinality(Callers(i)') + Handed(i)'
             y == calls[i] + Cardinality(Callers(i)) + Handed(i)
  <2>1. x <= y /\ y <= claims[i] BY <1>c DEF Covered
  <2>2. y \in Nat /\ claims[i] \in Nat BY CallTypes
  <2>3. x \in Int
    <3>1. Cardinality(Callers(i)') \in Nat BY TasksAreFinite DEF Callers
    <3>2. Handed(i)' \in Nat BY DEF Handed
    <3>3. SlotInv' BY SlotNext
    <3>4. calls'[i] \in Nat BY <3>3 DEF SlotInv, TypeOK
    <3> DEFINE a == calls'[i] b == Cardinality(Callers(i)') c == Handed(i)'
    <3>5. a \in Nat /\ b \in Nat /\ c \in Nat BY <3>1, <3>2, <3>4
    <3> HIDE DEF a, b, c
    <3>6. a + b + c \in Int BY <3>5
    <3> QED BY <3>6 DEF a, b, c
  <2> HIDE DEF x, y
  <2>4. x <= claims[i] BY <2>1, <2>2, <2>3
  <2> QED BY <2>4 DEF Covered, x
<1>2. Standing(i)'
  <2>1. status'[i] # "failed_retryable" BY <1>c, <1>f DEF Standing, Shop!Forward
  <2>2. claims'[i] > 0 => status'[i] \notin {"none", "eligible"}
    BY <1>c, <1>f DEF Standing, Shop!Forward
  <2>3. calls'[i] > 0 => status'[i] \notin Open
    <3>1. calls'[i] > 0 => status[i] \notin Open BY <1>c DEF Standing
    <3> QED BY <3>1, <1>f DEF Open, Shop!Forward
  <2> QED BY <2>1, <2>2, <2>3 DEF Standing
<1> QED BY <1>1, <1>2

\* Tasks that stay behind their dispatch stay where the queue let them go.
LEMMA BehindStays ==
    ASSUME SlotInv, Shop!TypeOK, CallInv, [Next]_vars, claims' = claims, NEW i \in Items,
           NEW t \in Tasks, task[t].item = i
    PROVE  /\ claims[i] > 0
           /\ task[t].at \in After => status'[i] \notin Open
<1>1. Standing(i) BY DEF CallInv
<1>2. Shop!Forward(i) BY ShopGoesForward
<1> QED BY <1>1, <1>2 DEF Standing, Open, Shop!Forward

\* A claim: the loop waits for its answer and holds nothing yet.
LEMMA CallClaim ==
    ASSUME SlotInv, Shop!TypeOK, CallInv, NEW j \in Items, ClaimItem(j), NEW i \in Items
    PROVE  Covered(i)' /\ Standing(i)'
<1>t. /\ calls[i] \in Nat /\ claims[i] \in Nat /\ Cardinality(Callers(i)) \in Nat
      /\ status \in [Items -> Shop!Statuses \cup {"none"}] /\ claims \in [Items -> Nat]
  BY CallTypes DEF Shop!TypeOK
<1>c. Covered(i) /\ Standing(i) BY DEF CallInv
<1>0. held = None /\ None \notin Items BY PollerAssumption DEF SlotInv, Working, ClaimItem
<1>1. UNCHANGED <<task, calls>> /\ held' = j BY DEF ClaimItem
<1>2. /\ status' = [status EXCEPT ![j] = "claimed"]
      /\ claims' = [claims EXCEPT ![j] = @ + 1]
      /\ status[j] \in {"eligible", "claimed", "failed_retryable"}
  BY DEF ClaimItem, Queue!Claim, Queue!Unlocked, Queue!Claimable
<1>3. Callers(i)' = Callers(i) BY <1>1 DEF Callers
<1>4. Covered(i)'
  <2> DEFINE n == Cardinality(Callers(i))
  <2>1. n \in Nat BY <1>t
  <2>2. calls[i] + n <= claims[i] BY <1>c, <1>t, <1>0 DEF Covered, Handed
  <2>3. Cardinality(Callers(i)') = n BY <1>3
  <2>4. calls'[i] = calls[i] BY <1>1
  <2> HIDE DEF n
  <2>5. CASE i = j
    <3>1. claims'[i] = claims[i] + 1 /\ Handed(i)' = 1 BY <2>5, <1>1, <1>2, <1>t DEF Handed
    <3>2. calls[i] + n + 1 <= claims[i] + 1 BY <2>1, <2>2, <1>t
    <3> QED BY <3>1, <3>2, <2>3, <2>4 DEF Covered
  <2>6. CASE i # j
    <3>1. claims'[i] = claims[i] /\ Handed(i)' = 0 BY <2>6, <1>1, <1>2, <1>t DEF Handed
    <3>2. calls[i] + n + 0 <= claims[i] BY <2>1, <2>2, <1>t
    <3> QED BY <3>1, <3>2, <2>3, <2>4 DEF Covered
  <2> QED BY <2>5, <2>6
<1>5. Standing(i)'
  <2>1. CASE i = j
    <3>1. status[i] \in Open BY <2>1, <1>2 DEF Open
    <3>2. ~(calls[i] > 0) BY <3>1, <1>c DEF Standing
    <3>3. \A t \in Tasks : task[t].item = i => task[t].at \notin After
      BY <3>1, <1>c DEF Standing
    <3>4. status'[i] = "claimed" /\ claims'[i] > 0 BY <2>1, <1>2, <1>t
    <3> QED BY <3>2, <3>3, <3>4, <1>1 DEF Standing
  <2>2. CASE i # j
    <3>1. status'[i] = status[i] /\ claims'[i] = claims[i] BY <2>2, <1>2, <1>t
    <3> QED BY <3>1, <1>1, <1>c DEF Standing
  <2> QED BY <2>1, <2>2
<1> QED BY <1>4, <1>5

\* An item that was handed out has a claim.
LEMMA HandedHasClaim ==
    ASSUME SlotInv, Shop!TypeOK, CallInv, NEW i \in Items, held = i
    PROVE  claims[i] > 0
<1> DEFINE n == Cardinality(Callers(i))
<1>1. calls[i] \in Nat /\ claims[i] \in Nat /\ n \in Nat BY CallTypes
<1>2. calls[i] + n + 1 <= claims[i] BY DEF CallInv, Covered, Handed
<1> HIDE DEF n
<1> QED BY <1>1, <1>2

\* A step of a task.
LEMMA CallTask ==
    ASSUME SlotInv, Shop!TypeOK, CallInv, NEW t \in Tasks, Step(t), NEW i \in Items
    PROVE  Covered(i)' /\ Standing(i)'
<1>n. [Next]_vars BY DEF Next
<1>t. /\ calls[i] \in Nat /\ calls \in [Items -> Nat] /\ IsFiniteSet(Callers(i))
      /\ Cardinality(Callers(i)) \in Nat
      /\ task \in [Tasks -> Task] /\ Handed(i) \in {0, 1}
      /\ status \in [Items -> Shop!Statuses \cup {"none"}]
  BY CallTypes DEF SlotInv, TypeOK
<1>s. /\ task[t].at # "idle" /\ task[t].item \in Items
      /\ UNCHANGED <<hours, loop, held, over>>
  BY StepShape, WorkHasItem
<1>0. None \notin Items BY PollerAssumption
<1>h. Handed(i)' = Handed(i) BY <1>s DEF Handed
<1>q. claims' = claims
  <2>1. ~\E j \in Items : ClaimItem(j)
    <3>1. ASSUME NEW j \in Items, ClaimItem(j) PROVE FALSE
      BY <3>1, <1>s, <1>0 DEF ClaimItem
    <3> QED BY <3>1
  <2> QED BY <2>1, <1>n, OnlyTheLoopClaims
<1>b. \A u \in Tasks : task[u].item = i =>
          claims[i] > 0 /\ (task[u].at \in After => status'[i] \notin Open)
  BY <1>n, <1>q, BehindStays
<1>m. ASSUME Callers(i)' \subseteq Callers(i)
      PROVE  Cardinality(Callers(i)') \in Nat
             /\ Cardinality(Callers(i)') <= Cardinality(Callers(i))
  BY <1>m, <1>t, FS_Subset, FS_CardinalityType
<1>1. CASE Release(t) /\ calls' = calls
  <2>1. task' = [task EXCEPT ![t] = Idle] /\ Idle \in Task BY <1>1 DEF Release, Idle, Task, Places
  <2>2. task'[t] = Idle /\ \A u \in Tasks : u # t => task'[u] = task[u]
    BY <2>1, <1>t, TaskChanges
  <2>3. Idle.at = "idle" /\ Idle.item # i BY <1>0 DEF Idle
  <2>4. Callers(i)' \subseteq Callers(i) BY <2>2, <2>3 DEF Callers
  <2>5. \A u \in Tasks : task'[u].item = i =>
            claims[i] > 0 /\ (task'[u].at \in After => status'[i] \notin Open)
    BY <2>2, <2>3, <1>b
  <2>6. calls'[i] + Cardinality(Callers(i)') + Handed(i)'
            <= calls[i] + Cardinality(Callers(i)) + Handed(i)
    <3> DEFINE n == Cardinality(Callers(i)) m == Cardinality(Callers(i)') h == Handed(i)
    <3>1. n \in Nat /\ m \in Nat /\ m <= n /\ h \in Nat /\ calls'[i] = calls[i]
      BY <1>m, <2>4, <1>t, <1>1
    <3> HIDE DEF n, m, h
    <3>2. calls[i] + m + h <= calls[i] + n + h BY <3>1, <1>t
    <3> QED BY <3>1, <3>2, <1>h DEF n, m, h
  <2> QED BY <2>5, <2>6, <1>1, <1>n, <1>q, CallQuiet
<1>2. ASSUME NEW at \in Places, GoesOn(t, at) PROVE Covered(i)' /\ Standing(i)'
  <2>1. /\ task'[t].at = at /\ task'[t].item = task[t].item
        /\ \A u \in Tasks : u # t => task'[u] = task[u]
    BY <1>2, <1>t, GotoChanges DEF GoesOn
  <2>2. Callers(i)' \subseteq Callers(i) BY <2>1, <1>2 DEF Callers, GoesOn
  <2>3. ASSUME Patch(t), task[t].item = i PROVE status'[i] \notin Open
    <3>1. CASE Queue!ReportStatus(i, "engagement_registered")
      BY <3>1, <1>t DEF Queue!ReportStatus, Queue!Move, Open
    <3>2. CASE status[i] # "claimed" /\ UNCHANGED shopVars
      <4>1. claims[i] > 0 /\ Standing(i) BY <1>b, <2>3 DEF CallInv
      <4> QED BY <3>2, <4>1 DEF Standing, Open, shopVars
    <3> QED BY <2>3, <3>1, <3>2 DEF Patch
  <2>4. \A u \in Tasks : task'[u].item = i =>
            claims[i] > 0 /\ (task'[u].at \in After => status'[i] \notin Open)
    BY <2>1, <2>3, <1>b, <1>2 DEF GoesOn
  <2>5. calls'[i] = calls[i] \/ \E u \in Tasks : task[u].item = i /\ task[u].at \in After
    BY <1>2, <1>t, <1>s DEF GoesOn, Called, After
  <2>6. calls'[i] + Cardinality(Callers(i)') + Handed(i)'
            <= calls[i] + Cardinality(Callers(i)) + Handed(i)
    <3> DEFINE n == Cardinality(Callers(i)) m == Cardinality(Callers(i)') h == Handed(i)
    <3>1. CASE calls'[i] = calls[i]
      <4>1. n \in Nat /\ m \in Nat /\ m <= n /\ h \in Nat BY <1>m, <2>2, <1>t
      <4> HIDE DEF n, m, h
      <4>2. calls[i] + m + h <= calls[i] + n + h BY <4>1, <1>t
      <4> QED BY <3>1, <4>2, <1>h DEF n, m, h
    <3>2. CASE /\ Called(t) /\ task[t].item = i
               /\ task[t].at = "dispatch" /\ at \notin Before
      <4>1. t \in Callers(i) BY <3>2 DEF Callers, Before
      <4>2. Callers(i)' = Callers(i) \ {t} BY <2>1, <3>2 DEF Callers
      <4>3. m = n - 1 BY <4>1, <4>2, <1>t, FS_RemoveElement
      <4>4. calls'[i] = calls[i] + 1 BY <3>2, <1>t DEF Called
      <4>5. n \in Nat /\ h \in Nat BY <1>t
      <4> HIDE DEF n, m, h
      <4>6. calls[i] + 1 + m + h <= calls[i] + n + h BY <4>3, <4>5, <1>t
      <4> QED BY <4>4, <4>6, <1>h DEF n, m, h
    <3>3. CASE Called(t) /\ task[t].item # i
      <4>1. calls'[i] = calls[i] BY <3>3, <1>t DEF Called
      <4> QED BY <3>1, <4>1
    <3> QED BY <1>2, <3>1, <3>2, <3>3 DEF GoesOn
  <2> QED BY <2>4, <2>5, <2>6, <1>n, <1>q, CallQuiet
<1> QED BY <1>1, <1>2, StepShape

\* A task takes over what the loop was handed.
LEMMA CallSpawn ==
    ASSUME SlotInv, Shop!TypeOK, CallInv, NEW t \in Tasks, Spawn(t), NEW i \in Items
    PROVE  Covered(i)' /\ Standing(i)'
<1>n. [Next]_vars BY DEF Next, Loop
<1>t. /\ calls[i] \in Nat /\ IsFiniteSet(Callers(i)) /\ Cardinality(Callers(i)) \in Nat
      /\ task \in [Tasks -> Task] /\ Handed(i) \in {0, 1}
  BY CallTypes
<1>0. held \in Items /\ None \notin Items
  BY PollerAssumption DEF SlotInv, TypeOK, Working, Spawn
<1>s. UNCHANGED <<shopVars, calls>> /\ held' = None /\ task[t] = Idle BY DEF Spawn
<1>q. claims' = claims BY <1>s DEF shopVars
<1>i. Idle.at = "idle" /\ Idle.item = None BY DEF Idle
<1>b. \A u \in Tasks : task[u].item = i =>
          claims[i] > 0 /\ (task[u].at \in After => status'[i] \notin Open)
  BY <1>n, <1>q, BehindStays
<1>h. Handed(i)' = 0 BY <1>0, <1>s DEF Handed
<1>1. CASE UNCHANGED task
  <2>1. Callers(i)' = Callers(i) BY <1>1 DEF Callers
  <2>2. calls'[i] + Cardinality(Callers(i)') + Handed(i)'
            <= calls[i] + Cardinality(Callers(i)) + Handed(i)
    <3> DEFINE n == Cardinality(Callers(i)) h == Handed(i)
    <3>1. n \in Nat /\ h \in Nat BY <1>t
    <3>2. calls'[i] = calls[i] /\ Cardinality(Callers(i)') = n BY <1>s, <2>1
    <3> HIDE DEF n, h
    <3>3. calls[i] + n + 0 <= calls[i] + n + h BY <3>1, <1>t
    <3> QED BY <3>2, <3>3, <1>h DEF n, h
  <2>3. \A u \in Tasks : task'[u].item = i =>
            claims[i] > 0 /\ (task'[u].at \in After => status'[i] \notin Open)
    BY <1>1, <1>b
  <2> QED BY <2>2, <2>3, <1>s, <1>n, <1>q, CallQuiet
<1>2. CASE task' = [task EXCEPT ![t] = [at |-> "prepare", item |-> held]]
  <2> DEFINE r == [at |-> "prepare", item |-> held]
  <2>1. r \in Task /\ r.at = "prepare" /\ r.item = held BY <1>0 DEF Task, Places
  <2>2. task' = [task EXCEPT ![t] = r] BY <1>2
  <2> HIDE DEF r
  <2>3. task'[t] = r /\ \A u \in Tasks : u # t => task'[u] = task[u]
    BY <2>1, <2>2, <1>t, TaskChanges
  <2>4. r.at \notin After BY <2>1 DEF After
  <2>5. \A u \in Tasks : task'[u].item = i =>
            claims[i] > 0 /\ (task'[u].at \in After => status'[i] \notin Open)
    BY <2>1, <2>3, <2>4, <1>b, HandedHasClaim
  <2>6. calls'[i] + Cardinality(Callers(i)') + Handed(i)'
            <= calls[i] + Cardinality(Callers(i)) + Handed(i)
    <3> DEFINE n == Cardinality(Callers(i)) m == Cardinality(Callers(i)') h == Handed(i)
    <3>0. n \in Nat /\ h \in Nat /\ calls'[i] = calls[i] BY <1>t, <1>s
    <3>1. CASE held = i
      <4>1. Callers(i)' = Callers(i) \cup {t} BY <2>1, <2>3, <3>1 DEF Callers, Before
      <4>2. t \notin Callers(i) BY <1>s, <1>i, <1>0 DEF Callers
      <4>3. m = n + 1 BY <4>1, <4>2, <1>t, FS_AddElement
      <4>4. h = 1 BY <3>1 DEF Handed
      <4> HIDE DEF n, m, h
      <4>5. calls[i] + m + 0 <= calls[i] + n + h BY <4>3, <4>4, <3>0, <1>t
      <4> QED BY <3>0, <4>5, <1>h DEF n, m, h
    <3>2. CASE held # i
      <4>1. Callers(i)' = Callers(i)
        BY <2>1, <2>3, <3>2, <1>s, <1>i, <1>0 DEF Callers
      <4>2. m = n BY <4>1
      <4> HIDE DEF n, m, h
      <4>3. calls[i] + m + 0 <= calls[i] + n + h BY <4>2, <3>0, <1>t
      <4> QED BY <3>0, <4>3, <1>h DEF n, m, h
    <3> QED BY <3>1, <3>2
  <2> QED BY <2>5, <2>6, <1>s, <1>n, <1>q, CallQuiet
<1> QED BY <1>1, <1>2 DEF Spawn

LEMMA CallNext ==
    SlotInv /\ Shop!TypeOK /\ CallInv /\ [Next]_vars => CallInv'
<1> SUFFICES ASSUME SlotInv, Shop!TypeOK, CallInv, [Next]_vars, NEW i \in Items
             PROVE  Covered(i)' /\ Standing(i)'
  BY DEF CallInv
<1>t. /\ calls[i] \in Nat /\ Cardinality(Callers(i)) \in Nat /\ Handed(i) \in {0, 1}
      /\ IsFiniteSet(Callers(i))
  BY CallTypes
<1>1. ASSUME NEW j \in Items, ClaimItem(j) PROVE Covered(i)' /\ Standing(i)'
  BY <1>1, CallClaim
<1>2. ASSUME NEW t \in Tasks, Spawn(t) PROVE Covered(i)' /\ Standing(i)'
  BY <1>2, CallSpawn
<1>3. ASSUME NEW t \in Tasks, Step(t) PROVE Covered(i)' /\ Standing(i)'
  BY <1>3, CallTask
\* Nobody takes on a call, and some may let theirs go.
<1>q. ASSUME calls' = calls, held' \in {held, None},
             \/ task' = task
             \/ task' = [t \in Tasks |-> Idle],
             \A j \in Items : ~ClaimItem(j)
      PROVE  Covered(i)' /\ Standing(i)'
  <2>0. Idle.at = "idle" /\ Idle.item # i BY PollerAssumption DEF Idle
  <2>1. claims' = claims BY <1>q, OnlyTheLoopClaims
  <2>2. Callers(i)' \subseteq Callers(i) BY <1>q, <2>0 DEF Callers, Before
  <2>3. Handed(i)' \in {0, Handed(i)}
    BY <1>q, PollerAssumption DEF Handed
  <2>4. calls'[i] + Cardinality(Callers(i)') + Handed(i)'
            <= calls[i] + Cardinality(Callers(i)) + Handed(i)
    <3> DEFINE n == Cardinality(Callers(i)) m == Cardinality(Callers(i)')
               h == Handed(i) k == Handed(i)'
    <3>1. n \in Nat /\ m \in Nat /\ m <= n /\ h \in Nat /\ k \in {0, h} /\ calls'[i] = calls[i]
      BY <1>q, <1>t, <2>2, <2>3, FS_Subset, FS_CardinalityType
    <3> HIDE DEF n, m, h, k
    <3>2. calls[i] + m + k <= calls[i] + n + h BY <3>1, <1>t
    <3> QED BY <3>1, <3>2 DEF n, m, h, k
  <2>5. \A u \in Tasks : task'[u].item = i =>
            claims[i] > 0 /\ (task'[u].at \in After => status'[i] \notin Open)
    <3> SUFFICES ASSUME NEW u \in Tasks, task'[u].item = i
                 PROVE  claims[i] > 0 /\ (task'[u].at \in After => status'[i] \notin Open)
      OBVIOUS
    <3>1. task' = task BY <1>q, <2>0
    <3> QED BY <3>1, <2>1, BehindStays
  <2> QED BY <2>1, <2>4, <2>5, <1>q, CallQuiet
<1>n. ASSUME loop # "claim" PROVE \A j \in Items : ~ClaimItem(j) BY <1>n DEF ClaimItem
<1>m. ASSUME loop' # "answer" PROVE \A j \in Items : ~ClaimItem(j) BY <1>m DEF ClaimItem
<1>4. CASE Gate \/ Acquire \/ ClaimNothing \/ ClaimRaises
  BY <1>4, <1>q, <1>m DEF Gate, Acquire, ClaimNothing, ClaimRaises
<1>5. CASE Stop \/ Restart BY <1>5, <1>q, <1>m DEF Stop, Restart
<1>o. ASSUME loop' = loop PROVE \A j \in Items : ~ClaimItem(j)
  BY <1>o DEF ClaimItem
<1>6. CASE ClockStrikes BY <1>6, <1>q, <1>o DEF ClockStrikes
<1>7. ASSUME NEW j \in Items, CallEnds(j) PROVE Covered(i)' /\ Standing(i)'
  BY <1>7, <1>q, <1>o DEF CallEnds
<1>8. CASE Elsewhere BY <1>8, <1>q, <1>o DEF Elsewhere, pollVars
<1>9. CASE UNCHANGED vars BY <1>9, <1>q, <1>o DEF vars, pollVars
<1> QED BY <1>1, <1>2, <1>3, <1>4, <1>5, <1>6, <1>7, <1>8, <1>9 DEF Next, Loop

LEMMA CallsAlways == Spec => []CallInv
<1>1. SlotInv /\ Shop!TypeOK /\ CallInv /\ [Next]_vars => CallInv' BY CallNext
<1> QED BY CallInit, <1>1, SlotsAlways, QueueTypes, PTL DEF Spec

\* However many tasks work on an item, for claims that ran out among them, it is called once
\* for each claim at most.
THEOREM CallsAreClaimedCorrect == Spec => []CallsAreClaimed
<1>1. SlotInv /\ Shop!TypeOK /\ CallInv => CallsAreClaimed
  <2> SUFFICES ASSUME SlotInv, Shop!TypeOK, CallInv, NEW i \in Items
               PROVE  calls[i] <= claims[i]
    BY DEF CallsAreClaimed
  <2> DEFINE n == Cardinality(Callers(i)) h == Handed(i)
  <2>1. calls[i] \in Nat /\ claims[i] \in Nat /\ n \in Nat /\ h \in Nat BY CallTypes
  <2>2. calls[i] + n + h <= claims[i] BY DEF CallInv, Covered
  <2> HIDE DEF n, h
  <2> QED BY <2>1, <2>2
<1> QED BY <1>1, CallsAlways, SlotsAlways, QueueTypes, PTL

\* A customer who was called is not handed to another attempt.
THEOREM CalledIsNotReclaimedCorrect == Spec => CalledIsNotReclaimed
<1>1. SlotInv /\ Shop!TypeOK /\ CallInv /\ [Next]_vars
        => [\A i \in Items : calls[i] > 0 => claims'[i] = claims[i]]_vars
  <2> SUFFICES ASSUME SlotInv, Shop!TypeOK, CallInv, [Next]_vars, NEW i \in Items, calls[i] > 0
               PROVE  claims'[i] = claims[i]
    OBVIOUS
  <2>1. status[i] \notin Open BY DEF CallInv, Standing
  <2>2. ASSUME NEW j \in Items, ClaimItem(j) PROVE claims'[i] = claims[i]
    <3>1. /\ status[j] \in {"eligible", "claimed", "failed_retryable"}
          /\ claims' = [claims EXCEPT ![j] = @ + 1]
      BY <2>2 DEF ClaimItem, Queue!Claim, Queue!Unlocked, Queue!Claimable
    <3>2. claims \in [Items -> Nat] BY DEF Shop!TypeOK
    <3> QED BY <2>1, <3>1, <3>2 DEF Open
  <2> QED BY <2>2, OnlyTheLoopClaims
<1> QED BY <1>1, CallsAlways, SlotsAlways, QueueTypes, PTL DEF Spec, CalledIsNotReclaimed
=============================================================================
