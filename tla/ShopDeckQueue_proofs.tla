------------------------- MODULE ShopDeckQueue_proofs -------------------------
(* What ShopDeckQueue guarantees for any number of items, engagements,        *)
(* results, contents and concurrent requests, and for any limits.             *)
EXTENDS ShopDeckQueue, TLAPS

\* What a request that waits at a statement has already established.
RequestOK(h) ==
    /\ req[h].at \in {"reg_active", "reg_item", "reg_insert", "reg_move",
                      "disp_move", "comp_stamp", "comp_move"} => req[h].e \in Engagements
    /\ req[h].at \in {"reg_active", "reg_item", "reg_insert", "reg_move"}
          => req[h].op = "register"
    /\ req[h].at = "reg_move" => req[h].e \in engs
    /\ req[h].at = "disp_move" => req[h].e \in callSid
    /\ req[h].at \in {"comp_stamp", "comp_move"} => req[h].e \in engs
    /\ req[h].at = "comp_move" => req[h].e \in completed \cup blanked
    /\ req[h].at \in {"int_engagement", "int_insert", "int_ready"}
          => /\ req[h].op = "submit"
             /\ req[h].r \in Results /\ req[h].c \in Contents
             /\ EngOf[req[h].r] \in engs
    /\ req[h].at = "int_ready" => intel[req[h].r] = req[h].c
    /\ req[h].op = "submit" /\ req[h].at = "done" /\ req[h].code \in {"200", "201"}
          => /\ req[h].r \in Results /\ req[h].c \in Contents
             /\ intel[req[h].r] = req[h].c
    /\ req[h].op = "register" /\ req[h].at = "done" /\ req[h].code \in {"200", "201"}
          => req[h].e \in Engagements /\ ActiveEngagements(ItemOf[req[h].e]) # {}

RequestInv == \A h \in Handlers : RequestOK(h)

IInv ==
    /\ TypeOK
    /\ RequestInv
    /\ StatusBackedByEvidence
    /\ ActionReadyHasResult
    /\ OneResultPerEngagement
    /\ SpentRetriesAreClosed

-----------------------------------------------------------------------------
LEMMA InitInv == Init => IInv
<1> SUFFICES ASSUME Init PROVE IInv
  OBVIOUS
<1> USE ConstantsAssumption DEF Init
<1>1. TypeOK BY DEF TypeOK, Free, Requests, Operations, Codes
<1>2. RequestInv BY DEF RequestInv, RequestOK, Free
<1>3. StatusBackedByEvidence /\ ActionReadyHasResult BY DEF StatusBackedByEvidence, ActionReadyHasResult
<1>4. OneResultPerEngagement BY DEF OneResultPerEngagement
<1>5. SpentRetriesAreClosed BY DEF SpentRetriesAreClosed
<1> QED BY <1>1, <1>2, <1>3, <1>4, <1>5 DEF IInv

\* A request moves on, is answered or ends, and stays a request.
LEMMA RequestTypes ==
    ASSUME req \in [Handlers -> Requests], NEW h \in Handlers
    PROVE /\ Finish(h) => req' \in [Handlers -> Requests]
          /\ \A at \in Statements : Goto(h, at) => req' \in [Handlers -> Requests]
          /\ \A code \in Codes : Answer(h, code) => req' \in [Handlers -> Requests]
          /\ \A op \in Operations, at \in Statements, e \in Engagements \cup {None},
                r \in Results \cup {None}, c \in Contents \cup {None} :
                Enter(h, op, at, e, r, c) => req' \in [Handlers -> Requests]
          /\ \A op \in Operations, code \in Codes, e \in Engagements \cup {None},
                r \in Results \cup {None}, c \in Contents \cup {None} :
                EnterAnswered(h, op, e, r, c, code) => req' \in [Handlers -> Requests]
<1> req[h] \in Requests OBVIOUS
<1> ASSUME NEW q \in Requests, req' = [req EXCEPT ![h] = q]
    PROVE req' \in [Handlers -> Requests]
  OBVIOUS
<1>1. ASSUME Finish(h) PROVE req' \in [Handlers -> Requests]
  <2>1. Free \in Requests BY DEF Free, Requests, Operations, Codes
  <2> QED BY <1>1, <2>1 DEF Finish
<1>2. ASSUME NEW at \in Statements, Goto(h, at) PROVE req' \in [Handlers -> Requests]
  <2>1. [req[h] EXCEPT !.at = at] \in Requests BY DEF Requests
  <2>2. req' = [req EXCEPT ![h] = [req[h] EXCEPT !.at = at]] BY <1>2 DEF Goto
  <2> QED BY <2>1, <2>2
<1>3. ASSUME NEW code \in Codes, Answer(h, code) PROVE req' \in [Handlers -> Requests]
  <2>1. [req[h] EXCEPT !.at = "done", !.code = code] \in Requests BY DEF Requests
  <2>2. req' = [req EXCEPT ![h] = [req[h] EXCEPT !.at = "done", !.code = code]]
    BY <1>3 DEF Answer
  <2> QED BY <2>1, <2>2
<1>4. ASSUME NEW op \in Operations, NEW at \in Statements,
             NEW e \in Engagements \cup {None}, NEW r \in Results \cup {None},
             NEW c \in Contents \cup {None}, Enter(h, op, at, e, r, c)
      PROVE req' \in [Handlers -> Requests]
  <2>1. Request(op, at, e, r, c, "none") \in Requests BY DEF Request, Requests, Codes
  <2> QED BY <1>4, <2>1 DEF Enter
<1>5. ASSUME NEW op \in Operations, NEW code \in Codes,
             NEW e \in Engagements \cup {None}, NEW r \in Results \cup {None},
             NEW c \in Contents \cup {None}, EnterAnswered(h, op, e, r, c, code)
      PROVE req' \in [Handlers -> Requests]
  <2>1. Request(op, "done", e, r, c, code) \in Requests BY DEF Request, Requests
  <2> QED BY <1>5, <2>1 DEF EnterAnswered
<1> QED BY <1>1, <1>2, <1>3, <1>4, <1>5

\* Every step keeps the types, whichever request makes it.
LEMMA NextType == TypeOK /\ RequestInv /\ [Next]_vars => TypeOK'
<1> SUFFICES ASSUME TypeOK, RequestInv, [Next]_vars PROVE TypeOK'
  OBVIOUS
<1> USE ConstantsAssumption, RequestTypes
        DEF TypeOK, Operations, Statements, Codes, Statuses, queueVars, engVars
<1>1. ASSUME NEW h \in Handlers, Serve(h) PROVE TypeOK'
  <2>1. CASE RegisterActive(h) BY <2>1 DEF RegisterActive, ActiveEngagements
  <2>2. CASE RegisterItem(h) BY <2>2 DEF RegisterItem
  <2>3. CASE RegisterInsert(h) BY <2>3 DEF RegisterInsert, RequestInv, RequestOK
  <2>4. CASE RegisterMove(h) BY <2>4 DEF RegisterMove, Move
  <2>5. CASE DispatchedMove(h) BY <2>5 DEF DispatchedMove, MoveOrRefuse, Move
  <2>6s. CASE CompletedStamp(h) BY <2>6s DEF CompletedStamp, RequestInv, RequestOK
  <2>6. CASE CompletedMove(h) BY <2>6 DEF CompletedMove, MoveOrRefuse, Move
  <2>7. CASE SubmitEngagement(h) BY <2>7 DEF SubmitEngagement
  <2>8. CASE SubmitInsert(h) BY <2>8 DEF SubmitInsert, ResultsOf, Requests
  <2>9. CASE SubmitReady(h)
    <3>1. status' \in [Items -> Statuses \cup {"none"}] BY <2>9 DEF SubmitReady
    <3>2. req' \in [Handlers -> Requests] BY <2>9 DEF SubmitReady
    <3>3. UNCHANGED <<rows, lease, claims, retries, engVars, intel>> BY <2>9 DEF SubmitReady
    <3> QED BY <3>1, <3>2, <3>3
  <2>10. CASE MarkTerminal(h) BY <2>10 DEF MarkTerminal
  <2>11. CASE Abort(h) BY <2>11 DEF Abort
  <2> QED BY <1>1, <2>1, <2>2, <2>3, <2>4, <2>5, <2>6s, <2>6, <2>7, <2>8, <2>9, <2>10, <2>11 DEF Serve
<1>2. ASSUME NEW h \in Handlers, Receive(h) PROVE TypeOK'
  <2>1. CASE Sync(h) BY <2>1 DEF Sync
  <2>1s. CASE ScheduledSync(h) BY <2>1s DEF ScheduledSync
  <2>2. ASSUME NEW e \in Engagements, Register(h, e) PROVE TypeOK'
    BY <2>2 DEF Register
  <2>3. ASSUME NEW e \in Engagements, ReportDispatched(h, e) PROVE TypeOK'
    BY <2>3 DEF ReportDispatched
  <2>4. ASSUME NEW e \in Engagements, ReportCompleted(h, e) PROVE TypeOK'
    BY <2>4 DEF ReportCompleted
  <2>5. ASSUME NEW i \in Items, NEW business \in BOOLEAN, ReportFailure(h, i, business)
        PROVE TypeOK'
    <3>1. retries[i] \in Nat /\ MaxRetries \in Nat OBVIOUS
    <3>2. (IF business /\ retries[i] < MaxRetries THEN retries[i] + 1 ELSE retries[i])
            \in 0..MaxRetries
      <4>1. CASE business BY <3>1, <4>1
      <4>2. CASE ~business BY <3>1, <4>2
      <4> QED BY <4>1, <4>2
    <3>3. retries' \in [Items -> 0..MaxRetries] BY <2>5, <3>2 DEF ReportFailure
    <3>4. status' \in [Items -> Statuses \cup {"none"}] BY <2>5 DEF ReportFailure
    <3>5. req' \in [Handlers -> Requests] BY <2>5 DEF ReportFailure
    <3>6. UNCHANGED <<rows, lease, claims, engVars, intel>> BY <2>5 DEF ReportFailure
    <3> QED BY <3>3, <3>4, <3>5, <3>6
  <2>6. ASSUME NEW r \in Results, NEW c \in Contents, Submit(h, r, c) PROVE TypeOK'
    BY <2>6 DEF Submit
  <2> QED BY <1>2, <2>1, <2>1s, <2>2, <2>3, <2>4, <2>5, <2>6 DEF Receive
<1>3. ASSUME NEW i \in Items, Claim(i) PROVE TypeOK'
  BY <1>3 DEF Claim, Unlocked, Claimable
<1>4. ASSUME NEW i \in Items, LeaseExpires(i) PROVE TypeOK'
  BY <1>4 DEF LeaseExpires
<1>5. ASSUME NEW i \in Items, NEW s \in {"pending", "other", "terminal"}, SourceRow(i, s)
      PROVE TypeOK'
  BY <1>5 DEF SourceRow
<1>6. ASSUME NEW i \in Items, NEW new \in Statuses, ReportStatus(i, new) PROVE TypeOK'
  BY <1>6 DEF ReportStatus, Move
<1>7. CASE ClaimNothing BY <1>7 DEF ClaimNothing
<1>8. CASE UNCHANGED vars BY <1>8 DEF vars
<1> QED BY <1>1, <1>2, <1>3, <1>4, <1>5, <1>6, <1>7, <1>8 DEF Next

\* What a request has established is not undone by the others.
LEMMA NextRequest == TypeOK /\ RequestInv /\ [Next]_vars => RequestInv'
<1> SUFFICES ASSUME TypeOK, RequestInv, [Next]_vars, NEW k \in Handlers
             PROVE RequestOK(k)'
  BY DEF RequestInv
<1> USE ConstantsAssumption
    DEF TypeOK, RequestInv, RequestOK, ActiveEngagements, Requests, Operations,
        Statements, Codes, Request, Free, Enter, EnterAnswered, Goto, Answer, Finish,
        Statuses, queueVars, engVars
<1>1. ASSUME NEW h \in Handlers, Serve(h) PROVE RequestOK(k)'
  <2>1. CASE RegisterActive(h) BY <2>1 DEF RegisterActive, ActiveEngagements
  <2>2. CASE RegisterItem(h)
    <3>1. CASE k = h BY <2>2, <3>1 DEF RegisterItem
    <3>2. CASE k # h BY <2>2, <3>2 DEF RegisterItem
    <3> QED BY <3>1, <3>2
  <2>3. CASE RegisterInsert(h)
    <3>1. CASE k = h BY <2>3, <3>1 DEF RegisterInsert
    <3>2. CASE k # h BY <2>3, <3>2 DEF RegisterInsert
    <3> QED BY <3>1, <3>2
  <2>4. CASE RegisterMove(h) BY <2>4 DEF RegisterMove, Move
  <2>5. CASE DispatchedMove(h)
    <3>1. CASE k = h BY <2>5, <3>1 DEF DispatchedMove, MoveOrRefuse, Move
    <3>2. CASE k # h BY <2>5, <3>2 DEF DispatchedMove, MoveOrRefuse, Move
    <3> QED BY <3>1, <3>2
  <2>6s. CASE CompletedStamp(h)
    <3>1. CASE k = h BY <2>6s, <3>1 DEF CompletedStamp
    <3>2. CASE k # h BY <2>6s, <3>2 DEF CompletedStamp
    <3> QED BY <3>1, <3>2
  <2>6. CASE CompletedMove(h)
    <3>1. CASE k = h BY <2>6, <3>1 DEF CompletedMove, MoveOrRefuse, Move
    <3>2. CASE k # h BY <2>6, <3>2 DEF CompletedMove, MoveOrRefuse, Move
    <3> QED BY <3>1, <3>2
  <2>7. CASE SubmitEngagement(h)
    <3>1. CASE k = h BY <2>7, <3>1 DEF SubmitEngagement
    <3>2. CASE k # h BY <2>7, <3>2 DEF SubmitEngagement
    <3> QED BY <3>1, <3>2
  <2>8. CASE SubmitInsert(h)
    <3>1. CASE k = h BY <2>8, <3>1 DEF SubmitInsert, ResultsOf
    <3>2. CASE k # h BY <2>8, <3>2 DEF SubmitInsert, ResultsOf
    <3> QED BY <3>1, <3>2
  <2>9. CASE SubmitReady(h) BY <2>9 DEF SubmitReady
  <2>10. CASE MarkTerminal(h) BY <2>10 DEF MarkTerminal
  <2>11. CASE Abort(h) BY <2>11 DEF Abort
  <2> QED BY <1>1, <2>1, <2>2, <2>3, <2>4, <2>5, <2>6s, <2>6, <2>7, <2>8, <2>9, <2>10, <2>11 DEF Serve
<1>2. ASSUME NEW h \in Handlers, Receive(h) PROVE RequestOK(k)'
  <2>1. CASE Sync(h)
    <3>1. CASE k = h BY <2>1, <3>1 DEF Sync
    <3>2. CASE k # h BY <2>1, <3>2 DEF Sync
    <3> QED BY <3>1, <3>2
  <2>1s. CASE ScheduledSync(h)
    <3>1. CASE k = h BY <2>1s, <3>1 DEF ScheduledSync
    <3>2. CASE k # h BY <2>1s, <3>2 DEF ScheduledSync
    <3> QED BY <3>1, <3>2
  <2>2. ASSUME NEW e \in Engagements, Register(h, e) PROVE RequestOK(k)'
    <3>1. CASE k = h BY <2>2, <3>1 DEF Register
    <3>2. CASE k # h BY <2>2, <3>2 DEF Register
    <3> QED BY <3>1, <3>2
  <2>3. ASSUME NEW e \in Engagements, ReportDispatched(h, e) PROVE RequestOK(k)'
    <3>1. CASE k = h BY <2>3, <3>1 DEF ReportDispatched
    <3>2. CASE k # h BY <2>3, <3>2 DEF ReportDispatched
    <3> QED BY <3>1, <3>2
  <2>4. ASSUME NEW e \in Engagements, ReportCompleted(h, e) PROVE RequestOK(k)'
    <3>1. CASE k = h BY <2>4, <3>1 DEF ReportCompleted
    <3>2. CASE k # h BY <2>4, <3>2 DEF ReportCompleted
    <3> QED BY <3>1, <3>2
  <2>5. ASSUME NEW i \in Items, NEW business \in BOOLEAN, ReportFailure(h, i, business)
        PROVE RequestOK(k)'
    <3>1. CASE k = h BY <2>5, <3>1 DEF ReportFailure
    <3>2. CASE k # h BY <2>5, <3>2 DEF ReportFailure
    <3> QED BY <3>1, <3>2
  <2>6. ASSUME NEW r \in Results, NEW c \in Contents, Submit(h, r, c) PROVE RequestOK(k)'
    <3>1. CASE k = h BY <2>6, <3>1 DEF Submit
    <3>2. CASE k # h BY <2>6, <3>2 DEF Submit
    <3> QED BY <3>1, <3>2
  <2> QED BY <1>2, <2>1, <2>1s, <2>2, <2>3, <2>4, <2>5, <2>6 DEF Receive
<1>3. ASSUME NEW i \in Items, Claim(i) PROVE RequestOK(k)'
  BY <1>3 DEF Claim, Unlocked, Claimable
<1>4. ASSUME NEW i \in Items, LeaseExpires(i) PROVE RequestOK(k)'
  BY <1>4 DEF LeaseExpires
<1>5. ASSUME NEW i \in Items, NEW s \in {"pending", "other", "terminal"}, SourceRow(i, s)
      PROVE RequestOK(k)'
  BY <1>5 DEF SourceRow
<1>6. ASSUME NEW i \in Items, NEW new \in Statuses, ReportStatus(i, new) PROVE RequestOK(k)'
  BY <1>6 DEF ReportStatus, Move
<1>7. CASE ClaimNothing BY <1>7 DEF ClaimNothing
<1>8. CASE UNCHANGED vars BY <1>8 DEF vars
<1> QED BY <1>1, <1>2, <1>3, <1>4, <1>5, <1>6, <1>7, <1>8 DEF Next

\* No step moves an item past the evidence that is stored for it.
EvidenceOK(i) ==
    /\ status[i] \in {"engagement_registered", "call_dispatched", "call_completed",
                      "intelligence_pending"} => EngagementsOf(engs, i) # {}
    /\ status[i] \in {"call_dispatched", "call_completed", "intelligence_pending"}
          => EngagementsOf(callSid, i) # {}
    /\ status[i] \in {"call_completed", "intelligence_pending"}
          => EngagementsOf(completed \cup blanked, i) # {}

LEMMA NextEvidence == IInv /\ [Next]_vars => StatusBackedByEvidence'
<1> SUFFICES ASSUME IInv, [Next]_vars, NEW k \in Items
             PROVE EvidenceOK(k)'
  BY DEF StatusBackedByEvidence, EvidenceOK
<1> USE ConstantsAssumption
    DEF IInv, TypeOK, RequestInv, RequestOK, Requests, Operations, Statements, Codes,
        Request, Free, Enter, EnterAnswered, Goto, Answer, Finish, Statuses, Closed,
        queueVars, engVars, StatusBackedByEvidence, EvidenceOK, EngagementsOf,
        AllowedFrom, ActiveEngagements
<1>1. ASSUME NEW h \in Handlers, Serve(h) PROVE EvidenceOK(k)'
  <2>1. CASE RegisterActive(h) BY <2>1 DEF RegisterActive, ActiveEngagements
  <2>2. CASE RegisterItem(h) BY <2>2 DEF RegisterItem
  <2>3. CASE RegisterInsert(h) BY <2>3 DEF RegisterInsert
  <2>4. CASE RegisterMove(h) BY <2>4 DEF RegisterMove, Move
  <2>5. CASE DispatchedMove(h) BY <2>5 DEF DispatchedMove, MoveOrRefuse, Move
  <2>6s. CASE CompletedStamp(h) BY <2>6s DEF CompletedStamp
  <2>6. CASE CompletedMove(h) BY <2>6 DEF CompletedMove, MoveOrRefuse, Move
  <2>7. CASE SubmitEngagement(h) BY <2>7 DEF SubmitEngagement
  <2>8. CASE SubmitInsert(h) BY <2>8 DEF SubmitInsert, ResultsOf
  <2>9. CASE SubmitReady(h) BY <2>9 DEF SubmitReady
  <2>10. CASE MarkTerminal(h) BY <2>10 DEF MarkTerminal
  <2>11. CASE Abort(h) BY <2>11 DEF Abort
  <2> QED BY <1>1, <2>1, <2>2, <2>3, <2>4, <2>5, <2>6s, <2>6, <2>7, <2>8, <2>9, <2>10, <2>11 DEF Serve
<1>2. ASSUME NEW h \in Handlers, Receive(h) PROVE EvidenceOK(k)'
  <2>1. CASE Sync(h) BY <2>1 DEF Sync
  <2>1s. CASE ScheduledSync(h) BY <2>1s DEF ScheduledSync
  <2>2. ASSUME NEW e \in Engagements, Register(h, e) PROVE EvidenceOK(k)'
    BY <2>2 DEF Register
  <2>3. ASSUME NEW e \in Engagements, ReportDispatched(h, e) PROVE EvidenceOK(k)'
    BY <2>3 DEF ReportDispatched
  <2>4. ASSUME NEW e \in Engagements, ReportCompleted(h, e) PROVE EvidenceOK(k)'
    BY <2>4 DEF ReportCompleted
  <2>5. ASSUME NEW i \in Items, NEW business \in BOOLEAN, ReportFailure(h, i, business)
        PROVE EvidenceOK(k)'
    BY <2>5 DEF ReportFailure
  <2>6. ASSUME NEW r \in Results, NEW c \in Contents, Submit(h, r, c) PROVE EvidenceOK(k)'
    BY <2>6 DEF Submit
  <2> QED BY <1>2, <2>1, <2>1s, <2>2, <2>3, <2>4, <2>5, <2>6 DEF Receive
<1>3. ASSUME NEW i \in Items, Claim(i) PROVE EvidenceOK(k)'
  BY <1>3 DEF Claim, Unlocked, Claimable
<1>4. ASSUME NEW i \in Items, LeaseExpires(i) PROVE EvidenceOK(k)'
  BY <1>4 DEF LeaseExpires
<1>5. ASSUME NEW i \in Items, NEW s \in {"pending", "other", "terminal"}, SourceRow(i, s)
      PROVE EvidenceOK(k)'
  BY <1>5 DEF SourceRow
<1>6. ASSUME NEW i \in Items, NEW new \in Statuses, ReportStatus(i, new) PROVE EvidenceOK(k)'
  BY <1>6 DEF ReportStatus, Move
<1>7. CASE ClaimNothing BY <1>7 DEF ClaimNothing
<1>8. CASE UNCHANGED vars BY <1>8 DEF vars
<1> QED BY <1>1, <1>2, <1>3, <1>4, <1>5, <1>6, <1>7, <1>8 DEF Next

\* No step closes an item as answered without a stored result.
LEMMA NextActionReady == IInv /\ [Next]_vars => ActionReadyHasResult'
<1> SUFFICES ASSUME IInv, [Next]_vars, NEW k \in Items, status'[k] = "action_ready"
             PROVE \E q \in Results : intel'[q] # None /\ EngOf[q] \in engs' /\ ItemOf[EngOf[q]] = k
  BY DEF ActionReadyHasResult
<1> USE ConstantsAssumption
    DEF IInv, TypeOK, RequestInv, RequestOK, Requests, Operations, Statements, Codes,
        Request, Free, Enter, EnterAnswered, Goto, Answer, Finish, Statuses, Closed,
        queueVars, engVars, ActionReadyHasResult, AllowedFrom, ResultsOf
<1>1. ASSUME NEW h \in Handlers, Serve(h) PROVE \E q \in Results : intel'[q] # None /\ EngOf[q] \in engs' /\ ItemOf[EngOf[q]] = k
  <2>1. CASE RegisterActive(h) BY <2>1 DEF RegisterActive, ActiveEngagements
  <2>2. CASE RegisterItem(h) BY <2>2 DEF RegisterItem
  <2>3. CASE RegisterInsert(h) BY <2>3 DEF RegisterInsert
  <2>4. CASE RegisterMove(h) BY <2>4 DEF RegisterMove, Move
  <2>5. CASE DispatchedMove(h) BY <2>5 DEF DispatchedMove, MoveOrRefuse, Move
  <2>6s. CASE CompletedStamp(h) BY <2>6s DEF CompletedStamp
  <2>6. CASE CompletedMove(h) BY <2>6 DEF CompletedMove, MoveOrRefuse, Move
  <2>7. CASE SubmitEngagement(h) BY <2>7 DEF SubmitEngagement
  <2>8. CASE SubmitInsert(h) BY <2>8 DEF SubmitInsert, ResultsOf
  <2>9. CASE SubmitReady(h) BY <2>9 DEF SubmitReady
  <2>10. CASE MarkTerminal(h) BY <2>10 DEF MarkTerminal
  <2>11. CASE Abort(h) BY <2>11 DEF Abort
  <2> QED BY <1>1, <2>1, <2>2, <2>3, <2>4, <2>5, <2>6s, <2>6, <2>7, <2>8, <2>9, <2>10, <2>11 DEF Serve
<1>2. ASSUME NEW h \in Handlers, Receive(h) PROVE \E q \in Results : intel'[q] # None /\ EngOf[q] \in engs' /\ ItemOf[EngOf[q]] = k
  <2>1. CASE Sync(h) BY <2>1 DEF Sync
  <2>1s. CASE ScheduledSync(h) BY <2>1s DEF ScheduledSync
  <2>2. ASSUME NEW e \in Engagements, Register(h, e) PROVE \E q \in Results : intel'[q] # None /\ EngOf[q] \in engs' /\ ItemOf[EngOf[q]] = k
    BY <2>2 DEF Register
  <2>3. ASSUME NEW e \in Engagements, ReportDispatched(h, e) PROVE \E q \in Results : intel'[q] # None /\ EngOf[q] \in engs' /\ ItemOf[EngOf[q]] = k
    BY <2>3 DEF ReportDispatched
  <2>4. ASSUME NEW e \in Engagements, ReportCompleted(h, e) PROVE \E q \in Results : intel'[q] # None /\ EngOf[q] \in engs' /\ ItemOf[EngOf[q]] = k
    BY <2>4 DEF ReportCompleted
  <2>5. ASSUME NEW i \in Items, NEW business \in BOOLEAN, ReportFailure(h, i, business)
        PROVE \E q \in Results : intel'[q] # None /\ EngOf[q] \in engs' /\ ItemOf[EngOf[q]] = k
    BY <2>5 DEF ReportFailure
  <2>6. ASSUME NEW r \in Results, NEW c \in Contents, Submit(h, r, c) PROVE \E q \in Results : intel'[q] # None /\ EngOf[q] \in engs' /\ ItemOf[EngOf[q]] = k
    BY <2>6 DEF Submit
  <2> QED BY <1>2, <2>1, <2>1s, <2>2, <2>3, <2>4, <2>5, <2>6 DEF Receive
<1>3. ASSUME NEW i \in Items, Claim(i) PROVE \E q \in Results : intel'[q] # None /\ EngOf[q] \in engs' /\ ItemOf[EngOf[q]] = k
  BY <1>3 DEF Claim, Unlocked, Claimable
<1>4. ASSUME NEW i \in Items, LeaseExpires(i) PROVE \E q \in Results : intel'[q] # None /\ EngOf[q] \in engs' /\ ItemOf[EngOf[q]] = k
  BY <1>4 DEF LeaseExpires
<1>5. ASSUME NEW i \in Items, NEW s \in {"pending", "other", "terminal"}, SourceRow(i, s)
      PROVE \E q \in Results : intel'[q] # None /\ EngOf[q] \in engs' /\ ItemOf[EngOf[q]] = k
  BY <1>5 DEF SourceRow
<1>6. ASSUME NEW i \in Items, NEW new \in Statuses, ReportStatus(i, new) PROVE \E q \in Results : intel'[q] # None /\ EngOf[q] \in engs' /\ ItemOf[EngOf[q]] = k
  BY <1>6 DEF ReportStatus, Move
<1>7. CASE ClaimNothing BY <1>7 DEF ClaimNothing
<1>8. CASE UNCHANGED vars BY <1>8 DEF vars
<1> QED BY <1>1, <1>2, <1>3, <1>4, <1>5, <1>6, <1>7, <1>8 DEF Next

\* No step stores a second result of an engagement.
LEMMA NextOneResult == IInv /\ [Next]_vars => OneResultPerEngagement'
<1> SUFFICES ASSUME IInv, [Next]_vars
             PROVE OneResultPerEngagement'
  OBVIOUS
<1> USE ConstantsAssumption
    DEF IInv, TypeOK, RequestInv, RequestOK, Requests, Operations, Statements, Codes,
        Request, Free, Enter, EnterAnswered, Goto, Answer, Finish, Statuses, Closed,
        queueVars, engVars, OneResultPerEngagement, ResultsOf
<1>1. ASSUME NEW h \in Handlers, Serve(h) PROVE OneResultPerEngagement'
  <2>1. CASE RegisterActive(h) BY <2>1 DEF RegisterActive, ActiveEngagements
  <2>2. CASE RegisterItem(h) BY <2>2 DEF RegisterItem
  <2>3. CASE RegisterInsert(h) BY <2>3 DEF RegisterInsert
  <2>4. CASE RegisterMove(h) BY <2>4 DEF RegisterMove, Move
  <2>5. CASE DispatchedMove(h) BY <2>5 DEF DispatchedMove, MoveOrRefuse, Move
  <2>6s. CASE CompletedStamp(h) BY <2>6s DEF CompletedStamp
  <2>6. CASE CompletedMove(h) BY <2>6 DEF CompletedMove, MoveOrRefuse, Move
  <2>7. CASE SubmitEngagement(h) BY <2>7 DEF SubmitEngagement
  <2>8. CASE SubmitInsert(h) BY <2>8 DEF SubmitInsert, ResultsOf
  <2>9. CASE SubmitReady(h) BY <2>9 DEF SubmitReady
  <2>10. CASE MarkTerminal(h) BY <2>10 DEF MarkTerminal
  <2>11. CASE Abort(h) BY <2>11 DEF Abort
  <2> QED BY <1>1, <2>1, <2>2, <2>3, <2>4, <2>5, <2>6s, <2>6, <2>7, <2>8, <2>9, <2>10, <2>11 DEF Serve
<1>2. ASSUME NEW h \in Handlers, Receive(h) PROVE OneResultPerEngagement'
  <2>1. CASE Sync(h) BY <2>1 DEF Sync
  <2>1s. CASE ScheduledSync(h) BY <2>1s DEF ScheduledSync
  <2>2. ASSUME NEW e \in Engagements, Register(h, e) PROVE OneResultPerEngagement'
    BY <2>2 DEF Register
  <2>3. ASSUME NEW e \in Engagements, ReportDispatched(h, e) PROVE OneResultPerEngagement'
    BY <2>3 DEF ReportDispatched
  <2>4. ASSUME NEW e \in Engagements, ReportCompleted(h, e) PROVE OneResultPerEngagement'
    BY <2>4 DEF ReportCompleted
  <2>5. ASSUME NEW i \in Items, NEW business \in BOOLEAN, ReportFailure(h, i, business)
        PROVE OneResultPerEngagement'
    BY <2>5 DEF ReportFailure
  <2>6. ASSUME NEW r \in Results, NEW c \in Contents, Submit(h, r, c) PROVE OneResultPerEngagement'
    BY <2>6 DEF Submit
  <2> QED BY <1>2, <2>1, <2>1s, <2>2, <2>3, <2>4, <2>5, <2>6 DEF Receive
<1>3. ASSUME NEW i \in Items, Claim(i) PROVE OneResultPerEngagement'
  BY <1>3 DEF Claim, Unlocked, Claimable
<1>4. ASSUME NEW i \in Items, LeaseExpires(i) PROVE OneResultPerEngagement'
  BY <1>4 DEF LeaseExpires
<1>5. ASSUME NEW i \in Items, NEW s \in {"pending", "other", "terminal"}, SourceRow(i, s)
      PROVE OneResultPerEngagement'
  BY <1>5 DEF SourceRow
<1>6. ASSUME NEW i \in Items, NEW new \in Statuses, ReportStatus(i, new) PROVE OneResultPerEngagement'
  BY <1>6 DEF ReportStatus, Move
<1>7. CASE ClaimNothing BY <1>7 DEF ClaimNothing
<1>8. CASE UNCHANGED vars BY <1>8 DEF vars
<1> QED BY <1>1, <1>2, <1>3, <1>4, <1>5, <1>6, <1>7, <1>8 DEF Next

\* No step spends the retry budget of an open item, or opens a spent one.
LEMMA NextSpent == IInv /\ [Next]_vars => SpentRetriesAreClosed'
<1> SUFFICES ASSUME IInv, [Next]_vars, NEW k \in Items
             PROVE retries'[k] >= MaxRetries => status'[k] \in Closed
  BY DEF SpentRetriesAreClosed
<1> USE ConstantsAssumption
    DEF IInv, TypeOK, RequestInv, RequestOK, Requests, Operations, Statements, Codes,
        Request, Free, Enter, EnterAnswered, Goto, Answer, Finish, Statuses, Closed,
        queueVars, engVars, SpentRetriesAreClosed, AllowedFrom, FailureIsFinal
<1>1. ASSUME NEW h \in Handlers, Serve(h) PROVE retries'[k] >= MaxRetries => status'[k] \in Closed
  <2>1. CASE RegisterActive(h) BY <2>1 DEF RegisterActive, ActiveEngagements
  <2>2. CASE RegisterItem(h) BY <2>2 DEF RegisterItem
  <2>3. CASE RegisterInsert(h) BY <2>3 DEF RegisterInsert
  <2>4. CASE RegisterMove(h) BY <2>4 DEF RegisterMove, Move
  <2>5. CASE DispatchedMove(h) BY <2>5 DEF DispatchedMove, MoveOrRefuse, Move
  <2>6s. CASE CompletedStamp(h) BY <2>6s DEF CompletedStamp
  <2>6. CASE CompletedMove(h) BY <2>6 DEF CompletedMove, MoveOrRefuse, Move
  <2>7. CASE SubmitEngagement(h) BY <2>7 DEF SubmitEngagement
  <2>8. CASE SubmitInsert(h) BY <2>8 DEF SubmitInsert, ResultsOf
  <2>9. CASE SubmitReady(h) BY <2>9 DEF SubmitReady
  <2>10. CASE MarkTerminal(h) BY <2>10 DEF MarkTerminal
  <2>11. CASE Abort(h) BY <2>11 DEF Abort
  <2> QED BY <1>1, <2>1, <2>2, <2>3, <2>4, <2>5, <2>6s, <2>6, <2>7, <2>8, <2>9, <2>10, <2>11 DEF Serve
<1>2. ASSUME NEW h \in Handlers, Receive(h) PROVE retries'[k] >= MaxRetries => status'[k] \in Closed
  <2>1. CASE Sync(h) BY <2>1 DEF Sync
  <2>1s. CASE ScheduledSync(h) BY <2>1s DEF ScheduledSync
  <2>2. ASSUME NEW e \in Engagements, Register(h, e) PROVE retries'[k] >= MaxRetries => status'[k] \in Closed
    BY <2>2 DEF Register
  <2>3. ASSUME NEW e \in Engagements, ReportDispatched(h, e) PROVE retries'[k] >= MaxRetries => status'[k] \in Closed
    BY <2>3 DEF ReportDispatched
  <2>4. ASSUME NEW e \in Engagements, ReportCompleted(h, e) PROVE retries'[k] >= MaxRetries => status'[k] \in Closed
    BY <2>4 DEF ReportCompleted
  <2>5. ASSUME NEW i \in Items, NEW business \in BOOLEAN, ReportFailure(h, i, business)
        PROVE retries'[k] >= MaxRetries => status'[k] \in Closed
    BY <2>5 DEF ReportFailure
  <2>6. ASSUME NEW r \in Results, NEW c \in Contents, Submit(h, r, c) PROVE retries'[k] >= MaxRetries => status'[k] \in Closed
    BY <2>6 DEF Submit
  <2> QED BY <1>2, <2>1, <2>1s, <2>2, <2>3, <2>4, <2>5, <2>6 DEF Receive
<1>3. ASSUME NEW i \in Items, Claim(i) PROVE retries'[k] >= MaxRetries => status'[k] \in Closed
  BY <1>3 DEF Claim, Unlocked, Claimable
<1>4. ASSUME NEW i \in Items, LeaseExpires(i) PROVE retries'[k] >= MaxRetries => status'[k] \in Closed
  BY <1>4 DEF LeaseExpires
<1>5. ASSUME NEW i \in Items, NEW s \in {"pending", "other", "terminal"}, SourceRow(i, s)
      PROVE retries'[k] >= MaxRetries => status'[k] \in Closed
  BY <1>5 DEF SourceRow
<1>6. ASSUME NEW i \in Items, NEW new \in Statuses, ReportStatus(i, new) PROVE retries'[k] >= MaxRetries => status'[k] \in Closed
  BY <1>6 DEF ReportStatus, Move
<1>7. CASE ClaimNothing BY <1>7 DEF ClaimNothing
<1>8. CASE UNCHANGED vars BY <1>8 DEF vars
<1> QED BY <1>1, <1>2, <1>3, <1>4, <1>5, <1>6, <1>7, <1>8 DEF Next

-----------------------------------------------------------------------------
THEOREM Invariance == Spec => []IInv
<1>1. Init => IInv BY InitInv
<1>2. IInv /\ [Next]_vars => IInv'
  <2> SUFFICES ASSUME IInv, [Next]_vars PROVE IInv'
    OBVIOUS
  <2>1. TypeOK' BY NextType DEF IInv
  <2>2. RequestInv' BY NextRequest DEF IInv
  <2>3. StatusBackedByEvidence' BY NextEvidence
  <2>4. ActionReadyHasResult' BY NextActionReady
  <2>5. OneResultPerEngagement' BY NextOneResult
  <2>6. SpentRetriesAreClosed' BY NextSpent
  <2> QED BY <2>1, <2>2, <2>3, <2>4, <2>5, <2>6 DEF IInv
<1> QED BY <1>1, <1>2, PTL DEF Spec

\* The tables and the requests hold values of their types, for all constants.
THEOREM TypeCorrect == Spec => []TypeOK
<1>1. IInv => TypeOK BY DEF IInv
<1> QED BY <1>1, Invariance, PTL

\* The status of an item never runs ahead of the rows that other statements of
\* update_queue_status and register_engagement write.
THEOREM EvidenceCorrect == Spec => []StatusBackedByEvidence
<1>1. IInv => StatusBackedByEvidence BY DEF IInv
<1> QED BY <1>1, Invariance, PTL

\* What the morning review shows as ready has a stored result behind it.
THEOREM ReadyCorrect == Spec => []ActionReadyHasResult
<1>1. IInv => ActionReadyHasResult BY DEF IInv
<1> QED BY <1>1, Invariance, PTL

\* Submissions that race for an engagement store one result.
THEOREM OneResultCorrect == Spec => []OneResultPerEngagement
<1>1. IInv => OneResultPerEngagement BY DEF IInv
<1> QED BY <1>1, Invariance, PTL

\* What persist_intelligence_result acknowledged is stored, and stays so.
THEOREM AckedResultCorrect == Spec => []AckedResultIsStored
<1>1. IInv => AckedResultIsStored
  BY DEF IInv, RequestInv, RequestOK, AckedResultIsStored
<1> QED BY <1>1, Invariance, PTL

\* What register_engagement acknowledged has an engagement row behind it.
THEOREM AckedRegistrationCorrect == Spec => []AckedRegistrationIsStored
<1>1. IInv => AckedRegistrationIsStored
  BY DEF IInv, RequestInv, RequestOK, AckedRegistrationIsStored
<1> QED BY <1>1, Invariance, PTL

\* An item whose retry budget is spent is closed.
THEOREM RetryBudgetCorrect == Spec => []SpentRetriesAreClosed
<1>1. IInv => SpentRetriesAreClosed BY DEF IInv
<1> QED BY <1>1, Invariance, PTL

-----------------------------------------------------------------------------
\* A closed item is never reopened, by no claim, report, registration or sync.
THEOREM ClosedForGood == Spec => ClosedStaysClosed
<1>1. IInv /\ [Next]_vars
        => [\A i \in Items : status[i] \in Closed => status'[i] \in Closed]_vars
  <2> SUFFICES ASSUME IInv, [Next]_vars, NEW k \in Items, status[k] \in Closed
               PROVE status'[k] \in Closed
    OBVIOUS
  <2> USE ConstantsAssumption
      DEF IInv, TypeOK, RequestInv, RequestOK, Requests, Operations, Statements,
          Codes, Request, Free, Enter, EnterAnswered, Goto, Answer, Finish, Statuses,
          Closed, queueVars, engVars, AllowedFrom
  <2>1. ASSUME NEW h \in Handlers, Serve(h) PROVE status'[k] \in Closed
    <3>1. CASE RegisterActive(h) BY <3>1 DEF RegisterActive, ActiveEngagements
    <3>2. CASE RegisterItem(h) BY <3>2 DEF RegisterItem
    <3>3. CASE RegisterInsert(h) BY <3>3 DEF RegisterInsert
    <3>4. CASE RegisterMove(h) BY <3>4 DEF RegisterMove, Move
    <3>5. CASE DispatchedMove(h) BY <3>5 DEF DispatchedMove, MoveOrRefuse, Move
    <3>6s. CASE CompletedStamp(h) BY <3>6s DEF CompletedStamp
    <3>6. CASE CompletedMove(h) BY <3>6 DEF CompletedMove, MoveOrRefuse, Move
    <3>7. CASE SubmitEngagement(h) BY <3>7 DEF SubmitEngagement
    <3>8. CASE SubmitInsert(h) BY <3>8 DEF SubmitInsert, ResultsOf
    <3>9. CASE SubmitReady(h) BY <3>9 DEF SubmitReady
    <3>10. CASE MarkTerminal(h) BY <3>10 DEF MarkTerminal
    <3>11. CASE Abort(h) BY <3>11 DEF Abort
    <3> QED BY <2>1, <3>1, <3>2, <3>3, <3>4, <3>5, <3>6s, <3>6, <3>7, <3>8, <3>9, <3>10, <3>11 DEF Serve
  <2>2. ASSUME NEW h \in Handlers, Receive(h) PROVE status'[k] \in Closed
    <3>1. CASE Sync(h) BY <3>1 DEF Sync
    <3>1s. CASE ScheduledSync(h) BY <3>1s DEF ScheduledSync
    <3>2. ASSUME NEW e \in Engagements, Register(h, e) PROVE status'[k] \in Closed
      BY <3>2 DEF Register
    <3>3. ASSUME NEW e \in Engagements, ReportDispatched(h, e) PROVE status'[k] \in Closed
      BY <3>3 DEF ReportDispatched
    <3>4. ASSUME NEW e \in Engagements, ReportCompleted(h, e) PROVE status'[k] \in Closed
      BY <3>4 DEF ReportCompleted
    <3>5. ASSUME NEW i \in Items, NEW business \in BOOLEAN, ReportFailure(h, i, business)
          PROVE status'[k] \in Closed
      BY <3>5 DEF ReportFailure
    <3>6. ASSUME NEW r \in Results, NEW c \in Contents, Submit(h, r, c) PROVE status'[k] \in Closed
      BY <3>6 DEF Submit
    <3> QED BY <2>2, <3>1, <3>1s, <3>2, <3>3, <3>4, <3>5, <3>6 DEF Receive
  <2>3. ASSUME NEW i \in Items, Claim(i) PROVE status'[k] \in Closed
    BY <2>3 DEF Claim, Unlocked, Claimable
  <2>4. ASSUME NEW i \in Items, LeaseExpires(i) PROVE status'[k] \in Closed
    BY <2>4 DEF LeaseExpires
  <2>5. ASSUME NEW i \in Items, NEW s \in {"pending", "other", "terminal"}, SourceRow(i, s)
        PROVE status'[k] \in Closed
    BY <2>5 DEF SourceRow
  <2>6. ASSUME NEW i \in Items, NEW new \in Statuses, ReportStatus(i, new) PROVE status'[k] \in Closed
    BY <2>6 DEF ReportStatus, Move
  <2>7. CASE ClaimNothing BY <2>7 DEF ClaimNothing
  <2>8. CASE UNCHANGED vars BY <2>8 DEF vars
  <2> QED BY <2>1, <2>2, <2>3, <2>4, <2>5, <2>6, <2>7, <2>8 DEF Next
<1> QED BY <1>1, Invariance, PTL DEF Spec, ClosedStaysClosed

-----------------------------------------------------------------------------
-----------------------------------------------------------------------------
\* Nothing but a claim counts as one.
LEMMA OnlyClaimsCount ==
    ASSUME [Next]_vars
    PROVE  claims' = claims \/ \E i \in Items : Claim(i)
<1>1. ASSUME NEW h \in Handlers, Serve(h) PROVE claims' = claims
  BY <1>1 DEF Serve, RegisterActive, RegisterItem, RegisterInsert, RegisterMove, DispatchedMove,
     CompletedStamp, CompletedMove, SubmitEngagement, SubmitInsert, SubmitReady, MarkTerminal, Abort,
     Move, MoveOrRefuse, queueVars
<1>2. ASSUME NEW h \in Handlers, Receive(h) PROVE claims' = claims
  BY <1>2 DEF Receive, Sync, ScheduledSync, Register, ReportDispatched, ReportCompleted, ReportFailure, Submit,
     queueVars
<1>3. ASSUME NEW i \in Items, LeaseExpires(i) PROVE claims' = claims
  BY <1>3 DEF LeaseExpires
<1>4. ASSUME NEW i \in Items, NEW s \in {"pending", "other", "terminal"}, SourceRow(i, s)
      PROVE claims' = claims
  BY <1>4 DEF SourceRow, queueVars
<1>5. ASSUME NEW i \in Items, NEW new \in Statuses, ReportStatus(i, new) PROVE claims' = claims
  BY <1>5 DEF ReportStatus, Move
<1>6. CASE ClaimNothing BY <1>6 DEF ClaimNothing
<1>7. CASE UNCHANGED vars BY <1>7 DEF vars, queueVars
<1> QED BY <1>1, <1>2, <1>3, <1>4, <1>5, <1>6, <1>7 DEF Next

\* An item with a registered call is never handed to another claimer, whatever leases run
\* out and whatever the reports say.
THEOREM NotReclaimedCorrect == Spec => RegisteredIsNotReclaimed
<1>1. IInv /\ [Next]_vars
        => [\A i \in Items : status[i] \in {"engagement_registered", "call_dispatched",
                                            "call_completed", "intelligence_pending"}
                               => claims'[i] = claims[i]]_vars
  <2> SUFFICES ASSUME IInv, [Next]_vars, NEW k \in Items,
                      status[k] \in {"engagement_registered", "call_dispatched",
                                     "call_completed", "intelligence_pending"}
               PROVE claims'[k] = claims[k]
    OBVIOUS
  <2>1. ASSUME NEW i \in Items, Claim(i) PROVE claims'[k] = claims[k]
    <3>1. i # k BY <2>1 DEF Claim, Unlocked, Claimable
    <3>2. claims \in [Items -> Nat] BY DEF IInv, TypeOK
    <3> QED BY <2>1, <3>1, <3>2 DEF Claim
  <2> QED BY <2>1, OnlyClaimsCount
<1> QED BY <1>1, Invariance, PTL DEF Spec, RegisteredIsNotReclaimed

\* A step that is no claim brings no item back into the hands of a claimer.
Forward(k) ==
    status'[k] \in {"none", "eligible", "claimed", "failed_retryable"}
        => status'[k] = status[k] \/ (status[k] = "none" /\ status'[k] = "eligible")

LEMMA OnlyClaimsReopen ==
    ASSUME TypeOK, [Next]_vars, NEW k \in Items, \A i \in Items : ~Claim(i)
    PROVE  Forward(k)
<1> USE DEF Forward
<1>0. status \in [Items -> Statuses \cup {"none"}] BY DEF TypeOK
<1>m. ASSUME NEW i, NEW new \in {"engagement_registered", "call_dispatched", "call_completed",
                                 "intelligence_pending"},
             Move(i, new)
      PROVE  Forward(k)
  BY <1>m, <1>0 DEF Move
<1>1. ASSUME NEW h \in Handlers, Serve(h) PROVE Forward(k)
  <2>1. CASE RegisterMove(h) BY <2>1, <1>m DEF RegisterMove
  <2>2. CASE DispatchedMove(h) BY <2>2, <1>m DEF DispatchedMove, MoveOrRefuse
  <2>3. CASE CompletedMove(h) BY <2>3, <1>m DEF CompletedMove, MoveOrRefuse
  <2>4. CASE SubmitReady(h) BY <2>4, <1>0 DEF SubmitReady
  <2>5. CASE MarkTerminal(h) BY <2>5, <1>0 DEF MarkTerminal
  <2>6. CASE UNCHANGED status BY <2>6
  <2>7. Serve(h) => \/ RegisterMove(h) \/ DispatchedMove(h) \/ CompletedMove(h)
                    \/ SubmitReady(h) \/ MarkTerminal(h) \/ UNCHANGED status
    BY DEF Serve, RegisterActive, RegisterItem, RegisterInsert, CompletedStamp, SubmitEngagement,
       SubmitInsert, Abort, queueVars
  <2> QED BY <1>1, <2>1, <2>2, <2>3, <2>4, <2>5, <2>6, <2>7
<1>2. ASSUME NEW h \in Handlers, Receive(h) PROVE Forward(k)
  <2>1. CASE Sync(h) BY <2>1, <1>0 DEF Sync
  <2>2. ASSUME NEW i \in Items, NEW business \in BOOLEAN, ReportFailure(h, i, business)
        PROVE Forward(k)
    BY <2>2, <1>0 DEF ReportFailure
  <2>3. CASE UNCHANGED status BY <2>3
  <2>4. Receive(h) => \/ Sync(h) \/ UNCHANGED status
                      \/ \E i \in Items, business \in BOOLEAN : ReportFailure(h, i, business)
    BY DEF Receive, ScheduledSync, Register, ReportDispatched, ReportCompleted, Submit, queueVars
  <2> QED BY <1>2, <2>1, <2>2, <2>3, <2>4
<1>3. ASSUME NEW i \in Items, LeaseExpires(i) PROVE Forward(k)
  BY <1>3 DEF LeaseExpires
<1>4. ASSUME NEW i \in Items, NEW s \in {"pending", "other", "terminal"}, SourceRow(i, s)
      PROVE Forward(k)
  BY <1>4 DEF SourceRow, queueVars
<1>5. ASSUME NEW i \in Items, NEW new \in Statuses, ReportStatus(i, new) PROVE Forward(k)
  BY <1>5, <1>m DEF ReportStatus
<1>6. CASE ClaimNothing BY <1>6, <1>0 DEF ClaimNothing
<1>7. CASE UNCHANGED vars BY <1>7 DEF vars, queueVars
<1> QED BY <1>1, <1>2, <1>3, <1>4, <1>5, <1>6, <1>7 DEF Next
=============================================================================
