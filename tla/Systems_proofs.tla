----------------------------- MODULE Systems_proofs -----------------------------
(***************************************************************************)
(* Proofs about the parts that keep no state in common, for every value of  *)
(* their constants: the decision on an item of the NDR queue, the            *)
(* collection of evidence, the synchronization of ShopDeck's tables and the  *)
(* semantic store.  Each part has a section of its own.                      *)
(***************************************************************************)
EXTENDS NDRDecision, EvidencePipeline, ShopDeckSync, SemanticStore, TLAPS, FiniteSetTheorems


-------------------------------------------------------------------------------
(* NDRDecision: the types, that a call has grounds, and that what an agent is *)
(* told hangs together, for every number of attempts, days and tries.         *)

\* A context that was true on its day.
Sound(x) ==
    /\ x \in Context
    /\ <<x.on, x.count>> \in counts /\ x.on <= x.day
    /\ x.day <= day
    /\ x.why <= OneAtLeast(x.count)
    /\ \A d \in x.dates : d - x.day \in {1, 2} /\ d - x.day <= Window(OneAtLeast(x.count))

\* A reading whose mission was decided before.
Read(x) ==
    /\ x \in Conversation
    /\ <<x.on, x.count>> \in counts /\ x.on <= day
    /\ x.why <= OneAtLeast(x.count)

\* What a reading must not say for a call to be placed on it.
Grounds(s) == s # Missing => ~s.ndrClosed /\ ~s.orderClosed /\ s.count < 3

\* Which of the task's variables hold something is known from where it is.
Progress ==
    /\ pc \in {"hydrate", "prepare", "dispatch"} => Grounds(seen)
    /\ pc \in {"decide", "hydrate"} => Evidence(seen).count <= OneAtLeast(shipment.count)
    /\ pc = "prepare" => Read(ccc)
    /\ pc = "dispatch" => Sound(record) /\ HasIntent(decision.strategy)

CallsSound ==
    \A c \in calls : HasIntent(c.strategy) /\ Grounds(c.seen) /\ Sound(c.told) /\ c.told.day <= c.day

DecisionInv ==
    /\ DecisionTypeOK
    /\ <<day, shipment.count>> \in counts
    /\ record = Missing \/ Sound(record)
    /\ Progress
    /\ CallsSound

-----------------------------------------------------------------------------
(* The decision.                                                             *)

LEMMA Bounds == MaxCount \in Nat /\ LastDay \in Nat \ {0} /\ MaxTries \in Nat
  BY DecisionAssumption DEF DecisionAssumption

LEMMA ShipmentCount == ASSUME NEW e \in Shipment PROVE e.count \in 0..MaxCount /\ e.count \in Int
  BY Bounds DEF Shipment

\* The count of 0 that is taken for 1.
LEMMA Recounted ==
    ASSUME NEW e \in Shipment, NEW n
    PROVE  LET f == [e EXCEPT !.count = n]
           IN  f.count = n /\ f.ndrClosed = e.ndrClosed /\ f.orderClosed = e.orderClosed
  BY DEF Shipment

LEMMA RiskType ==
    ASSUME NEW count \in Int, NEW mood
    PROVE  Risk(count, mood) \in [cx : Int, allowed : BOOLEAN] /\ Risk(count, mood).allowed = (count < 3)
  BY DEF Risk

LEMMA StrategyType ==
    ASSUME NEW diagnosis, NEW risk
    PROVE  Strategy(diagnosis, risk) \in Strategies
  BY DEF Strategy, Strategies

\* A decision to engage has an open shipment below the third attempt as its evidence.
LEMMA EngageHasGrounds ==
    ASSUME NEW e \in Shipment \cup {Missing}, NEW why
    PROVE  LET d == OrchestrateResolution(Evidence(e), why)
           IN  /\ d \in [disposition : {"ENGAGE", "ALREADY_RESOLVED", "POLICY_PROHIBITED"},
                         strategy : Strategies \cup {Missing}]
               /\ d.disposition = "ENGAGE" => Grounds(e)
<1> DEFINE ev == Evidence(e)
           s == Strategy(Diagnose(why, ev.courier, ev.count), Risk(ev.count, "neutral"))
<1>1. e = Missing => ev.count = 1
  BY DEF Evidence, Default
<1>2. e # Missing => /\ e.count \in Int /\ ev.count = (IF e.count = 0 THEN 1 ELSE e.count)
                     /\ ev.ndrClosed = e.ndrClosed /\ ev.orderClosed = e.orderClosed
  <2> SUFFICES ASSUME e # Missing
               PROVE  /\ e.count \in Int /\ ev.count = (IF e.count = 0 THEN 1 ELSE e.count)
                      /\ ev.ndrClosed = e.ndrClosed /\ ev.orderClosed = e.orderClosed
    OBVIOUS
  <2>1. e \in Shipment
    OBVIOUS
  <2>2. ev = [e EXCEPT !.count = IF e.count = 0 THEN 1 ELSE e.count]
    BY DEF Evidence, OneAtLeast
  <2> HIDE DEF ev
  <2>. QED
    BY <2>1, <2>2, Recounted, ShipmentCount
<1>3. ev.count \in Int
  BY <1>1, <1>2
<1>4. e # Missing /\ ev.count < 3 /\ ~Closed(ev) => Grounds(e)
  BY <1>2 DEF Closed, Grounds
<1>5. Risk(ev.count, "neutral").allowed = (ev.count < 3)
  BY <1>3, RiskType
<1>6. s \in Strategies
  BY StrategyType
<1>7. e = Missing => Grounds(e)
  BY DEF Grounds
<1> HIDE DEF ev, s
<1>8. OrchestrateResolution(Evidence(e), why) =
        IF Closed(ev) THEN [disposition |-> "ALREADY_RESOLVED", strategy |-> Missing]
        ELSE [disposition |-> IF Risk(ev.count, "neutral").allowed THEN "ENGAGE" ELSE "POLICY_PROHIBITED",
              strategy |-> s]
  BY DEF OrchestrateResolution, ev, s
<1>9. CASE Closed(ev)
  BY <1>8, <1>9
<1>10. CASE ~Closed(ev)
  <2>1. CASE ev.count < 3
    <3>1. OrchestrateResolution(Evidence(e), why) = [disposition |-> "ENGAGE", strategy |-> s]
      BY <1>5, <1>8, <1>10, <2>1
    <3>2. Grounds(e)
      BY <1>4, <1>7, <1>10, <2>1
    <3>. QED
      BY <1>6, <3>1, <3>2
  <2>2. CASE ~(ev.count < 3)
    <3>1. OrchestrateResolution(Evidence(e), why) = [disposition |-> "POLICY_PROHIBITED", strategy |-> s]
      BY <1>5, <1>8, <1>10, <2>2
    <3>. QED
      BY <1>6, <3>1
  <2>. QED
    BY <2>1, <2>2
<1>. QED
  BY <1>9, <1>10

-----------------------------------------------------------------------------
(* What the agent is told.                                                   *)

LEMMA ProjectIsSound ==
    ASSUME DecisionTypeOK, NEW x, Read(x)
    PROVE  Sound(Project(x, day))
<1> DEFINE S == {m \in {1, 2} : m <= Window(OneAtLeast(x.count))}
           D == {day + m : m \in S}
           told == [why |-> x.why, count |-> x.count, on |-> x.on, day |-> day, dates |-> D]
<1>1. S \subseteq {1, 2} /\ \A m \in S : m <= Window(OneAtLeast(x.count))
  OBVIOUS
<1> HIDE DEF S
<1>2. day \in 1..LastDay /\ LastDay \in Nat /\ x \in Conversation
  BY Bounds DEF DecisionTypeOK, Read
<1>3. \A d \in D : /\ d \in 1..(LastDay + 2) /\ d - day \in {1, 2}
                    /\ d - day <= Window(OneAtLeast(x.count))
  <2> SUFFICES ASSUME NEW m \in S
               PROVE  /\ day + m \in 1..(LastDay + 2) /\ (day + m) - day \in {1, 2}
                      /\ (day + m) - day <= Window(OneAtLeast(x.count))
    OBVIOUS
  <2>1. m = 1 \/ m = 2
    BY <1>1
  <2>2. (day + m) - day = m
    BY <1>2, <2>1
  <2>. QED
    BY <1>1, <1>2, <2>1, <2>2
<1> HIDE DEF D
<1>4. told \in Context
  BY <1>2, <1>3 DEF Context, Conversation
<1>5. Sound(told)
  BY <1>2, <1>3, <1>4 DEF Sound, Read
<1>6. Project(x, day) = told
  BY DEF Project, D, S
<1>. QED
  BY <1>5, <1>6

-----------------------------------------------------------------------------
(* The invariant.                                                            *)

LEMMA DecisionInitInv == DecisionInit => DecisionInv
<1> SUFFICES ASSUME DecisionInit PROVE DecisionInv
  OBVIOUS
<1>1. MaxCount \in Nat /\ LastDay \in Nat \ {0} /\ MaxTries \in Nat
  BY Bounds
<1>2. shipment \in Shipment /\ reason \in Reasons
  BY DEF DecisionInit
<1>3. shipment.count \in 0..MaxCount
  BY <1>2 DEF Shipment
<1>4. DecisionTypeOK
  BY <1>1, <1>2, <1>3 DEF DecisionInit, DecisionTypeOK
<1>. QED
  BY <1>4 DEF DecisionInit, DecisionInv, Progress, CallsSound

LEMMA EvidenceType ==
    ASSUME NEW e \in Shipment \cup {Missing}
    PROVE  Evidence(e).count \in Int
<1>1. CASE e = Missing
  BY <1>1 DEF Evidence, Default
<1>2. CASE e # Missing
  <2>1. e \in Shipment /\ e.count \in 0..MaxCount
    BY <1>2, ShipmentCount
  <2>2. Evidence(e) = [e EXCEPT !.count = OneAtLeast(e.count)]
    BY <1>2 DEF Evidence
  <2>3. Evidence(e).count = OneAtLeast(e.count)
    BY <2>1, <2>2, Recounted
  <2>. QED
    BY <2>1, <2>3, Bounds DEF OneAtLeast
<1>. QED
  BY <1>1, <1>2

\* Steps that keep the calls and the record, the day and the counts.
LEMMA DecisionQuietStep ==
    ASSUME DecisionInv, UNCHANGED <<shipment, day, record, calls, counts>>
    PROVE  /\ (<<day, shipment.count>> \in counts)'
           /\ (record = Missing \/ Sound(record))'
           /\ CallsSound'
           /\ \A x : Sound(x) <=> Sound(x)'
           /\ \A x : Read(x) <=> Read(x)'
  BY DEF DecisionInv, CallsSound, Sound, Read

LEMMA DecisionStepInv == DecisionInv /\ [DecisionNext]_decisionVars => DecisionInv'
<1> SUFFICES ASSUME DecisionInv, [DecisionNext]_decisionVars PROVE DecisionInv'
  OBVIOUS
<1> USE Bounds
<1>1. CASE Claim
  <2>1. DecisionTypeOK'
    BY <1>1, ShipmentCount DEF DecisionInv, DecisionTypeOK, Claim
  <2>2. Progress'
    BY <1>1 DEF Progress, Claim
  <2>. QED
    BY <1>1, <2>1, <2>2, DecisionQuietStep DEF Claim, DecisionInv
<1>2. CASE ReadEvidence
  <2>1. DecisionTypeOK'
    BY <1>2 DEF DecisionInv, DecisionTypeOK, ReadEvidence
  <2>2. Evidence(seen').count <= OneAtLeast(shipment.count)
    <3>1. shipment \in Shipment /\ shipment.count \in 0..MaxCount
      BY ShipmentCount DEF DecisionInv, DecisionTypeOK
    <3>2. CASE seen' = Missing
      BY <3>1, <3>2 DEF Evidence, Default, OneAtLeast
    <3>3. CASE seen' # Missing
      <4>1. seen' = shipment
        BY <1>2, <3>3 DEF ReadEvidence
      <4>2. Evidence(seen') = [shipment EXCEPT !.count = OneAtLeast(shipment.count)]
        BY <3>3, <4>1 DEF Evidence
      <4>3. Evidence(seen').count = OneAtLeast(shipment.count)
        BY <3>1, <4>2, Recounted
      <4>. QED
        BY <3>1, <4>3 DEF OneAtLeast
    <3>. QED
      BY <3>2, <3>3
  <2>3. Progress'
    BY <1>2, <2>2 DEF Progress, ReadEvidence
  <2>. QED
    BY <1>2, <2>1, <2>3, DecisionQuietStep DEF ReadEvidence, DecisionInv
<1>3. CASE Decide
  <2>1. seen \in Shipment \cup {Missing}
    BY DEF DecisionInv, DecisionTypeOK
  <2>2. /\ decision' \in [disposition : {"ENGAGE", "ALREADY_RESOLVED", "POLICY_PROHIBITED"},
                          strategy : Strategies \cup {Missing}]
        /\ decision'.disposition = "ENGAGE" => Grounds(seen)
    BY <1>3, <2>1, EngageHasGrounds DEF Decide
  <2>3. pc' = (IF decision'.disposition = "ENGAGE" THEN "hydrate" ELSE "idle")
    BY <1>3 DEF Decide
  <2>4. DecisionTypeOK'
    BY <1>3, <2>2, <2>3 DEF DecisionInv, DecisionTypeOK, Decide
  <2>5. Progress'
    BY <1>3, <2>2, <2>3 DEF DecisionInv, Progress, Decide, Grounds
  <2>. QED
    BY <1>3, <2>4, <2>5, DecisionQuietStep DEF Decide, DecisionInv
<1>4. CASE Hydrate
  <2> DEFINE x == [why |-> Evidence(seen).count, count |-> shipment.count, on |-> day]
  <2>1. /\ shipment.count \in 0..MaxCount /\ day \in 1..LastDay
        /\ Evidence(seen).count <= OneAtLeast(shipment.count)
    BY <1>4 DEF DecisionInv, DecisionTypeOK, Shipment, Progress, Hydrate
  <2>2. Evidence(seen).count \in 1..(MaxCount + 1)
    <3>1. CASE seen = Missing
      BY <3>1 DEF Evidence, Default
    <3>2. CASE seen # Missing
      <4>1. seen \in Shipment /\ seen.count \in 0..MaxCount
        BY <3>2, ShipmentCount DEF DecisionInv, DecisionTypeOK
      <4>2. Evidence(seen) = [seen EXCEPT !.count = OneAtLeast(seen.count)]
        BY <3>2 DEF Evidence
      <4>3. Evidence(seen).count = OneAtLeast(seen.count)
        BY <4>1, <4>2, Recounted
      <4>. QED
        BY <4>1, <4>3 DEF OneAtLeast
    <3>. QED
      BY <3>1, <3>2
  <2>3. x.why = Evidence(seen).count /\ x.count = shipment.count /\ x.on = day /\ x \in Conversation
    BY <2>1, <2>2 DEF Conversation
  <2>4. ccc' = x
    BY <1>4 DEF Hydrate
  <2> HIDE DEF x
  <2>5. Read(x)
    BY <2>1, <2>3 DEF DecisionInv, Read
  <2>6. DecisionTypeOK'
    BY <1>4, <2>3, <2>4 DEF DecisionInv, DecisionTypeOK, Hydrate
  <2>7. Read(ccc)'
    BY <1>4, <2>4, <2>5 DEF Hydrate, Read
  <2>8. Progress'
    BY <1>4, <2>7 DEF DecisionInv, Progress, Hydrate, Grounds
  <2>. QED
    BY <1>4, <2>6, <2>8, DecisionQuietStep DEF Hydrate, DecisionInv
<1>5. CASE Prepare
  <2> DEFINE x == Project(ccc, day)
  <2>1. Sound(x)
    BY <1>5, ProjectIsSound DEF DecisionInv, Progress, Prepare
  <2> HIDE DEF x
  <2>2. record' = Stored(record, x)
    BY <1>5 DEF Prepare, x
  <2>3. Sound(record')
    BY <2>1, <2>2 DEF DecisionInv, Stored
  <2>4. DecisionTypeOK'
    BY <1>5, <2>3 DEF DecisionInv, DecisionTypeOK, Prepare, Sound
  <2>5. Sound(record)'
    BY <1>5, <2>3 DEF Prepare, Sound
  <2>6. Progress'
    BY <1>5, <2>5 DEF DecisionInv, Progress, Prepare, Grounds
  <2>7. CallsSound' /\ (<<day, shipment.count>> \in counts)'
    BY <1>5 DEF DecisionInv, CallsSound, Sound, Prepare
  <2>. QED
    BY <2>4, <2>5, <2>6, <2>7 DEF DecisionInv
<1>6. CASE Dispatch
  <2> DEFINE call == [told |-> record, day |-> day, seen |-> seen, first |-> first,
                      strategy |-> decision.strategy]
  <2>1. HasIntent(decision.strategy) /\ Grounds(seen) /\ Sound(record)
    BY <1>6 DEF DecisionInv, Progress, Dispatch
  <2>2. record.day <= day
    BY <2>1 DEF Sound
  <2>3. calls' = calls \cup {call}
    BY <1>6 DEF Dispatch
  <2>4. \A x : Sound(x) => Sound(x)'
    BY <1>6 DEF Dispatch, Sound
  <2>5. call.told = record /\ call.seen = seen /\ call.strategy = decision.strategy /\ call.day = day
    OBVIOUS
  <2> HIDE DEF call
  <2>6. CallsSound'
    BY <2>1, <2>2, <2>3, <2>4, <2>5 DEF DecisionInv, CallsSound, Grounds
  <2>7. DecisionTypeOK'
    BY <1>6 DEF DecisionInv, DecisionTypeOK, Dispatch
  <2>8. Progress'
    BY <1>6 DEF Progress, Dispatch
  <2>9. (record = Missing \/ Sound(record))' /\ (<<day, shipment.count>> \in counts)'
    BY <1>6, <2>1, <2>4 DEF DecisionInv, Dispatch
  <2>. QED
    BY <2>6, <2>7, <2>8, <2>9 DEF DecisionInv
<1>7. CASE Fail
  <2>1. DecisionTypeOK'
    BY <1>7 DEF DecisionInv, DecisionTypeOK, Fail
  <2>2. Progress'
    BY <1>7 DEF Progress, Fail
  <2>. QED
    BY <1>7, <2>1, <2>2, DecisionQuietStep DEF Fail, DecisionInv
<1>8. CASE ShipmentMoves
  <2>1. /\ shipment' \in Shipment /\ day' = day /\ counts \subseteq counts'
        /\ <<day', shipment'.count>> \in counts'
        /\ counts' \subseteq (1..LastDay) \X (0..MaxCount)
        /\ shipment.count \in 0..MaxCount /\ shipment'.count \in 0..MaxCount
        /\ shipment'.count >= shipment.count
    <3>1. shipment \in Shipment /\ day \in 1..LastDay /\ counts \subseteq (1..LastDay) \X (0..MaxCount)
      BY DEF DecisionInv, DecisionTypeOK
    <3>2. shipment' \in Shipment /\ shipment'.count >= shipment.count
      <4>1. shipment.count \in 0..MaxCount /\ shipment'.count <= MaxCount
        BY <1>8, <3>1, ShipmentCount DEF ShipmentMoves
      <4>2. CASE shipment' = [shipment EXCEPT !.count = @ + 1]
        <5>1. shipment'.count = shipment.count + 1
          BY <3>1, <4>2, Recounted
        <5>2. shipment.count + 1 \in 0..MaxCount
          BY <4>1, <5>1
        <5>3. shipment' \in Shipment
          BY <3>1, <4>2, <5>2 DEF Shipment
        <5>. QED
          BY <4>1, <5>1, <5>3
      <4>3. CASE shipment' \in {[shipment EXCEPT !.ndrClosed = TRUE],
                               [shipment EXCEPT !.orderClosed = TRUE]}
        <5>1. shipment' \in Shipment /\ shipment'.count = shipment.count
          BY <3>1, <4>3 DEF Shipment
        <5>. QED
          BY <4>1, <5>1
      <4>. QED
        BY <1>8, <4>2, <4>3 DEF ShipmentMoves
    <3>3. shipment'.count \in 0..MaxCount
      BY <3>2, ShipmentCount
    <3>4. day' = day /\ counts' = counts \cup {<<day, shipment'.count>>}
      BY <1>8 DEF ShipmentMoves
    <3>5. shipment.count \in 0..MaxCount
      BY <3>1, ShipmentCount
    <3>. QED
      BY <3>1, <3>2, <3>3, <3>4, <3>5
  <2>2. \A x : (Sound(x) => Sound(x)') /\ (Read(x) => Read(x)')
    BY <2>1 DEF Sound, Read
  <2>3. DecisionTypeOK'
    BY <1>8, <2>1 DEF DecisionInv, DecisionTypeOK, ShipmentMoves
  <2>4. Progress'
    <3>1. OneAtLeast(shipment'.count) >= OneAtLeast(shipment.count)
          /\ OneAtLeast(shipment'.count) \in Int /\ OneAtLeast(shipment.count) \in Int
      BY <2>1 DEF OneAtLeast
    <3>2. Evidence(seen).count \in Int
      BY EvidenceType DEF DecisionInv, DecisionTypeOK
    <3>3. UNCHANGED <<pc, seen, ccc, record, decision>>
      BY <1>8 DEF ShipmentMoves
    <3>4. Evidence(seen').count = Evidence(seen).count
      BY <3>3
    <3>5. pc \in {"decide", "hydrate"} => Evidence(seen').count <= OneAtLeast(shipment'.count)
      BY <3>1, <3>2, <3>4 DEF DecisionInv, Progress
    <3>. QED
      BY <2>2, <3>3, <3>5 DEF DecisionInv, Progress, Grounds
  <2>5. CallsSound'
    BY <1>8, <2>2 DEF DecisionInv, CallsSound, ShipmentMoves, Grounds
  <2>6. (record = Missing \/ Sound(record))'
    BY <1>8, <2>2 DEF DecisionInv, ShipmentMoves
  <2>. QED
    BY <2>1, <2>3, <2>4, <2>5, <2>6 DEF DecisionInv
<1>9. CASE Midnight
  <2>1. /\ day' \in 1..LastDay /\ day \in Int /\ day <= day' /\ counts \subseteq counts'
        /\ <<day', shipment'.count>> \in counts'
        /\ counts' \subseteq (1..LastDay) \X (0..MaxCount)
    <3>1. shipment.count \in 0..MaxCount /\ day \in 1..LastDay
      BY ShipmentCount DEF DecisionInv, DecisionTypeOK
    <3>. QED
      BY <1>9, <3>1 DEF DecisionInv, DecisionTypeOK, Midnight
  <2>2. \A x : (Sound(x) => Sound(x)') /\ (Read(x) => Read(x)')
    <3>1. ASSUME NEW x, Sound(x) PROVE Sound(x)'
      <4>1. x.day \in Int
        BY <3>1 DEF Sound, Context
      <4>. QED
        BY <2>1, <3>1, <4>1 DEF Sound
    <3>2. ASSUME NEW x, Read(x) PROVE Read(x)'
      <4>1. x.on \in Int
        BY <3>2 DEF Read, Conversation
      <4>. QED
        BY <2>1, <3>2, <4>1 DEF Read
    <3>. QED
      BY <3>1, <3>2
  <2>3. DecisionTypeOK'
    BY <1>9, <2>1 DEF DecisionInv, DecisionTypeOK, Midnight
  <2>4. Progress'
    <3>1. UNCHANGED <<pc, seen, ccc, record, decision, shipment>>
      BY <1>9 DEF Midnight
    <3>. QED
      BY <2>2, <3>1 DEF DecisionInv, Progress, Grounds
  <2>5. CallsSound'
    BY <1>9, <2>2 DEF DecisionInv, CallsSound, Midnight, Grounds
  <2>6. (record = Missing \/ Sound(record))'
    BY <1>9, <2>2 DEF DecisionInv, Midnight
  <2>. QED
    BY <2>1, <2>3, <2>4, <2>5, <2>6 DEF DecisionInv
<1>10. CASE UNCHANGED decisionVars
  BY <1>10 DEF decisionVars, DecisionInv, DecisionTypeOK, Progress, CallsSound, Sound, Read,
     Grounds
<1>. QED
  BY <1>1, <1>2, <1>3, <1>4, <1>5, <1>6, <1>7, <1>8, <1>9, <1>10 DEF DecisionNext

LEMMA DecisionAlwaysInv == DecisionSpec => []DecisionInv
  BY DecisionInitInv, DecisionStepInv, PTL DEF DecisionSpec

-----------------------------------------------------------------------------
\* The variables of a task keep their types (NDRDecision.DecisionTypeOK).
THEOREM DecisionTypeCorrect == DecisionSpec => []DecisionTypeOK
<1>1. DecisionInv => DecisionTypeOK
  BY DEF DecisionInv
<1>. QED
  BY <1>1, DecisionAlwaysInv, PTL

\* However the shipment moves on while an item is decided on, failed and claimed again, a call is
\* placed only on a reading that was open and below the third attempt, or on none, and never for a
\* case that is to go to a person (ndr_queue_poller.py, ndr/orchestrator.py, ndr/knowledge.py).
THEOREM CallHasGroundsCorrect == DecisionSpec => []CallHasGrounds
<1>1. DecisionInv => CallHasGrounds
  BY DEF DecisionInv, CallsSound, CallHasGrounds, Grounds
<1>. QED
  BY <1>1, DecisionAlwaysInv, PTL

\* What an agent is told hangs together for every reschedule policy, however the shipment and the
\* clock move between the readings and however often the engagement is used again: the attempts
\* were those of a day not after the dates' own, the reason of the call names no more of them, and
\* the dates are those that so many allow (orchestrator.py, ccc_builder.py, service.py).
THEOREM ToldHangsTogetherCorrect == DecisionSpec => []ToldHangsTogether
<1>1. DecisionInv => ToldHangsTogether
  BY DEF DecisionInv, CallsSound, ToldHangsTogether, Sound
<1>. QED
  BY <1>1, DecisionAlwaysInv, PTL

-------------------------------------------------------------------------------
(* SemanticStore. *)

Rows == ({"space", "view"} \X Namespaces) \cup ({"concept"} \X SemanticKeys)
        \cup ({"edges", "links"} \X Contracts)

IngesterRecord == [pc : {"idle", "open", "look", "write"}, contract : Contracts \cup {Absent},
                   next : Nat \ {0}, found : BOOLEAN, wrote : SUBSET Rows, links : SUBSET SemanticKeys]

StoreRecord == [spaces : SUBSET Namespaces, views : SUBSET Namespaces,
                concept : [SemanticKeys -> Contracts \cup {Absent}],
                aliases : SUBSET (SemanticKeys \X Terms),
                edges : SUBSET (SemanticKeys \X SemanticKeys),
                mapped : SUBSET SemanticKeys, links : SUBSET SemanticKeys]

ReaderRecord == [todo : SUBSET SemanticKeys,
                 answer : [key : SemanticKeys \cup {Absent}, by : Contracts \cup {Absent},
                           aliases : SUBSET Terms, whole : BOOLEAN]]

\* An open run has written the rows it has passed, but for a namespace that was there.
RunOK(me) ==
    LET rows == RowsOf(me.contract)
    IN  /\ me.pc # "idle" => me.contract \in Contracts
        /\ me.pc = "open" => me.next = 1 /\ me.wrote = {}
        /\ me.pc \in {"look", "write"} =>
             /\ \A m \in 1..Len(rows) : m < me.next => rows[m] \in me.wrote \/ rows[m][1] = "space"
             /\ \A r \in me.wrote : \E m \in 1..Len(rows) : r = rows[m]
        /\ me.pc = "write" => me.next \in 1..Len(rows)

\* The aliases of a definition are in the store, also while a reader has only the definition.
HasAliases(k, c) == \A t \in AliasesOf[c][k] : <<k, t>> \in store.aliases

\* A concept that some run declared has a last such run.
Mine(k) == {n \in DOMAIN runs : k \in DeclaredBy(runs[n])}
HasLast(k) == Mine(k) = {} \/ \E n \in Mine(k) : \A o \in Mine(k) : o <= n

WholeRuns ==
    /\ \A k \in SemanticKeys : store.concept[k] = LastRunOf(k) /\ HasLast(k)
    /\ \A n \in DOMAIN runs : Relations[runs[n]] \subseteq store.edges
    /\ \A k \in SemanticKeys : store.concept[k] # Absent => HasAliases(k, store.concept[k])

ReaderOK ==
    LET a == reader.answer
    IN  /\ a.by # Absent => a.key \in SemanticKeys /\ HasAliases(a.key, a.by)
        /\ a.whole /\ a.by # Absent => AliasesOf[a.by][a.key] \subseteq a.aliases

StoreInv ==
    /\ runs \in Seq(Contracts) /\ store \in StoreRecord
    /\ ingester \in [Ingesters -> IngesterRecord]
    /\ reader \in ReaderRecord
    /\ \A i \in Ingesters : RunOK(ingester[i])
    /\ WholeRuns
    /\ ReaderOK

-----------------------------------------------------------------------------
(* The rows of a contract.                                                   *)

LEMMA Concatenation ==
    ASSUME NEW S, NEW s \in Seq(S), NEW t \in Seq(S)
    PROVE  /\ s \o t \in Seq(S) /\ Len(s \o t) = Len(s) + Len(t)
           /\ \A i \in 1..(Len(s) + Len(t)) : (s \o t)[i] = IF i <= Len(s) THEN s[i] ELSE t[i - Len(s)]
  OBVIOUS

LEMMA Contract ==
    ASSUME NEW c \in Contracts
    PROVE  Declares[c] \in Seq(SemanticKeys) /\ NamespaceOf[c] \in Namespaces
  BY StoreAssumption DEF StoreAssumption

LEMMA RowsAre ==
    ASSUME NEW c \in Contracts
    PROVE  /\ Len(RowsOf(c)) = Len(Declares[c]) + 4 /\ Len(Declares[c]) \in Nat
           /\ DOMAIN RowsOf(c) = 1..Len(RowsOf(c))
           /\ RowsOf(c)[1] = <<"space", NamespaceOf[c]>>
           /\ \A n \in 1..Len(Declares[c]) : RowsOf(c)[n + 1] = <<"concept", Declares[c][n]>>
           /\ RowsOf(c)[Len(Declares[c]) + 2] = <<"edges", c>>
           /\ RowsOf(c)[Len(Declares[c]) + 3] = <<"view", NamespaceOf[c]>>
           /\ RowsOf(c)[Len(Declares[c]) + 4] = <<"links", c>>
<1> DEFINE d == Declares[c]
           a == <<<<"space", NamespaceOf[c]>>>>
           b == [n \in DOMAIN d |-> <<"concept", d[n]>>]
           e == <<<<"edges", c>>, <<"view", NamespaceOf[c]>>, <<"links", c>>>>
<1>1. d \in Seq(SemanticKeys) /\ NamespaceOf[c] \in Namespaces /\ DOMAIN d = 1..Len(d) /\ Len(d) \in Nat
  BY Contract
<1>2. b \in Seq({"concept"} \X SemanticKeys) /\ Len(b) = Len(d) /\ \A n \in 1..Len(d) : b[n] = <<"concept", d[n]>>
  BY <1>1
<1>3. a \in Seq(Rows) /\ Len(a) = 1 /\ a[1] = <<"space", NamespaceOf[c]>>
  BY <1>1 DEF Rows
<1>4. b \in Seq(Rows)
  BY <1>2 DEF Rows
<1>5. e \in Seq(Rows) /\ Len(e) = 3 /\ e[1] = <<"edges", c>> /\ e[2] = <<"view", NamespaceOf[c]>>
      /\ e[3] = <<"links", c>>
  BY <1>1 DEF Rows
<1>6. RowsOf(c) = a \o b \o e
  BY DEF RowsOf
<1> HIDE DEF a, b, e, d
<1>7. a \o b \in Seq(Rows) /\ Len(a \o b) = Len(d) + 1 /\ (a \o b)[1] = a[1]
      /\ \A n \in 1..Len(d) : (a \o b)[n + 1] = b[n]
  <2>1. /\ a \o b \in Seq(Rows) /\ Len(a \o b) = Len(a) + Len(b)
        /\ \A i \in 1..(Len(a) + Len(b)) : (a \o b)[i] = IF i <= Len(a) THEN a[i] ELSE b[i - Len(a)]
    BY <1>3, <1>4, Concatenation
  <2>2. (a \o b)[1] = a[1]
    BY <1>1, <1>2, <1>3, <2>1
  <2>3. ASSUME NEW n \in 1..Len(d) PROVE (a \o b)[n + 1] = b[n]
    <3>1. n + 1 \in 1..(Len(a) + Len(b)) /\ ~(n + 1 <= Len(a)) /\ (n + 1) - Len(a) = n
      BY <1>1, <1>2, <1>3
    <3>. QED
      BY <2>1, <3>1
  <2>. QED
    BY <1>1, <1>2, <1>3, <2>1, <2>2, <2>3
<1>8. /\ Len((a \o b) \o e) = Len(d) + 4 /\ ((a \o b) \o e)[1] = a[1]
      /\ DOMAIN ((a \o b) \o e) = 1..(Len(d) + 4)
      /\ \A n \in 1..Len(d) : ((a \o b) \o e)[n + 1] = (a \o b)[n + 1]
      /\ \A n \in 1..3 : ((a \o b) \o e)[Len(d) + 1 + n] = e[n]
  <2>1. PICK ab : ab = a \o b
    OBVIOUS
  <2>2. ab \in Seq(Rows) /\ Len(ab) = Len(d) + 1 /\ ab[1] = a[1]
    BY <1>7, <2>1
  <2>3. /\ ab \o e \in Seq(Rows) /\ Len(ab \o e) = Len(ab) + Len(e)
        /\ \A i \in 1..(Len(ab) + Len(e)) : (ab \o e)[i] = IF i <= Len(ab) THEN ab[i] ELSE e[i - Len(ab)]
    BY <1>5, <2>2, Concatenation
  <2>4. DOMAIN (ab \o e) = 1..Len(ab \o e)
    BY <2>3
  <2>5. ASSUME NEW n \in 1..(Len(d) + 1) PROVE (ab \o e)[n] = ab[n]
    BY <1>1, <1>5, <2>2, <2>3
  <2>6. ASSUME NEW n \in 1..3 PROVE (ab \o e)[Len(d) + 1 + n] = e[n]
    <3>1. Len(d) + 1 + n \in 1..(Len(ab) + Len(e)) /\ ~(Len(d) + 1 + n <= Len(ab))
          /\ (Len(d) + 1 + n) - Len(ab) = n
      BY <1>1, <1>5, <2>2
    <3>. QED
      BY <2>3, <3>1
  <2>7. 1 \in 1..(Len(d) + 1) /\ \A n \in 1..Len(d) : n + 1 \in 1..(Len(d) + 1)
    BY <1>1
  <2>8. Len(ab \o e) = Len(d) + 4
    BY <1>1, <1>5, <2>2, <2>3
  <2>. QED
    BY <2>1, <2>2, <2>4, <2>5, <2>6, <2>7, <2>8
<1>9. Len(d) + 1 + 1 = Len(d) + 2 /\ Len(d) + 1 + 2 = Len(d) + 3 /\ Len(d) + 1 + 3 = Len(d) + 4
  BY <1>1
<1>10. PICK rows : rows = (a \o b) \o e
  OBVIOUS
<1>11. /\ rows[Len(d) + 2] = <<"edges", c>> /\ rows[Len(d) + 3] = <<"view", NamespaceOf[c]>>
       /\ rows[Len(d) + 4] = <<"links", c>>
  <2>1. \A n \in 1..3 : rows[Len(d) + 1 + n] = e[n]
    BY <1>8, <1>10
  <2>. QED
    BY <1>5, <1>9, <2>1
<1>12. \A n \in 1..Len(d) : rows[n + 1] = <<"concept", d[n]>>
  BY <1>2, <1>7, <1>8, <1>10
<1>. QED
  BY <1>1, <1>3, <1>6, <1>8, <1>10, <1>11, <1>12 DEF d

\* Which of them are of a kind.
LEMMA KindsOfRows ==
    ASSUME NEW c \in Contracts
    PROVE  /\ \A m \in 1..Len(RowsOf(c)) : RowsOf(c)[m] \in Rows
           /\ \A k : (\E m \in 1..Len(RowsOf(c)) : RowsOf(c)[m] = <<"concept", k>>) <=> k \in DeclaredBy(c)
           /\ \E m \in 1..Len(RowsOf(c)) : RowsOf(c)[m] = <<"edges", c>>
<1> DEFINE len == Len(Declares[c])
           rows == RowsOf(c)
<1>1. /\ Len(rows) = len + 4 /\ len \in Nat /\ rows[1] = <<"space", NamespaceOf[c]>>
      /\ \A n \in 1..len : rows[n + 1] = <<"concept", Declares[c][n]>>
      /\ rows[len + 2] = <<"edges", c>> /\ rows[len + 3] = <<"view", NamespaceOf[c]>>
      /\ rows[len + 4] = <<"links", c>>
  BY RowsAre
<1>2. DeclaredBy(c) = {Declares[c][n] : n \in 1..len} /\ NamespaceOf[c] \in Namespaces
      /\ \A n \in 1..len : Declares[c][n] \in SemanticKeys
  BY Contract DEF DeclaredBy
<1> HIDE DEF len, rows
<1>3. \A m \in 1..Len(rows) : m = 1 \/ m = len + 2 \/ m = len + 3 \/ m = len + 4
                              \/ \E n \in 1..len : m = n + 1
  <2> SUFFICES ASSUME NEW m \in 1..Len(rows), m # 1, m # len + 2, m # len + 3, m # len + 4
               PROVE  \E n \in 1..len : m = n + 1
    OBVIOUS
  <2>1. m - 1 \in 1..len /\ m = (m - 1) + 1
    BY <1>1
  <2>. QED
    BY <2>1
<1>4. \A m \in 1..Len(rows) : rows[m] \in Rows
  <2> SUFFICES ASSUME NEW m \in 1..Len(rows) PROVE rows[m] \in Rows
    OBVIOUS
  <2>1. CASE m = 1
    <3>1. rows[m] = <<"space", NamespaceOf[c]>>
      BY <1>1, <2>1
    <3>. QED
      BY <1>2, <3>1 DEF Rows
  <2>2. CASE m = len + 2
    <3>1. rows[m] = <<"edges", c>>
      BY <1>1, <2>2
    <3>. QED
      BY <3>1 DEF Rows
  <2>4. CASE m = len + 3
    <3>1. rows[m] = <<"view", NamespaceOf[c]>>
      BY <1>1, <2>4
    <3>. QED
      BY <1>2, <3>1 DEF Rows
  <2>5. CASE m = len + 4
    <3>1. rows[m] = <<"links", c>>
      BY <1>1, <2>5
    <3>. QED
      BY <3>1 DEF Rows
  <2>3. CASE \E n \in 1..len : m = n + 1
    <3>1. PICK n \in 1..len : m = n + 1
      BY <2>3
    <3>2. rows[m] = <<"concept", Declares[c][n]>> /\ Declares[c][n] \in SemanticKeys
      BY <1>1, <1>2, <3>1
    <3>. QED
      BY <3>2 DEF Rows
  <2>. QED
    BY <1>3, <2>1, <2>2, <2>3, <2>4, <2>5
<1>5. ASSUME NEW k, NEW m \in 1..Len(rows), rows[m] = <<"concept", k>> PROVE k \in DeclaredBy(c)
  <2>1. CASE m \in {1, len + 2, len + 3, len + 4}
    <3>1. rows[m][1] \in {"space", "edges", "view", "links"}
      BY <1>1, <2>1
    <3>. QED
      BY <1>5, <3>1
  <2>2. CASE \E n \in 1..len : m = n + 1
    <3>1. PICK n \in 1..len : m = n + 1
      BY <2>2
    <3>2. rows[m] = <<"concept", Declares[c][n]>>
      BY <1>1, <3>1
    <3>3. k = Declares[c][n]
      BY <1>5, <3>2
    <3>. QED
      BY <1>2, <3>3
  <2>. QED
    BY <1>3, <2>1, <2>2
<1>6. ASSUME NEW k \in DeclaredBy(c) PROVE \E m \in 1..Len(rows) : rows[m] = <<"concept", k>>
  <2>1. PICK n \in 1..len : k = Declares[c][n]
    BY <1>2
  <2>2. n + 1 \in 1..Len(rows) /\ rows[n + 1] = <<"concept", k>>
    BY <1>1, <2>1
  <2>. QED
    BY <2>2
<1>7. len + 2 \in 1..Len(rows)
  BY <1>1
<1>. QED
  BY <1>1, <1>4, <1>5, <1>6, <1>7 DEF rows

-----------------------------------------------------------------------------
LEMMA StoreInitInv == StoreInit => StoreInv
<1> SUFFICES ASSUME StoreInit PROVE StoreInv
  OBVIOUS
<1> USE DEF StoreInit
<1>1. runs \in Seq(Contracts) /\ DOMAIN runs = {}
  OBVIOUS
<1>2. store \in StoreRecord
  BY DEF StoreRecord
<1>3. Resting \in IngesterRecord /\ RunOK(Resting)
  BY DEF IngesterRecord, Resting, RunOK
<1>4. reader \in ReaderRecord /\ reader.answer.by = Absent
  BY DEF NoQuestion, NoAnswer, ReaderRecord
<1>5. WholeRuns
  <2>1. \A k \in SemanticKeys : store.concept[k] = Absent /\ LastRunOf(k) = Absent /\ HasLast(k)
    BY <1>1 DEF LastRunOf, HasLast, Mine
  <2>. QED
    BY <1>1, <2>1 DEF WholeRuns
<1>6. ReaderOK
  BY <1>4 DEF ReaderOK
<1>. QED
  BY <1>1, <1>2, <1>3, <1>4, <1>5, <1>6 DEF StoreInv

\* A step of one ingester that commits nothing.
LEMMA IngesterSteps ==
    ASSUME StoreInv, NEW i \in Ingesters, NEW r \in IngesterRecord, RunOK(r),
           ingester' = [ingester EXCEPT ![i] = r], UNCHANGED <<runs, store, reader>>
    PROVE  StoreInv'
<1>1. \A j \in Ingesters : ingester'[j] = IF j = i THEN r ELSE ingester[j]
  BY DEF StoreInv
<1>2. ingester' \in [Ingesters -> IngesterRecord] /\ \A j \in Ingesters : RunOK(ingester'[j])
  BY <1>1 DEF StoreInv
<1>3. WholeRuns'
  BY DEF StoreInv, WholeRuns, LastRunOf, HasLast, Mine, HasAliases
<1>4. ReaderOK'
  BY DEF StoreInv, ReaderOK, HasAliases
<1>. QED
  BY <1>2, <1>3, <1>4 DEF StoreInv

\* A step of the reader.
LEMMA ReaderSteps ==
    ASSUME StoreInv, UNCHANGED <<runs, store, ingester>>, reader' \in ReaderRecord, ReaderOK'
    PROVE  StoreInv'
<1>1. WholeRuns'
  BY DEF StoreInv, WholeRuns, LastRunOf, HasLast, Mine, HasAliases
<1>. QED
  BY <1>1 DEF StoreInv

LEMMA FailsInv ==
    ASSUME StoreInv, NEW i \in Ingesters, IngestFails(i)
    PROVE  StoreInv'
<1>1. Resting \in IngesterRecord /\ RunOK(Resting)
  BY DEF IngesterRecord, Resting, RunOK
<1>. QED
  BY <1>1, IngesterSteps DEF IngestFails, AfterFailure

LEMMA OpenStoreInv ==
    ASSUME StoreInv, NEW i \in Ingesters, NEW c \in Contracts, OpenStore(i, c)
    PROVE  StoreInv'
<1>1. PICK r : r = [Resting EXCEPT !.pc = "open", !.contract = c]
  OBVIOUS
<1>2. r = [pc |-> "open", contract |-> c, next |-> 1, found |-> FALSE, wrote |-> {}, links |-> {}]
  BY <1>1 DEF Resting
<1>3. r \in IngesterRecord
  BY <1>2 DEF IngesterRecord
<1>4. RunOK(r)
  BY <1>2 DEF RunOK
<1>5. ingester' = [ingester EXCEPT ![i] = r] /\ UNCHANGED <<runs, store, reader>>
  BY <1>1 DEF OpenStore
<1>. QED
  BY <1>3, <1>4, <1>5, IngesterSteps

LEMMA BeginRunInv ==
    ASSUME StoreInv, NEW i \in Ingesters, BeginRun(i)
    PROVE  StoreInv'
<1>1. PICK me : me = ingester[i]
  OBVIOUS
<1>2. me \in IngesterRecord /\ RunOK(me) /\ me.pc = "open"
  BY <1>1 DEF StoreInv, BeginRun
<1>3. PICK r : r = IF Ingested(me.contract) THEN Resting ELSE [me EXCEPT !.pc = "look"]
  OBVIOUS
<1>4. ingester' = [ingester EXCEPT ![i] = r] /\ UNCHANGED <<runs, store, reader>>
  BY <1>1, <1>3 DEF BeginRun
<1>5. Resting \in IngesterRecord /\ RunOK(Resting)
  BY DEF IngesterRecord, Resting, RunOK
<1>6. me.next = 1 /\ me.wrote = {} /\ me.contract \in Contracts
  BY <1>2 DEF RunOK
<1>7. [me EXCEPT !.pc = "look"] \in IngesterRecord
  BY <1>2 DEF IngesterRecord
<1>8. RunOK([me EXCEPT !.pc = "look"])
  <2>1. PICK l : l = [me EXCEPT !.pc = "look"]
    OBVIOUS
  <2>2. l.pc = "look" /\ l.next = 1 /\ l.wrote = {} /\ l.contract \in Contracts
    BY <1>2, <1>6, <2>1 DEF IngesterRecord
  <2>3. RunOK(l)
    BY <2>2 DEF RunOK
  <2>. QED
    BY <2>1, <2>3
<1>9. r \in IngesterRecord /\ RunOK(r)
  BY <1>3, <1>5, <1>7, <1>8
<1>. QED
  BY <1>4, <1>9, IngesterSteps

LEMMA LookUpInv ==
    ASSUME StoreInv, NEW i \in Ingesters, LookUp(i)
    PROVE  StoreInv'
<1>1. PICK me : me = ingester[i]
  OBVIOUS
<1>2. PICK f \in BOOLEAN : f = Present(RowNow(i))
  BY DEF Present
<1>3. me \in IngesterRecord /\ RunOK(me) /\ me.pc = "look" /\ me.next <= Len(RowsOf(me.contract))
  BY <1>1 DEF StoreInv, LookUp, MoreRows
<1>4. PICK r : r = [me EXCEPT !.pc = "write", !.found = f]
  OBVIOUS
<1>5. ingester' = [ingester EXCEPT ![i] = r] /\ UNCHANGED <<runs, store, reader>>
  BY <1>1, <1>2, <1>4 DEF LookUp, StoreInv
<1>6. r = [pc |-> "write", contract |-> me.contract, next |-> me.next, found |-> f,
           wrote |-> me.wrote, links |-> me.links]
  BY <1>3, <1>4 DEF IngesterRecord
<1>7. r \in IngesterRecord
  BY <1>3, <1>6 DEF IngesterRecord
<1>8. me.contract \in Contracts
  BY <1>3 DEF RunOK
<1>9. Len(RowsOf(me.contract)) \in Nat
  BY <1>8, RowsAre
<1>10. me.next \in 1..Len(RowsOf(me.contract))
  BY <1>3, <1>9 DEF IngesterRecord
<1>11. RunOK(r)
  BY <1>3, <1>6, <1>10 DEF RunOK
<1>. QED
  BY <1>5, <1>7, <1>11, IngesterSteps

\* The next row is written, and with it the rows passed are.
LEMMA WroteRowInv ==
    ASSUME StoreInv, NEW i \in Ingesters, NEW links \in SUBSET SemanticKeys,
           ingester[i].pc \in {"look", "write"}, MoreRows(i), WroteRow(i, links)
    PROVE  StoreInv'
<1>1. PICK me : me = ingester[i]
  OBVIOUS
<1>2. PICK rows : rows = RowsOf(me.contract)
  OBVIOUS
<1>3. me \in IngesterRecord /\ RunOK(me) /\ me.pc \in {"look", "write"} /\ me.next <= Len(rows)
  BY <1>1, <1>2 DEF StoreInv, MoreRows
<1>4. me.contract \in Contracts
  BY <1>3 DEF RunOK
<1>5. Len(rows) \in Nat /\ \A m \in 1..Len(rows) : rows[m] \in Rows
  BY <1>2, <1>4, RowsAre, KindsOfRows
<1>6. PICK n \in Nat : n = me.next /\ n \in 1..Len(rows)
  BY <1>3, <1>5 DEF IngesterRecord
<1>7. PICK r : r = [me EXCEPT !.pc = "look", !.next = @ + 1, !.links = links, !.wrote = @ \cup {rows[n]}]
  OBVIOUS
<1>8. ingester' = [ingester EXCEPT ![i] = r] /\ UNCHANGED <<runs, store, reader>>
  BY <1>1, <1>2, <1>6, <1>7 DEF WroteRow, RowNow, StoreInv, IngesterRecord
<1>9. r = [pc |-> "look", contract |-> me.contract, next |-> n + 1, found |-> me.found,
           wrote |-> me.wrote \cup {rows[n]}, links |-> links]
  BY <1>3, <1>6, <1>7 DEF IngesterRecord
<1>10. r \in IngesterRecord
  BY <1>3, <1>5, <1>6, <1>9 DEF IngesterRecord
<1>11. RunOK(r)
  <2>1. \A m \in 1..Len(rows) : m < n => rows[m] \in me.wrote \/ rows[m][1] = "space"
    BY <1>2, <1>3, <1>6 DEF RunOK
  <2>2. \A m \in 1..Len(rows) : m < n + 1 => m < n \/ m = n
    BY <1>5
  <2>3. \A m \in 1..Len(rows) : m < n + 1 => rows[m] \in me.wrote \cup {rows[n]} \/ rows[m][1] = "space"
    BY <2>1, <2>2
  <2>4. \A w \in me.wrote \cup {rows[n]} : \E m \in 1..Len(rows) : w = rows[m]
    BY <1>2, <1>3, <1>6 DEF RunOK
  <2>. QED
    BY <1>2, <1>4, <1>9, <2>3, <2>4 DEF RunOK
<1>. QED
  BY <1>8, <1>10, <1>11, IngesterSteps

LEMMA WriteRowInv ==
    ASSUME StoreInv, NEW i \in Ingesters, WriteRow(i)
    PROVE  StoreInv'
<1>1. PICK me : me = ingester[i]
  OBVIOUS
<1>2. PICK rows : rows = RowsOf(me.contract)
  OBVIOUS
<1>3. me \in IngesterRecord /\ RunOK(me) /\ me.pc = "write"
  BY <1>1 DEF StoreInv, WriteRow
<1>4. me.contract \in Contracts /\ me.next \in 1..Len(rows)
  BY <1>2, <1>3 DEF RunOK
<1>5. Len(rows) \in Nat
  BY <1>2, <1>4, RowsAre
<1>6. CASE IngestFails(i)
  BY <1>6, FailsInv
<1>7. CASE WroteRow(i, me.links)
  <2>1. MoreRows(i) /\ me.links \in SUBSET SemanticKeys
    BY <1>1, <1>2, <1>3, <1>4, <1>5 DEF MoreRows, IngesterRecord
  <2>. QED
    BY <1>1, <1>3, <1>7, <2>1, WroteRowInv
<1>8. CASE /\ rows[me.next][1] = "space"
           /\ ingester' = [ingester EXCEPT ![i].pc = "look", ![i].next = @ + 1]
           /\ UNCHANGED <<runs, store, reader>>
  <2>1. PICK r : r = [me EXCEPT !.pc = "look", !.next = @ + 1]
    OBVIOUS
  <2>2. PICK n \in Nat : n = me.next /\ n \in 1..Len(rows)
    BY <1>4, <1>5
  <2>3. ingester' = [ingester EXCEPT ![i] = r]
    BY <1>1, <1>8, <2>1 DEF StoreInv, IngesterRecord
  <2>4. r = [pc |-> "look", contract |-> me.contract, next |-> n + 1, found |-> me.found,
             wrote |-> me.wrote, links |-> me.links]
    BY <1>3, <2>1, <2>2 DEF IngesterRecord
  <2>5. r \in IngesterRecord
    BY <1>3, <2>2, <2>4 DEF IngesterRecord
  <2>6. RunOK(r)
    <3>1. \A m \in 1..Len(rows) : m < n => rows[m] \in me.wrote \/ rows[m][1] = "space"
      BY <1>2, <1>3, <2>2 DEF RunOK
    <3>2. \A m \in 1..Len(rows) : m < n + 1 => m < n \/ m = n
      BY <1>5, <2>2
    <3>3. \A m \in 1..Len(rows) : m < n + 1 => rows[m] \in me.wrote \/ rows[m][1] = "space"
      BY <1>8, <2>2, <3>1, <3>2
    <3>4. \A w \in me.wrote : \E m \in 1..Len(rows) : w = rows[m]
      BY <1>2, <1>3 DEF RunOK
    <3>. QED
      BY <1>2, <1>4, <2>4, <3>3, <3>4 DEF RunOK
  <2>. QED
    BY <1>8, <2>3, <2>5, <2>6, IngesterSteps
<1>. QED
  BY <1>1, <1>2, <1>6, <1>7, <1>8 DEF WriteRow, RowNow

LEMMA RelateInv ==
    ASSUME StoreInv, NEW i \in Ingesters, Relate(i) \/ LinkExternal(i)
    PROVE  StoreInv'
<1>1. ingester[i].pc \in {"look", "write"} /\ MoreRows(i)
  BY DEF Relate, LinkExternal
<1>2. CASE IngestFails(i)
  BY <1>2, FailsInv
<1>3. CASE \E links \in SUBSET SemanticKeys : WroteRow(i, links)
  BY <1>1, <1>3, WroteRowInv
<1>4. ingester[i].contract \in Contracts
  BY <1>1 DEF StoreInv, RunOK
<1>5. NativeKeys[ingester[i].contract] \subseteq SemanticKeys
  BY <1>4, StoreAssumption DEF StoreAssumption
<1>. QED
  BY <1>2, <1>3, <1>5 DEF Relate, LinkExternal

-----------------------------------------------------------------------------
(* A commit.                                                                 *)

\* Another run makes itself the last of those that declare its concepts.
LEMMA LastAfter ==
    ASSUME runs \in Seq(Contracts), NEW c \in Contracts, runs' = Append(runs, c),
           NEW k \in SemanticKeys, HasLast(k)
    PROVE  HasLast(k)' /\ LastRunOf(k)' = IF k \in DeclaredBy(c) THEN c ELSE LastRunOf(k)
<1>1. PICK n \in Nat : n = Len(runs) /\ DOMAIN runs = 1..n
  OBVIOUS
<1>2. PICK later : later = runs'
  OBVIOUS
<1>3. /\ DOMAIN later = 1..(n + 1) /\ later[n + 1] = c
      /\ \A m \in 1..n : later[m] = runs[m]
  BY <1>1, <1>2
<1>4. PICK mine : mine = Mine(k)
  OBVIOUS
<1>5. mine = {m \in 1..n : k \in DeclaredBy(runs[m])}
  BY <1>1, <1>4 DEF Mine
<1>6. PICK then : then = {m \in 1..(n + 1) : k \in DeclaredBy(later[m])}
  OBVIOUS
<1>7. Mine(k)' = then
  BY <1>2, <1>3, <1>6 DEF Mine, DeclaredBy
<1>8. LastRunOf(k) = IF mine = {} THEN Absent
                     ELSE runs[CHOOSE m \in mine : \A o \in mine : o <= m]
  BY <1>4 DEF LastRunOf, Mine
<1>9. LastRunOf(k)' = IF then = {} THEN Absent
                      ELSE later[CHOOSE m \in then : \A o \in then : o <= m]
  BY <1>2, <1>3, <1>6 DEF LastRunOf, DeclaredBy
<1>10. CASE k \in DeclaredBy(c)
  <2>1. n + 1 \in then /\ \A o \in then : o <= n + 1
    BY <1>3, <1>6, <1>10
  <2>2. PICK last : last = CHOOSE m \in then : \A o \in then : o <= m
    OBVIOUS
  <2>3. last \in then /\ \A o \in then : o <= last
    BY <2>1, <2>2
  <2>4. last = n + 1
    BY <2>1, <2>3, <1>6
  <2>5. LastRunOf(k)' = c
    BY <1>3, <1>9, <2>1, <2>2, <2>4
  <2>6. HasLast(k)'
    BY <1>7, <2>1 DEF HasLast
  <2>. QED
    BY <1>10, <2>5, <2>6
<1>11. CASE k \notin DeclaredBy(c)
  <2>1. then = mine
    <3>1. \A m \in then : m # n + 1
      BY <1>3, <1>6, <1>11
    <3>2. \A m \in 1..(n + 1) : m # n + 1 => m \in 1..n
      BY <1>1
    <3>3. then \subseteq mine
      BY <1>3, <1>5, <1>6, <3>1, <3>2
    <3>4. mine \subseteq then
      BY <1>1, <1>3, <1>5, <1>6
    <3>. QED
      BY <3>3, <3>4
  <2>2. HasLast(k)'
    BY <1>4, <1>7, <2>1 DEF HasLast
  <2>3. CASE mine = {}
    BY <1>8, <1>9, <1>11, <2>1, <2>2, <2>3
  <2>4. CASE mine # {}
    <3>1. \E m \in mine : \A o \in mine : o <= m
      BY <1>4, <2>4 DEF HasLast
    <3>2. PICK last : last = CHOOSE m \in mine : \A o \in mine : o <= m
      OBVIOUS
    <3>3. last \in mine
      BY <3>1, <3>2
    <3>4. later[last] = runs[last]
      BY <1>3, <1>5, <3>3
    <3>. QED
      BY <1>8, <1>9, <1>11, <2>1, <2>2, <2>4, <3>2, <3>4
  <2>. QED
    BY <2>3, <2>4
<1>. QED
  BY <1>10, <1>11

\* A run that is through has written every concept of its contract, and its relationships.
LEMMA ThroughWroteAll ==
    ASSUME NEW me \in IngesterRecord, RunOK(me), me.pc = "look", ~(me.next <= Len(RowsOf(me.contract)))
    PROVE  /\ me.contract \in Contracts /\ <<"edges", me.contract>> \in me.wrote
           /\ \A k : <<"concept", k>> \in me.wrote <=> k \in DeclaredBy(me.contract)
<1>1. PICK c : c = me.contract
  OBVIOUS
<1>2. PICK rows : rows = RowsOf(c)
  OBVIOUS
<1>3. c \in Contracts /\ Len(rows) \in Nat /\ me.next \in Nat
  BY <1>1, <1>2, RowsAre DEF RunOK, IngesterRecord
<1>4. \A m \in 1..Len(rows) : m < me.next
  BY <1>1, <1>2, <1>3
<1>5. /\ \A m \in 1..Len(rows) : rows[m] \in me.wrote \/ rows[m][1] = "space"
      /\ \A r \in me.wrote : \E m \in 1..Len(rows) : r = rows[m]
  BY <1>1, <1>2, <1>4 DEF RunOK
<1>6. /\ \A k : (\E m \in 1..Len(rows) : rows[m] = <<"concept", k>>) <=> k \in DeclaredBy(c)
      /\ \E m \in 1..Len(rows) : rows[m] = <<"edges", c>>
  BY <1>2, <1>3, KindsOfRows
<1>7. <<"edges", c>> \in me.wrote
  <2>1. PICK m \in 1..Len(rows) : rows[m] = <<"edges", c>>
    BY <1>6
  <2>2. rows[m][1] # "space"
    BY <2>1
  <2>. QED
    BY <1>5, <2>1, <2>2
<1>8. ASSUME NEW k, k \in DeclaredBy(c) PROVE <<"concept", k>> \in me.wrote
  <2>1. PICK m \in 1..Len(rows) : rows[m] = <<"concept", k>>
    BY <1>6, <1>8
  <2>2. rows[m][1] # "space"
    BY <2>1
  <2>. QED
    BY <1>5, <2>1, <2>2
<1>9. ASSUME NEW k, <<"concept", k>> \in me.wrote PROVE k \in DeclaredBy(c)
  BY <1>5, <1>6, <1>9
<1>. QED
  BY <1>1, <1>3, <1>7, <1>8, <1>9

LEMMA CompleteRunInv ==
    ASSUME StoreInv, NEW i \in Ingesters, CompleteRun(i)
    PROVE  StoreInv'
<1>1. PICK me : me = ingester[i]
  OBVIOUS
<1>2. PICK c : c = me.contract
  OBVIOUS
<1>3. me \in IngesterRecord /\ RunOK(me) /\ me.pc = "look" /\ ~(me.next <= Len(RowsOf(c)))
  BY <1>1, <1>2 DEF StoreInv, CompleteRun, MoreRows
<1>4. c \in Contracts /\ <<"edges", c>> \in me.wrote
      /\ \A k : <<"concept", k>> \in me.wrote <=> k \in DeclaredBy(c)
  BY <1>2, <1>3, ThroughWroteAll
<1>5. runs' = Append(runs, c) /\ store' = Applied(store, c, me.wrote, me.links) /\ reader' = reader
      /\ ingester' = [ingester EXCEPT ![i] = Resting]
  BY <1>1, <1>2 DEF CompleteRun
<1>6. PICK keys : keys = {k \in SemanticKeys : <<"concept", k>> \in me.wrote}
  OBVIOUS
<1>7. \A k \in SemanticKeys : k \in keys <=> k \in DeclaredBy(c)
  BY <1>4, <1>6
<1>8. PICK old : old = store
  OBVIOUS
<1>9. old \in StoreRecord
  BY <1>8 DEF StoreInv
<1>10. PICK new : new = Applied(old, c, me.wrote, me.links)
  OBVIOUS
<1>11. store' = new
  BY <1>5, <1>8, <1>10
<1>12. /\ new.concept = [k \in SemanticKeys |-> IF k \in keys THEN c ELSE old.concept[k]]
       /\ new.aliases = old.aliases \cup {p \in keys \X Terms : p[2] \in AliasesOf[c][p[1]]}
       /\ new.edges = old.edges \cup Relations[c]
  BY <1>4, <1>6, <1>10 DEF Applied
<1>13. Relations[c] \subseteq SemanticKeys \X SemanticKeys /\ MappedFields[c] \subseteq SemanticKeys
       /\ \A k \in SemanticKeys : AliasesOf[c][k] \subseteq Terms
  BY <1>4, StoreAssumption DEF StoreAssumption
<1>A. new \in StoreRecord
  <2>1. new.concept \in [SemanticKeys -> Contracts \cup {Absent}]
    BY <1>4, <1>9, <1>12 DEF StoreRecord
  <2>2. new.aliases \subseteq SemanticKeys \X Terms
    BY <1>6, <1>9, <1>12 DEF StoreRecord
  <2>3. new.edges \subseteq SemanticKeys \X SemanticKeys
    BY <1>9, <1>12, <1>13 DEF StoreRecord
  <2>4. new.spaces \subseteq Namespaces /\ new.views \subseteq Namespaces
    BY <1>9, <1>10 DEF StoreRecord, Applied
  <2>5. new.mapped \subseteq SemanticKeys
    BY <1>9, <1>10, <1>13 DEF StoreRecord, Applied
  <2>6. new.links \subseteq SemanticKeys
    BY <1>3, <1>9, <1>10 DEF StoreRecord, Applied, IngesterRecord
  <2>7. new = [spaces |-> new.spaces, views |-> new.views, concept |-> new.concept,
               aliases |-> new.aliases, edges |-> new.edges, mapped |-> new.mapped, links |-> new.links]
    BY <1>10 DEF Applied
  <2>. QED
    BY <2>1, <2>2, <2>3, <2>4, <2>5, <2>6, <2>7 DEF StoreRecord
<1>15. ASSUME NEW k \in SemanticKeys
       PROVE  new.concept[k] = LastRunOf(k)' /\ HasLast(k)'
  <2>1. runs \in Seq(Contracts) /\ HasLast(k) /\ old.concept[k] = LastRunOf(k)
    BY <1>8 DEF StoreInv, WholeRuns
  <2>2. HasLast(k)' /\ LastRunOf(k)' = IF k \in DeclaredBy(c) THEN c ELSE LastRunOf(k)
    BY <1>4, <1>5, <2>1, LastAfter
  <2>. QED
    BY <1>7, <1>12, <2>1, <2>2
<1>16. \A k, d : HasAliases(k, d) => HasAliases(k, d)'
  BY <1>8, <1>11, <1>12 DEF HasAliases
<1>17. ASSUME NEW k \in SemanticKeys, new.concept[k] # Absent
       PROVE  HasAliases(k, new.concept[k])'
  <2>1. CASE k \in keys
    <3>1. new.concept[k] = c
      BY <1>12, <2>1
    <3>2. \A t \in AliasesOf[c][k] : <<k, t>> \in new.aliases
      BY <1>12, <1>13, <2>1
    <3>. QED
      BY <1>11, <3>1, <3>2 DEF HasAliases
  <2>2. CASE k \notin keys
    <3>1. new.concept[k] = old.concept[k]
      BY <1>12, <2>2
    <3>2. HasAliases(k, old.concept[k])
      BY <1>8, <1>17, <3>1 DEF StoreInv, WholeRuns
    <3>. QED
      BY <1>16, <3>1, <3>2
  <2>. QED
    BY <2>1, <2>2
<1>18. runs' \in Seq(Contracts)
       /\ \A n \in DOMAIN runs' : runs'[n] = c \/ (n \in DOMAIN runs /\ runs'[n] = runs[n])
  BY <1>4, <1>5 DEF StoreInv
<1>19. \A n \in DOMAIN runs' : Relations[runs'[n]] \subseteq new.edges
  BY <1>8, <1>12, <1>18 DEF StoreInv, WholeRuns
<1>20. WholeRuns'
  BY <1>11, <1>15, <1>17, <1>19 DEF WholeRuns
<1>21. ReaderOK'
  BY <1>5, <1>16 DEF StoreInv, ReaderOK
<1>22. Resting \in IngesterRecord /\ RunOK(Resting)
  BY DEF IngesterRecord, Resting, RunOK
<1>23. ingester' \in [Ingesters -> IngesterRecord] /\ \A j \in Ingesters : RunOK(ingester'[j])
  BY <1>5, <1>22 DEF StoreInv
<1>. QED
  BY <1>5, <1>11, <1>A, <1>18, <1>20, <1>21, <1>23 DEF StoreInv

-----------------------------------------------------------------------------
(* The reader.                                                               *)

LEMMA QuestionInv ==
    ASSUME StoreInv, AskForKey \/ AskForAlias \/ AnswerQuestion
    PROVE  StoreInv'
<1>1. UNCHANGED <<runs, store, ingester>>
  BY DEF AskForKey, AskForAlias, AnswerQuestion, Question
<1>2. reader' \in ReaderRecord /\ reader'.answer.by = Absent
  <2>1. ASSUME NEW S \in SUBSET SemanticKeys, reader' = [NoQuestion EXCEPT !.todo = S]
        PROVE  reader' \in ReaderRecord /\ reader'.answer.by = Absent
    <3>1. reader' = [todo |-> S, answer |-> [key |-> Absent, by |-> Absent, aliases |-> {}, whole |-> TRUE]]
      BY <2>1 DEF NoQuestion, NoAnswer
    <3>. QED
      BY <3>1 DEF ReaderRecord
  <2>2. CASE AskForKey
    <3>1. PICK k \in SemanticKeys : Question({k})
      BY <2>2 DEF AskForKey
    <3>2. {k} \in SUBSET SemanticKeys /\ reader' = [NoQuestion EXCEPT !.todo = {k}]
      BY <3>1 DEF Question
    <3>. QED
      BY <2>1, <3>2
  <2>3. CASE AskForAlias
    <3>1. PICK t \in Terms : Question({k \in SemanticKeys : <<k, t>> \in store.aliases})
      BY <2>3 DEF AskForAlias
    <3>2. PICK S : S = {k \in SemanticKeys : <<k, t>> \in store.aliases}
      OBVIOUS
    <3>3. S \in SUBSET SemanticKeys /\ reader' = [NoQuestion EXCEPT !.todo = S]
      BY <3>1, <3>2 DEF Question
    <3>. QED
      BY <2>1, <3>3
  <2>4. CASE AnswerQuestion
    <3>1. reader' = NoQuestion
      BY <2>4 DEF AnswerQuestion
    <3>. QED
      BY <3>1 DEF NoQuestion, NoAnswer, ReaderRecord
  <2>. QED
    BY <2>2, <2>3, <2>4
<1>3. ReaderOK'
  BY <1>2 DEF ReaderOK
<1>. QED
  BY <1>1, <1>2, <1>3, ReaderSteps

LEMMA ReadRowInv ==
    ASSUME StoreInv, ReadRow
    PROVE  StoreInv'
<1>1. PICK k \in reader.todo :
         reader' = IF store.concept[k] # Absent
                   THEN [todo |-> reader.todo \ {k},
                         answer |-> [NoAnswer EXCEPT !.key = k, !.by = store.concept[k],
                                                     !.whole = FALSE]]
                   ELSE IF k \in Bootstrap THEN [NoQuestion EXCEPT !.todo = reader.todo \ {k}]
                   ELSE NoQuestion
  BY DEF ReadRow
<1>2. UNCHANGED <<runs, store, ingester>> /\ k \in SemanticKeys /\ reader.todo \subseteq SemanticKeys
      /\ store.concept[k] \in Contracts \cup {Absent}
  BY DEF ReadRow, StoreInv, ReaderRecord, StoreRecord
<1>3. CASE store.concept[k] # Absent
  <2>1. reader' = [todo |-> reader.todo \ {k},
                   answer |-> [key |-> k, by |-> store.concept[k], aliases |-> {}, whole |-> FALSE]]
    BY <1>1, <1>3 DEF NoAnswer
  <2>2. reader' \in ReaderRecord
    BY <1>2, <2>1 DEF ReaderRecord
  <2>3. HasAliases(k, store.concept[k])'
    BY <1>2, <1>3 DEF StoreInv, WholeRuns, HasAliases
  <2>4. ReaderOK'
    BY <1>2, <2>1, <2>3 DEF ReaderOK
  <2>. QED
    BY <1>2, <2>2, <2>4, ReaderSteps
<1>4. CASE store.concept[k] = Absent
  <2>1. reader'.answer.by = Absent /\ reader' \in ReaderRecord
    BY <1>1, <1>2, <1>4 DEF NoQuestion, NoAnswer, ReaderRecord
  <2>2. ReaderOK'
    BY <2>1 DEF ReaderOK
  <2>. QED
    BY <1>2, <2>1, <2>2, ReaderSteps
<1>. QED
  BY <1>3, <1>4

LEMMA ReadAliasesInv ==
    ASSUME StoreInv, ReadAliases
    PROVE  StoreInv'
<1>1. PICK a : a = reader.answer
  OBVIOUS
<1>2. PICK all : all = {t \in Terms : <<a.key, t>> \in store.aliases}
  OBVIOUS
<1>3. reader \in ReaderRecord /\ UNCHANGED <<runs, store, ingester>>
  BY DEF StoreInv, ReadAliases
<1>4. reader' = [todo |-> reader.todo,
                 answer |-> [key |-> a.key, by |-> a.by, aliases |-> all, whole |-> TRUE]]
  BY <1>1, <1>2, <1>3 DEF ReadAliases, ReaderRecord
<1>5. reader' \in ReaderRecord
  BY <1>1, <1>2, <1>3, <1>4 DEF ReaderRecord
<1>6. ASSUME a.by # Absent
      PROVE  a.key \in SemanticKeys /\ HasAliases(a.key, a.by) /\ AliasesOf[a.by][a.key] \subseteq all
  <2>1. a.key \in SemanticKeys /\ HasAliases(a.key, a.by)
    BY <1>1, <1>6 DEF StoreInv, ReaderOK
  <2>2. a.by \in Contracts
    BY <1>1, <1>3, <1>6 DEF ReaderRecord
  <2>3. AliasesOf[a.by][a.key] \subseteq Terms
    BY <2>1, <2>2, StoreAssumption DEF StoreAssumption
  <2>. QED
    BY <1>2, <2>1, <2>3 DEF HasAliases
<1>7. \A k, c : HasAliases(k, c)' <=> HasAliases(k, c)
  BY <1>3 DEF HasAliases
<1>8. ReaderOK'
  BY <1>4, <1>6, <1>7 DEF ReaderOK
<1>. QED
  BY <1>3, <1>5, <1>8, ReaderSteps

-----------------------------------------------------------------------------
LEMMA StoreStepInv == StoreInv /\ [StoreNext]_storeVars => StoreInv'
<1> SUFFICES ASSUME StoreInv, [StoreNext]_storeVars PROVE StoreInv'
  OBVIOUS
<1>1. CASE UNCHANGED storeVars
  BY <1>1 DEF storeVars, StoreInv, WholeRuns, LastRunOf, HasLast, Mine, HasAliases, ReaderOK
<1>2. ASSUME NEW i \in Ingesters, NEW c \in Contracts, OpenStore(i, c) PROVE StoreInv'
  BY <1>2, OpenStoreInv
<1>3. ASSUME NEW i \in Ingesters, BeginRun(i) PROVE StoreInv'
  BY <1>3, BeginRunInv
<1>4. ASSUME NEW i \in Ingesters, LookUp(i) PROVE StoreInv'
  BY <1>4, LookUpInv
<1>5. ASSUME NEW i \in Ingesters, WriteRow(i) PROVE StoreInv'
  BY <1>5, WriteRowInv
<1>6. ASSUME NEW i \in Ingesters, Relate(i) \/ LinkExternal(i) PROVE StoreInv'
  BY <1>6, RelateInv
<1>7. ASSUME NEW i \in Ingesters, CompleteRun(i) PROVE StoreInv'
  BY <1>7, CompleteRunInv
<1>8. ASSUME NEW i \in Ingesters, StatementRaises(i) PROVE StoreInv'
  BY <1>8, FailsInv DEF StatementRaises
<1>9. CASE AskForKey \/ AskForAlias \/ AnswerQuestion
  BY <1>9, QuestionInv
<1>10. CASE ReadRow
  BY <1>10, ReadRowInv
<1>11. CASE ReadAliases
  BY <1>11, ReadAliasesInv
<1>. QED
  BY <1>1, <1>2, <1>3, <1>4, <1>5, <1>6, <1>7, <1>8, <1>9, <1>10, <1>11 DEF StoreNext

LEMMA StoreAlwaysInv == StoreSpec => []StoreInv
<1>1. StoreInit => StoreInv
  BY StoreInitInv
<1>2. StoreInv /\ [StoreNext]_storeVars => StoreInv'
  BY StoreStepInv
<1>. QED
  BY <1>1, <1>2, PTL DEF StoreSpec

\* The types of the store, its runs, its writers and its reader.
THEOREM StoreTypeCorrect == StoreSpec => []StoreTypeOK
<1>1. StoreInv => StoreTypeOK
  <2> SUFFICES ASSUME StoreInv PROVE StoreTypeOK
    OBVIOUS
  <2>1. runs \in Seq(Contracts) /\ reader.todo \subseteq SemanticKeys
    BY DEF StoreInv, ReaderRecord
  <2>2. /\ store.concept \in [SemanticKeys -> Contracts \cup {Absent}]
        /\ store.aliases \subseteq SemanticKeys \X Terms
        /\ store.links \cup store.mapped \subseteq SemanticKeys
    BY DEF StoreInv, StoreRecord
  <2>3. ASSUME NEW i \in Ingesters
        PROVE  /\ ingester[i].pc \in {"idle", "open", "look", "write"}
               /\ \A r \in ingester[i].wrote : r[1] \in RowKinds
    <3>1. ingester[i] \in IngesterRecord
      BY DEF StoreInv
    <3>2. ingester[i].pc \in {"idle", "open", "look", "write"} /\ ingester[i].wrote \subseteq Rows
      BY <3>1 DEF IngesterRecord
    <3>3. \A r \in Rows : r[1] \in RowKinds
      BY DEF Rows, RowKinds
    <3>. QED
      BY <3>2, <3>3
  <2>. QED
    BY <2>1, <2>2, <2>3 DEF StoreTypeOK
<1>. QED
  BY <1>1, StoreAlwaysInv, PTL

\* Whatever contracts there are, and however many processes ingest them at once: what the
\* provider can read is what whole, completed runs wrote.
THEOREM WholeIngestionsCorrect == StoreSpec => []OnlyWholeIngestions
<1>1. StoreInv => OnlyWholeIngestions
  BY DEF StoreInv, WholeRuns, ReaderOK, OnlyWholeIngestions
<1>. QED
  BY <1>1, StoreAlwaysInv, PTL

-----------------------------------------------------------------------------
(* EvidencePipeline: that what is called sufficient is, for whatever          *)
(* requirements a planner proposes and whatever capabilities are registered.  *)

ConstraintTypes == {"ENTITY", "CAPABILITY", "TEMPORAL"}
Gaps == {"SEMANTIC_KNOWLEDGE_GAP", "CONTEXT_CAPABILITY_UNAVAILABLE", "DATA_UNAVAILABLE",
         "DATA_INACCESSIBLE", "PROVIDER_EXECUTION_ERROR", "EVIDENCE_SUFFICIENT"}
Requirements == [of : Descriptions \cup Capabilities, ids : SUBSET {Warehouse, Balance},
                 types : SUBSET ConstraintTypes]
EvidenceItem == [req : Requirements, cap : Capabilities \cup {"none"}, gap : Gaps]
RequestRecord == [kind : Kinds4, session : BOOLEAN, round : Nat,
                  pc : {"new", "collect", "extend", "package", "reason", "store", "answered",
                        "refused", "raised"},
                  verdict : {"none", "SUFFICIENT", "INSUFFICIENT"}]

EvidenceTypeOK ==
    /\ request \in RequestRecord
    /\ asked \subseteq Requirements /\ todo \subseteq asked
    /\ \/ pending.caps = {}
       \/ /\ pending \in [req : asked, caps : SUBSET Capabilities]
          /\ pending.caps \subseteq Matching(pending.req)
    /\ items \subseteq EvidenceItem
    /\ stored \in BOOLEAN

\* There is an item of what c answered for the requirement, or that it did not.
Answered(r, c) == \E i \in items : i.req = r /\ i.cap = c

\* There is an item that says why the requirement has no evidence.
HasGap(r) == \E i \in items : i.req = r /\ i.gap # "EVIDENCE_SUFFICIENT"

\* No requirement is forgotten: it waits, it is being asked for, or it has its items.
Accounted(r) ==
    \/ r \in todo
    \/ /\ pending.caps # {} /\ pending.req = r
       /\ \A c \in Matching(r) \ pending.caps : Answered(r, c)
    \/ HasGap(r)
    \/ Matching(r) # {} /\ \A c \in Matching(r) : Answered(r, c)

\* Between rounds nothing is left to do; a verdict ends the last one.
Settled ==
    /\ request.pc \notin {"collect", "raised"} => todo = {} /\ pending.caps = {}
    /\ request.verdict = "SUFFICIENT" =>
         /\ request.pc \notin {"new", "collect", "extend"}
         /\ todo = {} /\ pending.caps = {}
         /\ \A i \in items : i.gap = "EVIDENCE_SUFFICIENT"

\* The inventory reasons, remembers and answers only after that verdict.
Guarded ==
    /\ stored => request.pc = "answered"
    /\ request.kind = "inventory" /\ request.pc \in {"reason", "store", "answered"}
         => request.verdict = "SUFFICIENT"

EvidenceInv == EvidenceTypeOK /\ (\A r \in asked : Accounted(r)) /\ Settled /\ Guarded

LEMMA EvidenceInitInv == EvidenceInit => EvidenceInv
<1> SUFFICES ASSUME EvidenceInit PROVE EvidenceInv
  OBVIOUS
<1>1. /\ request \in RequestRecord /\ request.pc = "new" /\ request.verdict = "none"
      /\ todo = {} /\ pending.caps = {} /\ items = {} /\ asked = {} /\ stored = FALSE
  BY DEF EvidenceInit, RequestRecord, NothingPending, Kinds4
<1> QED BY <1>1 DEF EvidenceInv, EvidenceTypeOK, Settled, Guarded

LEMMA PlainType ==
    ASSUME NEW d \in Descriptions
    PROVE  /\ Plain(d) \in Requirements
           /\ [Plain(d) EXCEPT !.types = @ \cup {"ENTITY"}] \in Requirements
  BY EvidenceAssumption DEF EvidenceAssumption, Plain, Requirements, ConstraintTypes

LEMMA QuestionType ==
    ASSUME NEW target \in Capabilities, NEW scope \in BOOLEAN, NEW cond \in BOOLEAN
    PROVE  [of |-> target, ids |-> Extracted(scope, cond), types |-> TypesOf(scope, cond)]
             \in Requirements
<1>1. Extracted(scope, cond) \subseteq {Warehouse, Balance} BY DEF Extracted
<1>2. TypesOf(scope, cond) \subseteq ConstraintTypes BY DEF TypesOf, ConstraintTypes
<1> QED BY <1>1, <1>2 DEF Requirements

\* A new round begins when the last one left nothing to do.
LEMMA NextRound ==
    ASSUME EvidenceInv, request.pc \in {"new", "extend"},
           NEW S \in SUBSET Requirements, Require(S), UNCHANGED <<pending, items, stored>>,
           request' \in RequestRecord, request'.pc = "collect",
           request'.verdict = request.verdict
    PROVE  EvidenceInv'
<1>1. todo = {} /\ pending.caps = {} /\ request.verdict # "SUFFICIENT" /\ ~stored
  BY DEF EvidenceInv, EvidenceTypeOK, RequestRecord, Settled, Guarded
<1>2. EvidenceTypeOK'
  BY <1>1 DEF EvidenceInv, EvidenceTypeOK, Require, Matching
<1>3. \A r \in asked' : Accounted(r)'
  <2> SUFFICES ASSUME NEW r \in asked', r \notin S PROVE Accounted(r)'
    BY DEF Require, Accounted
  <2>1. r \in asked BY DEF Require
  <2>2. HasGap(r) \/ (Matching(r) # {} /\ \A c \in Matching(r) : Answered(r, c))
    BY <1>1, <2>1 DEF EvidenceInv, Accounted
  <2> QED BY <2>2 DEF Accounted, HasGap, Answered, Matching
<1>4. Settled' /\ Guarded' BY <1>1 DEF Settled, Guarded
<1> QED BY <1>2, <1>3, <1>4 DEF EvidenceInv

\* A request moves on with what it has.
LEMMA MovesOn ==
    ASSUME EvidenceInv, UNCHANGED <<todo, pending, items, asked, stored>>,
           request' \in RequestRecord,
           request'.kind = request.kind, Settled', Guarded'
    PROVE  EvidenceInv'
<1>1. EvidenceTypeOK' BY DEF EvidenceInv, EvidenceTypeOK, Matching
<1>2. \A r \in asked' : Accounted(r)'
  BY DEF EvidenceInv, Accounted, HasGap, Answered, Matching
<1> QED BY <1>1, <1>2 DEF EvidenceInv

LEMMA RecordMoved ==
    ASSUME request \in RequestRecord,
           NEW to \in {"new", "collect", "extend", "package", "reason", "store", "answered",
                       "refused", "raised"}, Now(to)
    PROVE  /\ request' \in RequestRecord
           /\ request'.kind = request.kind /\ request'.pc = to
           /\ request'.verdict = request.verdict
  BY DEF RequestRecord, Now

LEMMA ResolveInv ==
    ASSUME EvidenceInv, NEW r \in todo, ResolveRequirement(r)
    PROVE  EvidenceInv'
<1> DEFINE gap == Item(r, "none", IF Unresolvable(r) THEN "SEMANTIC_KNOWLEDGE_GAP"
                                  ELSE "CONTEXT_CAPABILITY_UNAVAILABLE")
<1>1. /\ request' = request /\ asked' = asked /\ stored' = stored /\ todo' = todo \ {r}
      /\ request.pc = "collect" /\ pending.caps = {}
  BY DEF ResolveRequirement, At
<1>2. r \in asked /\ r \in Requirements BY DEF EvidenceInv, EvidenceTypeOK
<1>3. request.verdict # "SUFFICIENT" BY <1>1 DEF EvidenceInv, Settled
<1>4. Settled' /\ Guarded'
  BY <1>1, <1>3 DEF EvidenceInv, Settled, Guarded
<1>5. CASE Unresolvable(r) \/ Matching(r) = {}
  <2>1. items' = items \cup {gap} /\ pending' = pending BY <1>5 DEF ResolveRequirement
  <2>2. gap \in EvidenceItem /\ gap.req = r /\ gap.gap # "EVIDENCE_SUFFICIENT"
    BY <1>2 DEF EvidenceItem, Item, Gaps
  <2>3. EvidenceTypeOK' BY <1>1, <2>1, <2>2 DEF EvidenceInv, EvidenceTypeOK
  <2>4. ASSUME NEW s \in asked PROVE Accounted(s)'
    <3>1. CASE s = r BY <2>1, <2>2, <3>1 DEF Accounted, HasGap
    <3>2. CASE s # r
      BY <1>1, <2>1, <3>2 DEF EvidenceInv, Accounted, HasGap, Answered, Matching
    <3> QED BY <3>1, <3>2
  <2> QED BY <1>1, <1>4, <2>3, <2>4 DEF EvidenceInv
<1>6. CASE ~(Unresolvable(r) \/ Matching(r) = {})
  <2>1. items' = items /\ pending' = [req |-> r, caps |-> Matching(r)]
    BY <1>6 DEF ResolveRequirement
  <2>2. EvidenceTypeOK'
    BY <1>1, <1>2, <2>1 DEF EvidenceInv, EvidenceTypeOK, Matching
  <2>3. ASSUME NEW s \in asked PROVE Accounted(s)'
    <3>1. CASE s = r BY <1>6, <2>1, <3>1 DEF Accounted, Matching
    <3>2. CASE s # r
      BY <1>1, <2>1, <3>2 DEF EvidenceInv, Accounted, HasGap, Answered, Matching
    <3> QED BY <3>1, <3>2
  <2> QED BY <1>1, <1>4, <2>2, <2>3 DEF EvidenceInv
<1> QED BY <1>5, <1>6

LEMMA InvokeInv ==
    ASSUME EvidenceInv, NEW c \in pending.caps, InvokeCapability(c)
    PROVE  EvidenceInv'
<1>1. /\ request' = request /\ asked' = asked /\ stored' = stored /\ todo' = todo
      /\ request.pc = "collect" /\ pending.caps # {}
  BY DEF InvokeCapability, At
<1>2. PICK gap \in Gaps : items' = items \cup {Item(pending.req, c, gap)}
  <2>1. PICK status \in {"SUCCESS", "DATA_UNAVAILABLE", "UNAUTHORIZED", "ERROR"},
             data \in BOOLEAN : items' = items \cup {Item(pending.req, c, GapOf(status, data))}
    BY DEF InvokeCapability
  <2>2. GapOf(status, data) \in Gaps BY DEF GapOf, Gaps
  <2> QED BY <2>1, <2>2
<1>3. /\ pending \in [req : asked, caps : SUBSET Capabilities]
      /\ pending.caps \subseteq Matching(pending.req)
  BY <1>1 DEF EvidenceInv, EvidenceTypeOK
<1>4. /\ pending.caps = {c} => pending'.caps = {}
      /\ pending.caps # {c} => /\ pending' = [pending EXCEPT !.caps = @ \ {c}]
                               /\ pending'.req = pending.req /\ pending'.caps = pending.caps \ {c}
                               /\ pending' \in [req : asked, caps : SUBSET Capabilities]
  BY <1>3 DEF InvokeCapability, NothingPending
<1>5. Settled' /\ Guarded' BY <1>1 DEF EvidenceInv, Settled, Guarded
<1>6. pending.req \in Requirements /\ c \in Capabilities
  BY <1>3 DEF EvidenceInv, EvidenceTypeOK
<1>7. EvidenceTypeOK'
  <2>1. items' \subseteq EvidenceItem
    BY <1>2, <1>6 DEF EvidenceInv, EvidenceTypeOK, EvidenceItem, Item
  <2>2. \/ pending'.caps = {}
        \/ /\ pending' \in [req : asked', caps : SUBSET Capabilities]
           /\ pending'.caps \subseteq Matching(pending'.req)
    BY <1>1, <1>3, <1>4
  <2> QED BY <1>1, <2>1, <2>2 DEF EvidenceInv, EvidenceTypeOK, Matching
<1>8. \A r, k : Answered(r, k) => Answered(r, k)'
  BY <1>2 DEF Answered
<1>9. \A r : r = pending.req => Answered(r, c)'
  <2> DEFINE item == Item(pending.req, c, gap)
  <2>1. item \in items' /\ item.req = pending.req /\ item.cap = c BY <1>2 DEF Item
  <2> HIDE DEF item
  <2> QED BY <2>1 DEF Answered
<1>10. \A r : HasGap(r) => HasGap(r)' BY <1>2 DEF HasGap
<1>11. ASSUME NEW r \in asked PROVE Accounted(r)'
  <2>1. Matching(r)' = Matching(r) BY DEF Matching
  <2>2. CASE r = pending.req /\ \A k \in Matching(r) \ pending.caps : Answered(r, k)
    <3>1. CASE pending.caps = {c}
      <4>1. \A k \in Matching(r) : Answered(r, k)'
        BY <1>8, <1>9, <2>2, <3>1
      <4>2. c \in Matching(r) BY <1>3, <2>2
      <4> QED BY <2>1, <4>1, <4>2 DEF Accounted
    <3>2. CASE pending.caps # {c}
      <4>1. \A k \in Matching(r) \ pending'.caps : Answered(r, k)'
        BY <1>4, <1>8, <1>9, <2>2, <3>2
      <4>2. pending'.caps # {} /\ pending'.req = r BY <1>4, <2>2, <3>2
      <4> QED BY <2>1, <4>1, <4>2 DEF Accounted
    <3> QED BY <3>1, <3>2
  <2>3. CASE r \in todo \/ HasGap(r)
             \/ (Matching(r) # {} /\ \A k \in Matching(r) : Answered(r, k))
    BY <1>1, <1>8, <1>10, <2>1, <2>3 DEF Accounted
  <2>4. Accounted(r) BY DEF EvidenceInv
  <2> QED BY <2>2, <2>3, <2>4 DEF Accounted
<1> QED BY <1>1, <1>5, <1>7, <1>11 DEF EvidenceInv

LEMMA AssessInv == ASSUME EvidenceInv, Assess PROVE EvidenceInv'
<1> DEFINE enough == \A i \in items : i.gap = "EVIDENCE_SUFFICIENT"
<1>1. /\ todo = {} /\ pending.caps = {} /\ request.pc = "collect"
      /\ UNCHANGED <<todo, pending, items, asked, stored>>
  BY DEF Assess, At
<1>2. request \in RequestRecord BY DEF EvidenceInv, EvidenceTypeOK
<1>3. PICK to \in {"reason", "refused", "extend", "package"} :
        /\ request' = [request EXCEPT
             !.verdict = IF enough THEN "SUFFICIENT" ELSE "INSUFFICIENT", !.pc = to]
        /\ to = "extend" => ~enough
        /\ to = "reason" => enough
  <2> DEFINE to == CASE request.kind = "inventory" -> IF enough THEN "reason" ELSE "refused"
                     [] /\ request.kind = "query" /\ ~enough
                        /\ request.round < MaxIterations -> "extend"
                     [] OTHER -> "package"
  <2>1. /\ to \in {"reason", "refused", "extend", "package"}
        /\ to = "extend" => ~enough
        /\ to = "reason" => enough
    OBVIOUS
  <2>2. request' = [request EXCEPT
             !.verdict = IF enough THEN "SUFFICIENT" ELSE "INSUFFICIENT", !.pc = to]
    BY DEF Assess, Judged
  <2> QED BY <2>1, <2>2
<1>4. /\ request' \in RequestRecord /\ request'.kind = request.kind /\ request'.pc = to
      /\ request'.verdict = IF enough THEN "SUFFICIENT" ELSE "INSUFFICIENT"
  BY <1>2, <1>3 DEF RequestRecord
<1>5. Settled' BY <1>1, <1>3, <1>4 DEF Settled
<1>6. Guarded' BY <1>1, <1>3, <1>4 DEF Guarded, EvidenceInv
<1> QED BY <1>1, <1>4, <1>5, <1>6, MovesOn

LEMMA EvidenceStepInv == EvidenceInv /\ [EvidenceNext]_evidenceVars => EvidenceInv'
<1> SUFFICES ASSUME EvidenceInv, [EvidenceNext]_evidenceVars PROVE EvidenceInv'
  OBVIOUS
<1>0. request \in RequestRecord BY DEF EvidenceInv, EvidenceTypeOK
<1>1. CASE Raises
  <2>1. /\ request' \in RequestRecord /\ request'.kind = request.kind /\ request'.pc = "raised"
        /\ request'.verdict = request.verdict
    BY <1>0, <1>1, RecordMoved DEF Raises
  <2>2. Settled' /\ Guarded' BY <1>1, <2>1 DEF Raises, EvidenceInv, Settled, Guarded
  <2> QED BY <1>1, <2>1, <2>2, MovesOn DEF Raises
<1>2. CASE ProposePlan
  <2>1. PICK D \in SUBSET Descriptions : Require({Plain(d) : d \in D})
    BY <1>2 DEF ProposePlan
  <2>2. {Plain(d) : d \in D} \in SUBSET Requirements BY PlainType
  <2>3. /\ request' \in RequestRecord /\ request'.pc = "collect"
        /\ request'.verdict = request.verdict
    BY <1>0, <1>2, RecordMoved DEF ProposePlan
  <2> QED BY <1>2, <2>1, <2>2, <2>3, NextRound DEF ProposePlan, At
<1>3. CASE RouteEvent
  <2>1. PICK d \in Descriptions : Require({[Plain(d) EXCEPT !.types = @ \cup {"ENTITY"}]})
    BY <1>3 DEF RouteEvent
  <2>2. {[Plain(d) EXCEPT !.types = @ \cup {"ENTITY"}]} \in SUBSET Requirements BY PlainType
  <2>3. /\ request' \in RequestRecord /\ request'.pc = "collect"
        /\ request'.verdict = request.verdict
    BY <1>0, <1>3, RecordMoved DEF RouteEvent
  <2> QED BY <1>3, <2>1, <2>2, <2>3, NextRound DEF RouteEvent, At
<1>4. CASE ParseQuestion
  <2>1. request.pc = "new" /\ UNCHANGED <<pending, items, stored>>
    BY <1>4 DEF ParseQuestion, At
  <2>2. CASE Now("refused") /\ UNCHANGED <<todo, asked>>
    <3>1. /\ request' \in RequestRecord /\ request'.kind = request.kind
          /\ request'.pc = "refused" /\ request'.verdict = request.verdict
      BY <1>0, <2>2, RecordMoved
    <3>2. Settled' /\ Guarded' BY <2>1, <2>2, <3>1 DEF EvidenceInv, Settled, Guarded
    <3> QED BY <2>1, <2>2, <3>1, <3>2, MovesOn
  <2>3. CASE Now("collect")
             /\ \E target \in Capabilities, scope, cond \in BOOLEAN :
                  Require({[of |-> target, ids |-> Extracted(scope, cond),
                            types |-> TypesOf(scope, cond)]})
    <3>1. /\ request' \in RequestRecord /\ request'.pc = "collect"
          /\ request'.verdict = request.verdict
      BY <1>0, <2>3, RecordMoved
    <3>2. PICK target \in Capabilities, scope \in BOOLEAN, cond \in BOOLEAN :
            Require({[of |-> target, ids |-> Extracted(scope, cond),
                      types |-> TypesOf(scope, cond)]})
      BY <2>3
    <3> QED BY <2>1, <3>1, <3>2, QuestionType, NextRound
  <2> QED BY <1>4, <2>2, <2>3 DEF ParseQuestion
<1>5. CASE AnswerMessage
  <2>1. PICK to \in {"store", "answered"} : Now(to)
    BY <1>5 DEF AnswerMessage
  <2>2. /\ request' \in RequestRecord /\ request'.kind = request.kind /\ request'.pc = to
        /\ request'.verdict = request.verdict
    BY <1>0, <2>1, RecordMoved
  <2>3. Settled' /\ Guarded'
    BY <1>5, <2>2 DEF AnswerMessage, At, EvidenceInv, Settled, Guarded
  <2> QED BY <1>5, <2>2, <2>3, MovesOn DEF AnswerMessage
<1>6. ASSUME NEW r \in todo, ResolveRequirement(r) PROVE EvidenceInv' BY <1>6, ResolveInv
<1>7. ASSUME NEW c \in pending.caps, InvokeCapability(c) PROVE EvidenceInv' BY <1>7, InvokeInv
<1>8. CASE WithoutProvenance
  <2>1. /\ request' \in RequestRecord /\ request'.kind = request.kind /\ request'.pc = "raised"
        /\ request'.verdict = request.verdict
    BY <1>0, <1>8, RecordMoved DEF WithoutProvenance
  <2>2. Settled' /\ Guarded'
    BY <1>8, <2>1 DEF WithoutProvenance, At, EvidenceInv, Settled, Guarded
  <2> QED BY <1>8, <2>1, <2>2, MovesOn DEF WithoutProvenance
<1>9. CASE Assess BY <1>9, AssessInv
<1>10. CASE ProposeExtension
  <2>1. PICK D \in SUBSET Descriptions : Require({Plain(d) : d \in D})
    BY <1>10 DEF ProposeExtension
  <2>2. {Plain(d) : d \in D} \in SUBSET Requirements BY PlainType
  <2>3. /\ request' \in RequestRecord /\ request'.pc = "collect"
        /\ request'.verdict = request.verdict
    <3>1. request.round + 1 \in Nat BY <1>0 DEF RequestRecord
    <3>2. request' = [request EXCEPT !.pc = "collect", !.round = request.round + 1]
      BY <1>10 DEF ProposeExtension
    <3> QED BY <1>0, <3>1, <3>2 DEF RequestRecord
  <2> QED BY <1>10, <2>1, <2>2, <2>3, NextRound DEF ProposeExtension, At
<1>11. CASE ReasonOnEvidence
  <2>1. /\ request' \in RequestRecord /\ request'.kind = request.kind /\ request'.pc = "store"
        /\ request'.verdict = request.verdict
    BY <1>0, <1>11, RecordMoved DEF ReasonOnEvidence
  <2>2. Settled' /\ Guarded'
    BY <1>11, <2>1 DEF ReasonOnEvidence, At, EvidenceInv, Settled, Guarded
  <2> QED BY <1>11, <2>1, <2>2, MovesOn DEF ReasonOnEvidence
<1>12. CASE StoreAnswer
  <2>1. /\ request' \in RequestRecord /\ request'.kind = request.kind /\ request'.pc = "answered"
        /\ request'.verdict = request.verdict
    BY <1>0, <1>12, RecordMoved DEF StoreAnswer
  <2>2. Settled' /\ Guarded'
    BY <1>12, <2>1 DEF StoreAnswer, At, EvidenceInv, Settled, Guarded
  <2>3. EvidenceTypeOK'
    BY <1>12, <2>1 DEF StoreAnswer, EvidenceInv, EvidenceTypeOK, Matching
  <2>4. \A r \in asked' : Accounted(r)'
    BY <1>12 DEF StoreAnswer, EvidenceInv, Accounted, HasGap, Answered, Matching
  <2> QED BY <2>2, <2>3, <2>4 DEF EvidenceInv
<1>13. CASE UNCHANGED evidenceVars
  BY <1>13 DEF evidenceVars, EvidenceInv, EvidenceTypeOK, Accounted, HasGap, Answered, Matching,
     Settled, Guarded
<1> QED
  BY <1>1, <1>2, <1>3, <1>4, <1>5, <1>6, <1>7, <1>8, <1>9, <1>10, <1>11, <1>12, <1>13
  DEF EvidenceNext

LEMMA EvidenceAlwaysInv == EvidenceSpec => []EvidenceInv
  BY EvidenceInitInv, EvidenceStepInv, PTL DEF EvidenceSpec

-----------------------------------------------------------------------------
\* The request, its requirements and its items keep their types.
THEOREM EvidenceTypeCorrect == EvidenceSpec => []EvidenceTypeOK
<1>1. EvidenceInv => EvidenceTypeOK BY DEF EvidenceInv
<1> QED BY <1>1, EvidenceAlwaysInv, PTL

\* A package that is called sufficient has data of every matching capability for each
\* requirement of each round; the inventory answers and remembers nothing without.
THEOREM AnswersRestCorrect == EvidenceSpec => []AnswersRestOnEvidence
<1>1. EvidenceInv => AnswersRestOnEvidence
  <2> SUFFICES ASSUME EvidenceInv PROVE AnswersRestOnEvidence
    OBVIOUS
  <2>1. ASSUME request.verdict = "SUFFICIENT", NEW r \in asked PROVE HasEvidence(r)
    <3>1. todo = {} /\ pending.caps = {} /\ \A i \in items : i.gap = "EVIDENCE_SUFFICIENT"
      BY <2>1 DEF EvidenceInv, Settled
    <3>2. Matching(r) # {} /\ \A c \in Matching(r) : Answered(r, c)
      BY <2>1, <3>1 DEF EvidenceInv, Accounted, HasGap
    <3>3. ASSUME NEW c \in Matching(r) PROVE Item(r, c, "EVIDENCE_SUFFICIENT") \in items
      <4>1. PICK i \in items : i.req = r /\ i.cap = c BY <3>2 DEF Answered
      <4>2. i \in EvidenceItem /\ i.gap = "EVIDENCE_SUFFICIENT"
        BY <3>1 DEF EvidenceInv, EvidenceTypeOK
      <4>3. i = Item(r, c, "EVIDENCE_SUFFICIENT") BY <4>1, <4>2 DEF EvidenceItem, Item
      <4> QED BY <4>3
    <3> QED BY <3>2, <3>3 DEF HasEvidence
  <2>2. request.kind = "inventory" /\ (request.pc = "answered" \/ stored)
          => request.verdict = "SUFFICIENT"
    BY DEF EvidenceInv, Guarded
  <2> QED BY <2>1, <2>2 DEF AnswersRestOnEvidence
<1> QED BY <1>1, EvidenceAlwaysInv, PTL

-----------------------------------------------------------------------------
(* ShopDeckSync: that no change is missed, copied or taken back, for any       *)
(* number of daemons, changes and rows and any overlap that is not shorter     *)
(* than the delay with which the source shows its changes.                     *)

DaemonRecord == [pc : {"idle", "lock", "query", "write"}, upper : Times, low : Times,
                 got : SUBSET changes, todo : SUBSET Records]

\* No change and no window is of the future, and no change stays invisible for longer than
\* the delay.
ClockOK ==
    /\ \A c \in changes : c.at <= time
    /\ \A c \in changes \ visible : time <= c.at + Delay
    /\ \A d \in Daemons : daemon[d].upper <= time
    /\ checkpoint # Unset => checkpoint <= time

\* Who is past the lock holds it, and its window is still the one of the checkpoint.
LockOK ==
    /\ checkpoint = Unset <=> since = Unset
    /\ \A d \in Daemons :
         /\ daemon[d].pc \in {"query", "write"} <=> lock = d
         /\ lock = d => /\ daemon[d].low = LowerBound(daemon[d].upper)
                        /\ checkpoint # Unset => checkpoint <= daemon[d].upper

\* What is in the table was visible.
TableOK == \A r \in Records : \A i \in DOMAIN table[r] : [row |-> r, at |-> table[r][i]] \in visible

Superseded(c) == kind # "event" /\ \E e \in changes : e.row = c.row /\ e.at > c.at

Kept(c) ==
    \/ \E i \in DOMAIN table[c.row] :
         IF kind = "event" THEN table[c.row][i] = c.at ELSE table[c.row][i] >= c.at
    \/ Superseded(c)

\* What a run will write is nothing older than the table has, one change for each row, and
\* with the chunks still to be fetched all that its window owes.
SyncRunOK(d) ==
    /\ daemon[d].got \subseteq visible
    /\ daemon[d].pc # "write" => daemon[d].got = {} /\ daemon[d].todo = {}
    /\ daemon[d].todo # {} => kind = "proxy"
    /\ \A e \in daemon[d].got :
         /\ e.row \notin daemon[d].todo
         /\ kind = "event" => daemon[d].low <= e.at
         /\ kind # "event" => \A i \in DOMAIN table[e.row] : table[e.row][i] <= e.at
         /\ kind # "event" => \A f \in daemon[d].got : f.row = e.row => f = e
    /\ daemon[d].pc = "write" =>
         \A c \in changes \ unheard :
            daemon[d].low <= c.at /\ c.at < daemon[d].upper - Overlap =>
                c \in daemon[d].got \/ c.row \in daemon[d].todo \/ Superseded(c)

\* NothingIsMissed, OneCopy and what they rest on.
SyncInv ==
    /\ SyncTypeOK
    /\ ClockOK /\ LockOK /\ TableOK
    /\ \A d \in Daemons : SyncRunOK(d)
    /\ NothingIsMissed /\ OneCopy

LEMMA SyncConstants ==
    /\ Overlap \in Nat /\ Delay \in Nat /\ Delay <= Overlap /\ Cadence \in Nat
    /\ Lookback \in Nat /\ LastTime \in Nat /\ Unset \notin Daemons /\ Unset \notin Int
  BY SyncAssumption DEF SyncAssumption

LEMMA TimesAre == Times \subseteq Int /\ \A n \in Times : n >= 0 /\ n <= LastTime
  BY SyncConstants DEF Times

LEMMA SyncTypes ==
    ASSUME SyncTypeOK
    PROVE  /\ daemon \in [Daemons -> DaemonRecord]
           /\ \A c \in changes : c.at \in Times /\ c.at \in Int /\ c.row \in Records
                                 /\ c = [row |-> c.row, at |-> c.at]
           /\ \A d \in Daemons : daemon[d].upper \in Times /\ daemon[d].low \in Times
                                 /\ daemon[d].upper \in Int /\ daemon[d].low \in Int
                                 /\ daemon[d].got \subseteq changes
                                 /\ daemon[d].todo \subseteq Records
                                 /\ daemon[d] \in DaemonRecord
           /\ time \in Int
<1>1. daemon \in [Daemons -> DaemonRecord] BY DEF SyncTypeOK, DaemonRecord
<1>2. \A c \in changes : c.at \in Times /\ c.row \in Records /\ c = [row |-> c.row, at |-> c.at]
  BY DEF SyncTypeOK
<1>3. \A d \in Daemons : /\ daemon[d].upper \in Times /\ daemon[d].low \in Times
                         /\ daemon[d].got \subseteq changes /\ daemon[d].todo \subseteq Records
                         /\ daemon[d] \in DaemonRecord
  BY <1>1 DEF DaemonRecord
<1>4. time \in Times BY DEF SyncTypeOK
<1> QED BY <1>1, <1>2, <1>3, <1>4, TimesAre

LEMMA LowType ==
    ASSUME NEW upper \in Times, checkpoint \in Times \cup {Unset},
           checkpoint # Unset => checkpoint <= LastTime
    PROVE  /\ LowerBound(upper) \in Times
           /\ checkpoint # Unset =>
                \A n \in Nat : n >= checkpoint - Overlap => n >= LowerBound(upper)
  BY SyncConstants DEF LowerBound, Max0, Times

\* A change that is older than the overlap is visible.
LEMMA VisibleByThen ==
    ASSUME SyncTypeOK, ClockOK, NEW c \in changes, NEW d \in Daemons,
           c.at < daemon[d].upper - Overlap
    PROVE  c \in visible
<1>1. c.at \in Int /\ daemon[d].upper \in Int /\ time \in Int BY SyncTypes
<1>2. daemon[d].upper <= time BY DEF ClockOK
<1>3. c \notin visible => time <= c.at + Delay BY DEF ClockOK
<1> QED BY <1>1, <1>2, <1>3, SyncConstants

LEMMA LatestOrSuperseded ==
    ASSUME SyncTypeOK, NEW c \in visible, kind # "event"
    PROVE  IsLatest(c, visible) \/ Superseded(c)
<1>1. visible \subseteq changes BY DEF SyncTypeOK
<1> QED BY <1>1, SyncTypes DEF IsLatest, Of, Superseded

LEMMA LatestOverTable ==
    ASSUME SyncTypeOK, TableOK, NEW e \in visible, IsLatest(e, visible)
    PROVE  \A i \in DOMAIN table[e.row] : table[e.row][i] <= e.at
<1>1. e.row \in Records BY SyncTypes DEF SyncTypeOK
<1> SUFFICES ASSUME NEW i \in DOMAIN table[e.row] PROVE table[e.row][i] <= e.at
  OBVIOUS
<1>2. [row |-> e.row, at |-> table[e.row][i]] \in Of(visible, e.row)
  BY <1>1 DEF TableOK, Of
<1> QED BY <1>2 DEF IsLatest

LEMMA OneLatest ==
    ASSUME SyncTypeOK, NEW e \in visible, NEW f \in visible, IsLatest(e, visible),
           IsLatest(f, visible), e.row = f.row
    PROVE  e = f
<1>1. visible \subseteq changes BY DEF SyncTypeOK
<1>2. e.at <= f.at /\ f.at <= e.at BY DEF IsLatest, Of
<1> QED BY <1>1, <1>2, SyncTypes

LEMMA SyncInitInv == SyncInit => SyncInv
<1> SUFFICES ASSUME SyncInit PROVE SyncInv
  OBVIOUS
<1>1. NoRun.pc = "idle" /\ NoRun.upper = 0 /\ NoRun.got = {} /\ NoRun.todo = {}
      /\ NoRun \in DaemonRecord
  BY SyncConstants DEF NoRun, DaemonRecord, Times
<1>2. \A d \in Daemons : daemon[d] = NoRun BY DEF SyncInit
<1>3. /\ checkpoint = Unset /\ since = Unset /\ lock = Unset /\ time = 0 /\ 0 \in Times
      /\ changes = {} /\ visible = {} /\ unheard = {} /\ kind \in Kinds
      /\ \A r \in Records : table[r] = <<>>
  BY SyncConstants DEF SyncInit, Times
<1>4. SyncTypeOK
  <2>1. table \in [Records -> Seq(Times)] BY DEF SyncInit
  <2>2. daemon \in [Daemons -> DaemonRecord] BY <1>1 DEF SyncInit
  <2> QED BY <1>3, <2>1, <2>2 DEF SyncTypeOK, DaemonRecord
<1>5. ClockOK BY <1>1, <1>2, <1>3 DEF ClockOK
<1>6. LockOK BY <1>1, <1>2, <1>3, SyncConstants DEF LockOK
<1>7. TableOK /\ NothingIsMissed /\ OneCopy BY <1>3 DEF TableOK, NothingIsMissed, OneCopy
<1>8. \A d \in Daemons : SyncRunOK(d) BY <1>1, <1>2 DEF SyncRunOK
<1> QED BY <1>4, <1>5, <1>6, <1>7, <1>8 DEF SyncInv

\* A step of one daemon that leaves the source, the table and the checkpoint alone.
LEMMA DaemonMoves ==
    ASSUME SyncInv, NEW d \in Daemons, NEW x \in DaemonRecord,
           daemon' = [daemon EXCEPT ![d] = x],
           UNCHANGED <<kind, time, changes, visible, table, checkpoint, since>>,
           unheard \subseteq unheard', unheard' \subseteq changes,
           x.upper <= time,
           lock' \in Daemons \cup {Unset}, x.pc \in {"query", "write"} <=> lock' = d,
           \A u \in Daemons \ {d} : lock = u <=> lock' = u,
           lock' = d => /\ x.low = LowerBound(x.upper)
                        /\ checkpoint # Unset => checkpoint <= x.upper,
           x.got \subseteq visible,
           x.pc # "write" => x.got = {} /\ x.todo = {},
           x.todo # {} => kind = "proxy",
           \A e \in x.got :
              /\ e.row \notin x.todo
              /\ kind = "event" => x.low <= e.at
              /\ kind # "event" => \A i \in DOMAIN table[e.row] : table[e.row][i] <= e.at
              /\ kind # "event" => \A f \in x.got : f.row = e.row => f = e,
           x.pc = "write" =>
              \A c \in changes \ unheard' :
                 x.low <= c.at /\ c.at < x.upper - Overlap =>
                     c \in x.got \/ c.row \in x.todo \/ Superseded(c)
    PROVE  SyncInv'
<1>1. SyncTypeOK /\ ClockOK /\ LockOK /\ TableOK /\ NothingIsMissed /\ OneCopy
      /\ \A u \in Daemons : SyncRunOK(u)
  BY DEF SyncInv
<1>2. daemon \in [Daemons -> DaemonRecord] BY <1>1, SyncTypes
<1>3. daemon'[d] = x /\ \A u \in Daemons \ {d} : daemon'[u] = daemon[u]
  BY <1>2
<1>4. SyncTypeOK'
  <2>1. daemon' \in [Daemons -> DaemonRecord] BY <1>2
  <2> QED BY <1>1, <2>1 DEF SyncTypeOK, DaemonRecord
<1>5. ClockOK' BY <1>1, <1>3 DEF ClockOK
<1>6. LockOK'
  <2>2. (checkpoint = Unset <=> since = Unset)' BY <1>1 DEF LockOK
  <2>3. ASSUME NEW u \in Daemons
        PROVE  /\ daemon'[u].pc \in {"query", "write"} <=> lock' = u
               /\ lock' = u => /\ daemon'[u].low = LowerBound(daemon'[u].upper)
                               /\ checkpoint # Unset => checkpoint <= daemon'[u].upper
    <3>1. CASE u = d BY <1>3, <3>1
    <3>2. CASE u # d BY <1>1, <1>3, <3>2 DEF LockOK
    <3> QED BY <3>1, <3>2
  <2> QED BY <2>2, <2>3 DEF LockOK, LowerBound
<1>7. TableOK' BY <1>1 DEF TableOK
<1>8. ASSUME NEW u \in Daemons PROVE SyncRunOK(u)'
  <2>1. CASE u = d BY <1>3, <2>1 DEF SyncRunOK, Superseded
  <2>2. CASE u # d
    <3>1. SyncRunOK(u) /\ daemon'[u] = daemon[u] BY <1>1, <1>3, <2>2
    <3> QED BY <3>1 DEF SyncRunOK, Superseded
  <2> QED BY <2>1, <2>2
<1>9. NothingIsMissed' BY <1>1 DEF NothingIsMissed
<1>10. OneCopy' BY <1>1 DEF OneCopy
<1> QED BY <1>4, <1>5, <1>6, <1>7, <1>8, <1>9, <1>10 DEF SyncInv

LEMMA StartInv == ASSUME SyncInv, NEW d \in Daemons, Start(d) PROVE SyncInv'
<1> DEFINE x == [NoRun EXCEPT !.pc = "lock", !.upper = time]
<1>1. SyncTypeOK /\ LockOK BY DEF SyncInv
<1>2. /\ x \in DaemonRecord /\ x.pc = "lock" /\ x.upper = time /\ x.got = {} /\ x.todo = {}
  <2>1. NoRun \in DaemonRecord /\ NoRun.got = {} /\ NoRun.todo = {}
    BY SyncConstants DEF NoRun, DaemonRecord, Times
  <2>2. time \in Times BY <1>1 DEF SyncTypeOK
  <2> QED BY <2>1, <2>2 DEF DaemonRecord
<1>3. daemon' = [daemon EXCEPT ![d] = x] BY DEF Start
<1>4. lock # d BY <1>1 DEF Start, LockOK
<1>5. time <= time BY <1>1, SyncTypes
<1>6. lock \in Daemons \cup {Unset} /\ unheard \subseteq changes BY <1>1 DEF SyncTypeOK
<1> HIDE DEF x
<1> QED BY <1>2, <1>3, <1>4, <1>5, <1>6, DaemonMoves DEF Start

LEMMA TryLockInv == ASSUME SyncInv, NEW d \in Daemons, TryLock(d) PROVE SyncInv'
<1>1. SyncTypeOK /\ ClockOK /\ LockOK /\ SyncRunOK(d) BY DEF SyncInv
<1>2. lock \in Daemons \cup {Unset} /\ unheard \subseteq changes BY <1>1 DEF SyncTypeOK
<1>3. daemon[d].pc = "lock" BY DEF TryLock
<1>4. lock # d BY <1>1, <1>3 DEF LockOK
<1>5. daemon[d] \in DaemonRecord /\ daemon[d].upper \in Times /\ daemon[d].upper <= time
  BY <1>1, SyncTypes DEF ClockOK
<1>6. CASE MayRun(d) /\ Due(d)
  <2> DEFINE x == [daemon[d] EXCEPT !.pc = "query", !.low = LowerBound(daemon[d].upper)]
  <2>1. daemon' = [daemon EXCEPT ![d] = x] /\ lock' = d BY <1>6 DEF TryLock
  <2>2. LowerBound(daemon[d].upper) \in Times
    BY <1>1, <1>5, LowType, TimesAre DEF SyncTypeOK
  <2>3. /\ x \in DaemonRecord /\ x.pc = "query" /\ x.low = LowerBound(daemon[d].upper)
        /\ x.upper = daemon[d].upper /\ x.got = daemon[d].got /\ x.todo = daemon[d].todo
    BY <1>5, <2>2 DEF DaemonRecord
  <2>4. x.got = {} /\ x.todo = {} BY <1>1, <1>3, <2>3 DEF SyncRunOK
  <2>5. checkpoint # Unset => checkpoint <= x.upper
    <3>1. checkpoint # Unset => checkpoint \in Int BY <1>1, TimesAre DEF SyncTypeOK
    <3>2. daemon[d].upper \in Int BY <1>5, TimesAre
    <3>3. checkpoint # Unset => daemon[d].upper - checkpoint >= Cadence BY <1>6 DEF Due
    <3> QED BY <2>3, <3>1, <3>2, <3>3, SyncConstants
  <2>6. \A u \in Daemons \ {d} : lock = u <=> lock' = u
    BY <1>6, <2>1, SyncConstants DEF MayRun
  <2> HIDE DEF x
  <2> QED BY <1>2, <1>5, <2>1, <2>3, <2>4, <2>5, <2>6, DaemonMoves DEF TryLock
<1>7. CASE ~(MayRun(d) /\ Due(d))
  <2>1. daemon' = [daemon EXCEPT ![d] = NoRun] /\ lock' = lock BY <1>7 DEF TryLock
  <2>2. /\ NoRun \in DaemonRecord /\ NoRun.pc = "idle" /\ NoRun.upper = 0
        /\ NoRun.got = {} /\ NoRun.todo = {}
    BY SyncConstants DEF NoRun, DaemonRecord, Times
  <2>3. 0 <= time BY <1>1, TimesAre DEF SyncTypeOK
  <2> QED BY <1>2, <1>4, <2>1, <2>2, <2>3, DaemonMoves DEF TryLock
<1> QED BY <1>6, <1>7

LEMMA UnitFailsInv == ASSUME SyncInv, NEW d \in Daemons, UnitFails(d) PROVE SyncInv'
<1>1. SyncTypeOK /\ LockOK BY DEF SyncInv
<1>2. lock = d BY <1>1 DEF UnitFails, LockOK
<1>3. daemon' = [daemon EXCEPT ![d] = NoRun] /\ lock' = Unset BY <1>2 DEF UnitFails
<1>4. /\ NoRun \in DaemonRecord /\ NoRun.pc = "idle" /\ NoRun.upper = 0
      /\ NoRun.got = {} /\ NoRun.todo = {}
  BY SyncConstants DEF NoRun, DaemonRecord, Times
<1>5. 0 <= time BY <1>1, TimesAre DEF SyncTypeOK
<1>6. lock' # d /\ \A u \in Daemons \ {d} : lock = u <=> lock' = u
  BY <1>2, <1>3, SyncConstants
<1>7. unheard \subseteq changes /\ lock' \in Daemons \cup {Unset} BY <1>1, <1>3 DEF SyncTypeOK
<1> QED BY <1>3, <1>4, <1>5, <1>6, <1>7, DaemonMoves DEF UnitFails

LEMMA QueryInv == ASSUME SyncInv, NEW d \in Daemons, Query(d) PROVE SyncInv'
<1> DEFINE found == Found(daemon[d].low, daemon[d].upper)
           rows == {c.row : c \in found}
           full == [daemon[d] EXCEPT !.pc = "write",
                      !.got = IF kind = "proxy" THEN {} ELSE found,
                      !.todo = IF kind = "proxy" THEN rows ELSE {}]
           none == [daemon[d] EXCEPT !.pc = "write"]
           hidden == {c \in changes : daemon[d].low <= c.at /\ c.at < daemon[d].upper}
<1>1. SyncTypeOK /\ ClockOK /\ LockOK /\ TableOK /\ SyncRunOK(d) BY DEF SyncInv
<1>2. daemon[d].pc = "query" /\ lock = d /\ lock' = lock
  BY <1>1 DEF Query, LockOK
<1>3. lock \in Daemons \cup {Unset} /\ unheard \subseteq changes /\ visible \subseteq changes
  BY <1>1 DEF SyncTypeOK
<1>4. /\ daemon[d] \in DaemonRecord /\ daemon[d].upper \in Int /\ daemon[d].low \in Int
      /\ daemon[d].upper <= time
  BY <1>1, SyncTypes DEF ClockOK
<1>5. /\ daemon[d].low = LowerBound(daemon[d].upper)
      /\ checkpoint # Unset => checkpoint <= daemon[d].upper
  BY <1>1, <1>2 DEF LockOK
<1>6. /\ found \subseteq visible
      /\ \A e \in found : daemon[d].low <= e.at /\ (kind # "event" => IsLatest(e, visible))
  BY DEF Found
<1>7. rows \subseteq Records BY <1>1, <1>3, <1>6, SyncTypes
<1>8. ASSUME NEW c \in changes, daemon[d].low <= c.at, c.at < daemon[d].upper - Overlap
      PROVE  c \in found \/ Superseded(c)
  <2>1. c \in visible BY <1>1, <1>8, VisibleByThen
  <2>2. c.at < daemon[d].upper BY <1>1, <1>4, <1>8, SyncTypes, SyncConstants
  <2>3. kind = "event" \/ IsLatest(c, visible) \/ Superseded(c)
    BY <1>1, <2>1, LatestOrSuperseded
  <2> QED BY <1>8, <2>1, <2>2, <2>3 DEF Found
<1>9. CASE daemon' = [daemon EXCEPT ![d] = full] /\ unheard' = unheard
  <2>1. full \in DaemonRecord
    BY <1>3, <1>4, <1>6, <1>7 DEF DaemonRecord
  <2>2. /\ full.pc = "write" /\ full.upper = daemon[d].upper /\ full.low = daemon[d].low
        /\ full.got = IF kind = "proxy" THEN {} ELSE found
        /\ full.todo = IF kind = "proxy" THEN rows ELSE {}
    BY <1>4 DEF DaemonRecord
  <2>3. ASSUME NEW c \in changes, daemon[d].low <= c.at, c.at < daemon[d].upper - Overlap
        PROVE  c \in full.got \/ c.row \in full.todo \/ Superseded(c)
    BY <1>8, <2>2, <2>3
  <2>4. full.got \subseteq visible /\ (full.todo # {} => kind = "proxy") BY <1>6, <2>2
  <2>5. ASSUME NEW e \in full.got
        PROVE  /\ e.row \notin full.todo
               /\ kind = "event" => full.low <= e.at
               /\ kind # "event" => \A i \in DOMAIN table[e.row] : table[e.row][i] <= e.at
               /\ kind # "event" => \A f \in full.got : f.row = e.row => f = e
    <3>1. kind # "proxy" /\ e \in found /\ full.todo = {} /\ full.got = found
      BY <2>2, <2>5
    <3>2. kind # "event" => \A i \in DOMAIN table[e.row] : table[e.row][i] <= e.at
      BY <1>1, <1>6, <3>1, LatestOverTable
    <3>3. kind # "event" => \A f \in full.got : f.row = e.row => f = e
      BY <1>1, <1>6, <3>1, OneLatest
    <3> QED BY <1>6, <2>2, <3>1, <3>2, <3>3
  <2> HIDE DEF full, found, rows
  <2> QED BY <1>2, <1>3, <1>4, <1>5, <1>9, <2>1, <2>2, <2>3, <2>4, <2>5, DaemonMoves DEF Query
<1>10. CASE daemon' = [daemon EXCEPT ![d] = none] /\ unheard' = unheard \cup hidden
  <2>1. none \in DaemonRecord BY <1>4 DEF DaemonRecord
  <2>2. /\ none.pc = "write" /\ none.upper = daemon[d].upper /\ none.low = daemon[d].low
        /\ none.got = daemon[d].got /\ none.todo = daemon[d].todo
    BY <1>4 DEF DaemonRecord
  <2>3. none.got = {} /\ none.todo = {} BY <1>1, <1>2, <2>2 DEF SyncRunOK
  <2>4. unheard \subseteq unheard' /\ unheard' \subseteq changes BY <1>3, <1>10
  <2>5. ASSUME NEW c \in changes \ unheard', none.low <= c.at, c.at < none.upper - Overlap
        PROVE  FALSE
    <3>1. c.at < daemon[d].upper BY <1>1, <1>4, <2>2, <2>5, SyncTypes, SyncConstants
    <3> QED BY <1>10, <2>2, <2>5, <3>1
  <2> HIDE DEF none, hidden
  <2> QED BY <1>2, <1>3, <1>4, <1>5, <1>10, <2>1, <2>2, <2>3, <2>4, <2>5, DaemonMoves DEF Query
<1>11. \/ daemon' = [daemon EXCEPT ![d] = full] /\ unheard' = unheard
       \/ daemon' = [daemon EXCEPT ![d] = none] /\ unheard' = unheard \cup hidden
  BY DEF Query, Goes
<1> QED BY <1>9, <1>10, <1>11

LEMMA FetchReportsInv == ASSUME SyncInv, NEW d \in Daemons, FetchReports(d) PROVE SyncInv'
<1>1. SyncTypeOK /\ ClockOK /\ LockOK /\ TableOK /\ SyncRunOK(d) BY DEF SyncInv
<1>2. daemon[d].pc = "write" /\ daemon[d].todo # {} /\ lock = d /\ lock' = lock
  BY <1>1 DEF FetchReports, LockOK
<1>3. lock \in Daemons \cup {Unset} /\ unheard \subseteq changes /\ visible \subseteq changes
  BY <1>1 DEF SyncTypeOK
<1>4. /\ daemon[d] \in DaemonRecord /\ daemon[d].upper \in Int /\ daemon[d].low \in Int
      /\ daemon[d].upper <= time
  BY <1>1, SyncTypes DEF ClockOK
<1>5. /\ daemon[d].low = LowerBound(daemon[d].upper)
      /\ checkpoint # Unset => checkpoint <= daemon[d].upper
  BY <1>1, <1>2 DEF LockOK
<1>6. kind = "proxy" BY <1>1, <1>2 DEF SyncRunOK
<1>7. PICK chunk \in SUBSET daemon[d].todo \ {{}} :
        \/ /\ daemon' = [daemon EXCEPT ![d].todo = @ \ chunk,
                 ![d].got = @ \cup {c \in visible : c.row \in chunk /\ IsLatest(c, visible)}]
           /\ unheard' = unheard
        \/ /\ daemon' = [daemon EXCEPT ![d].todo = @ \ chunk]
           /\ unheard' = unheard \cup {c \in changes : c.row \in chunk /\ c.at < daemon[d].upper}
  BY DEF FetchReports
<1>8. ASSUME NEW c \in changes \ unheard, daemon[d].low <= c.at, c.at < daemon[d].upper - Overlap
      PROVE  c \in daemon[d].got \/ c.row \in daemon[d].todo \/ Superseded(c)
  BY <1>1, <1>2, <1>8 DEF SyncRunOK
<1>9. ASSUME NEW c \in changes, c.at < daemon[d].upper - Overlap
      PROVE  c \in visible /\ (IsLatest(c, visible) \/ Superseded(c)) /\ c.at < daemon[d].upper
  <2>1. c \in visible BY <1>1, <1>9, VisibleByThen
  <2>2. c.at < daemon[d].upper BY <1>1, <1>4, <1>9, SyncTypes, SyncConstants
  <2> QED BY <1>1, <1>6, <2>1, <2>2, LatestOrSuperseded
<1>10. ASSUME NEW e \in daemon[d].got
       PROVE  /\ e \in visible /\ e.row \notin daemon[d].todo
              /\ \A i \in DOMAIN table[e.row] : table[e.row][i] <= e.at
              /\ \A f \in daemon[d].got : f.row = e.row => f = e
  BY <1>1, <1>6 DEF SyncRunOK
<1>A. UNCHANGED <<kind, time, changes, visible, table, checkpoint, since>> /\ kind # "event"
  BY <1>6 DEF FetchReports
<1> DEFINE new == {c \in visible : c.row \in chunk /\ IsLatest(c, visible)}
           full == [daemon[d] EXCEPT !.todo = @ \ chunk, !.got = @ \cup new]
           none == [daemon[d] EXCEPT !.todo = @ \ chunk]
           hidden == {c \in changes : c.row \in chunk /\ c.at < daemon[d].upper}
<1>11. CASE daemon' = [daemon EXCEPT ![d] = full] /\ unheard' = unheard
  <2>1. full \in DaemonRecord BY <1>3, <1>4 DEF DaemonRecord
  <2>2. /\ full.pc = "write" /\ full.upper = daemon[d].upper /\ full.low = daemon[d].low
        /\ full.got = daemon[d].got \cup new /\ full.todo = daemon[d].todo \ chunk
    BY <1>2, <1>4 DEF DaemonRecord
  <2>3. ASSUME NEW c \in changes \ unheard, full.low <= c.at, c.at < full.upper - Overlap
        PROVE  c \in full.got \/ c.row \in full.todo \/ Superseded(c)
    <3>1. CASE c.row \in chunk
      BY <1>9, <2>2, <2>3, <3>1
    <3>2. CASE c.row \notin chunk BY <1>8, <2>2, <2>3, <3>2
    <3> QED BY <3>1, <3>2
  <2>4. full.got \subseteq visible BY <1>10, <2>2
  <2>5. ASSUME NEW e \in full.got
        PROVE  /\ e.row \notin full.todo
               /\ \A i \in DOMAIN table[e.row] : table[e.row][i] <= e.at
               /\ \A f \in full.got : f.row = e.row => f = e
    <3>1. CASE e \in daemon[d].got
      <4>1. \A f \in new : f.row # e.row BY <1>10, <3>1
      <4> QED BY <1>10, <2>2, <3>1, <4>1
    <3>2. CASE e \in new
      <4>1. e.row \in chunk /\ e \in visible /\ IsLatest(e, visible) BY <3>2
      <4>2. \A i \in DOMAIN table[e.row] : table[e.row][i] <= e.at
        BY <1>1, <4>1, LatestOverTable
      <4>3. \A f \in daemon[d].got : f.row # e.row BY <1>10, <4>1
      <4>4. \A f \in new : f.row = e.row => f = e BY <1>1, <4>1, OneLatest
      <4> QED BY <2>2, <4>1, <4>2, <4>3, <4>4
    <3> QED BY <2>2, <2>5, <3>1, <3>2
  <2> HIDE DEF full, new
  <2> QED
    BY <1>2, <1>3, <1>4, <1>5, <1>6, <1>11, <1>A, <2>1, <2>2, <2>3, <2>4, <2>5, DaemonMoves
<1>12. CASE daemon' = [daemon EXCEPT ![d] = none] /\ unheard' = unheard \cup hidden
  <2>1. none \in DaemonRecord BY <1>4 DEF DaemonRecord
  <2>2. /\ none.pc = "write" /\ none.upper = daemon[d].upper /\ none.low = daemon[d].low
        /\ none.got = daemon[d].got /\ none.todo = daemon[d].todo \ chunk
    BY <1>2, <1>4 DEF DaemonRecord
  <2>3. unheard \subseteq unheard' /\ unheard' \subseteq changes BY <1>3, <1>12
  <2>4. ASSUME NEW c \in changes \ unheard', none.low <= c.at, c.at < none.upper - Overlap
        PROVE  c \in none.got \/ c.row \in none.todo \/ Superseded(c)
    <3>1. c.at < daemon[d].upper BY <1>9, <2>2, <2>4
    <3>2. c.row \notin chunk BY <1>12, <2>4, <3>1
    <3> QED BY <1>8, <2>2, <2>3, <2>4, <3>2
  <2>5. none.got \subseteq visible BY <1>10, <2>2
  <2>6. \A e \in none.got : /\ e.row \notin none.todo
                            /\ \A i \in DOMAIN table[e.row] : table[e.row][i] <= e.at
                            /\ \A f \in none.got : f.row = e.row => f = e
    BY <1>10, <2>2
  <2> HIDE DEF none, hidden
  <2> QED
    BY <1>2, <1>3, <1>4, <1>5, <1>6, <1>12, <1>A, <2>1, <2>2, <2>3, <2>4, <2>5, <2>6, DaemonMoves
<1>13. \/ daemon' = [daemon EXCEPT ![d] = full] /\ unheard' = unheard
       \/ daemon' = [daemon EXCEPT ![d] = none] /\ unheard' = unheard \cup hidden
  BY <1>7
<1> QED BY <1>11, <1>12, <1>13

\* The source goes on; the runs see what they saw.
LEMMA SourceInv ==
    ASSUME SyncInv,
           UNCHANGED <<kind, table, checkpoint, lock, daemon, since, unheard>>,
           time' \in Times, time <= time', visible \subseteq visible', visible' \subseteq changes',
           changes' \subseteq [row : Records, at : Times], changes \subseteq changes',
           \A c \in changes' : c.at <= time',
           \A c \in changes' \ changes : c.at = time,
           \A c \in changes' \ visible' : time' <= c.at + Delay
    PROVE  SyncInv'
<1>1. SyncTypeOK /\ ClockOK /\ LockOK /\ TableOK /\ NothingIsMissed /\ OneCopy
      /\ \A u \in Daemons : SyncRunOK(u)
  BY DEF SyncInv
<1>2. SyncTypeOK'
  <2>1. daemon' \in [Daemons -> [pc : {"idle", "lock", "query", "write"}, upper : Times,
                                 low : Times, got : SUBSET changes', todo : SUBSET Records]]
    BY <1>1 DEF SyncTypeOK
  <2> QED BY <1>1, <2>1 DEF SyncTypeOK
<1>3. time \in Int /\ time' \in Int BY <1>1, SyncTypes, TimesAre
<1>4. ClockOK'
  <2>1. \A d \in Daemons : daemon'[d].upper <= time'
    BY <1>1, <1>3, SyncTypes DEF ClockOK
  <2>2. checkpoint # Unset => checkpoint \in Int BY <1>1, TimesAre DEF SyncTypeOK
  <2>3. checkpoint # Unset => checkpoint <= time' BY <1>1, <1>3, <2>2 DEF ClockOK
  <2> QED BY <2>1, <2>3 DEF ClockOK
<1>5. LockOK' BY <1>1 DEF LockOK, LowerBound
<1>6. TableOK' BY <1>1 DEF TableOK
<1>7. \A c : Superseded(c) => Superseded(c)' BY DEF Superseded
<1>8. ASSUME NEW d \in Daemons PROVE SyncRunOK(d)'
  <2>1. /\ daemon[d].upper <= time /\ daemon[d].upper \in Int /\ daemon[d].upper - Overlap <= time
    BY <1>1, <1>3, SyncTypes, SyncConstants DEF ClockOK
  <2>2. ASSUME NEW c \in changes' \ unheard, c.at < daemon[d].upper - Overlap
        PROVE  c \in changes \ unheard
    BY <1>3, <2>1, <2>2, SyncConstants
  <2>3. daemon[d].pc = "write" =>
         \A c \in changes' \ unheard :
            daemon[d].low <= c.at /\ c.at < daemon[d].upper - Overlap =>
                c \in daemon[d].got \/ c.row \in daemon[d].todo \/ Superseded(c)'
    BY <1>1, <1>7, <2>2 DEF SyncRunOK
  <2> QED BY <1>1, <2>3 DEF SyncRunOK
<1>9. NothingIsMissed'
  <2> SUFFICES ASSUME NEW c \in changes' \ unheard, checkpoint # Unset, since <= c.at,
                      c.at < checkpoint - Overlap
               PROVE  (\E i \in DOMAIN table[c.row] :
                        IF kind = "event" THEN table[c.row][i] = c.at ELSE table[c.row][i] >= c.at)
                      \/ Superseded(c)'
    BY DEF NothingIsMissed, Superseded
  <2>1. checkpoint \in Int /\ checkpoint <= time BY <1>1, TimesAre DEF SyncTypeOK, ClockOK
  <2>2. c \in changes BY <1>3, <2>1, SyncConstants
  <2> QED BY <1>1, <1>7, <2>2 DEF NothingIsMissed, Superseded
<1>10. OneCopy' BY <1>1 DEF OneCopy
<1> QED BY <1>2, <1>4, <1>5, <1>6, <1>8, <1>9, <1>10 DEF SyncInv

LEMMA TickInv == ASSUME SyncInv, Tick PROVE SyncInv'
<1>1. SyncTypeOK /\ ClockOK BY DEF SyncInv
<1>2. time \in Times /\ time \in Int BY <1>1, SyncTypes DEF SyncTypeOK
<1>3. time' \in Times /\ time <= time' /\ time' = time + 1
  BY <1>2, SyncConstants DEF Tick, Times
<1>4. \A c \in changes : c.at <= time' BY <1>1, <1>2, <1>3, SyncTypes DEF ClockOK
<1>5. \A c \in changes \ visible : time' <= c.at + Delay
  BY <1>1, <1>2, <1>3, SyncTypes, SyncConstants DEF Tick
<1>6. visible \subseteq changes /\ changes \subseteq [row : Records, at : Times]
  BY <1>1 DEF SyncTypeOK
<1> QED BY <1>3, <1>4, <1>5, <1>6, SourceInv DEF Tick

LEMMA ChangeInv == ASSUME SyncInv, NEW r \in Records, Change(r) PROVE SyncInv'
<1> DEFINE n == [row |-> r, at |-> time]
<1>1. SyncTypeOK /\ ClockOK BY DEF SyncInv
<1>2. time \in Times /\ time \in Int /\ time <= time BY <1>1, SyncTypes DEF SyncTypeOK
<1>3. changes' = changes \cup {n} /\ n.at = time /\ n \in [row : Records, at : Times]
  BY <1>2 DEF Change
<1>4. visible \subseteq changes /\ changes \subseteq [row : Records, at : Times]
  BY <1>1 DEF SyncTypeOK
<1>5. \A c \in changes' : c.at <= time BY <1>1, <1>2, <1>3 DEF ClockOK
<1>6. \A c \in changes' \ visible : time <= c.at + Delay
  BY <1>1, <1>2, <1>3, SyncConstants DEF ClockOK
<1> HIDE DEF n
<1> QED BY <1>2, <1>3, <1>4, <1>5, <1>6, SourceInv DEF Change

LEMMA AppearInv == ASSUME SyncInv, NEW c \in changes, Appear(c) PROVE SyncInv'
<1>1. SyncTypeOK /\ ClockOK BY DEF SyncInv
<1>2. time \in Times /\ time <= time BY <1>1, SyncTypes DEF SyncTypeOK
<1>3. visible \subseteq changes /\ changes \subseteq [row : Records, at : Times]
  BY <1>1 DEF SyncTypeOK
<1> QED BY <1>1, <1>2, <1>3, SourceInv DEF Appear, ClockOK

-----------------------------------------------------------------------------
(* What a run writes.                                                        *)

\* The library's sequence of a finite set has each of its elements once.
LEMMA SequenceOfSet ==
    ASSUME NEW S, IsFiniteSet(S)
    PROVE  /\ SetToSeq(S) \in Seq(S)
           /\ \A x \in S : \E i \in DOMAIN SetToSeq(S) : SetToSeq(S)[i] = x
           /\ \A i, j \in DOMAIN SetToSeq(S) : SetToSeq(S)[i] = SetToSeq(S)[j] => i = j
<1> DEFINE n == Cardinality(S)
<1>1. n \in Nat /\ ExistsBijection(1..n, S) BY FS_CardinalityType
<1>2. PICK f \in Bijection(1..n, S) : TRUE BY <1>1 DEF ExistsBijection
<1>3. f \in [1..n -> S] /\ IsInjective(f) BY <1>2 DEF Bijection, Injection
<1> DEFINE s == SetToSeq(S)
<1>4. s \in [1..n -> S] /\ IsInjective(s) BY <1>3 DEF SetToSeq
<1>5. IsFiniteSet(1..n) /\ Cardinality(1..n) = n BY <1>1, FS_Interval
<1>6. s \in Injection(1..n, S) BY <1>4 DEF Injection
<1>7. s \in Surjection(1..n, S) BY <1>5, <1>6, FS_Injection
<1> HIDE DEF s, n
<1>8. DOMAIN s = 1..n BY <1>4
<1>9. s \in Seq(S) BY <1>1, <1>4
<1>10. \A x \in S : \E i \in DOMAIN s : s[i] = x BY <1>7, <1>8 DEF Surjection
<1>11. \A i, j \in DOMAIN s : s[i] = s[j] => i = j BY <1>4 DEF IsInjective
<1> QED BY <1>9, <1>10, <1>11 DEF s

\* The events that a run inserts: of its window, each once, none that the table has.
LEMMA InsertedRow ==
    ASSUME SyncInv, kind = "event", NEW d \in Daemons, NEW r \in Records
    PROVE  LET new == Of(daemon[d].got, r)
               row == Inserted(d, r, new)
           IN  /\ row \in Seq(Times)
               /\ \A i \in DOMAIN row : \/ i \in DOMAIN table[r] /\ row[i] = table[r][i]
                                        \/ \E c \in new : row[i] = c.at
               /\ \A i \in DOMAIN table[r] : i \in DOMAIN row /\ row[i] = table[r][i]
               /\ \A c \in new : \E i \in DOMAIN row : row[i] = c.at
               /\ Recognised(r) => \A i, j \in DOMAIN row : row[i] = row[j] => i = j
<1> DEFINE new == Of(daemon[d].got, r)
           S == {c.at : c \in new} \ Known(d, r)
           s == SetToSeq(S)
           t == table[r]
           row == t \o s
<1>1. SyncTypeOK /\ OneCopy /\ SyncRunOK(d) BY DEF SyncInv
<1>2. new \subseteq changes BY <1>1, SyncTypes DEF Of
<1>3. S \subseteq Times BY <1>1, <1>2, SyncTypes
<1>4. IsFiniteSet(S)
  <2>1. IsFiniteSet(Times) BY SyncConstants, FS_Interval DEF Times
  <2> QED BY <1>3, <2>1, FS_Subset
<1>5. /\ s \in Seq(S)
      /\ \A x \in S : \E i \in DOMAIN s : s[i] = x
      /\ \A i, j \in DOMAIN s : s[i] = s[j] => i = j
  BY <1>4, SequenceOfSet
<1>6. t \in Seq(Times) /\ (Recognised(r) => \A i, j \in DOMAIN t : t[i] = t[j] => i = j)
  BY <1>1 DEF SyncTypeOK, OneCopy
<1>7. \A x \in S : (\E c \in new : x = c.at) /\ x \notin Known(d, r) OBVIOUS
<1>8. \A c \in new : c.at \in S \/ c.at \in Known(d, r) OBVIOUS
<1>9. \A c \in new : daemon[d].low <= c.at BY <1>1 DEF SyncRunOK, Of
<1>10. Recognised(r) => \A x \in S, i \in DOMAIN t : t[i] # x
  <2> SUFFICES ASSUME Recognised(r), NEW x \in S, NEW i \in DOMAIN t, t[i] = x PROVE FALSE
    OBVIOUS
  <2>1. t[i] >= daemon[d].low
    <3>1. daemon[d].low <= t[i] BY <1>7, <1>9
    <3>2. t[i] \in Int /\ daemon[d].low \in Int BY <1>1, <1>3, SyncTypes, TimesAre
    <3> QED BY <3>1, <3>2
  <2>2. x \in Known(d, r) BY <2>1 DEF Known
  <2> QED BY <1>7, <2>2
<1>12. \A x \in Known(d, r) : \E i \in DOMAIN t : t[i] = x BY DEF Known
<1>13. Inserted(d, r, new) = row BY DEF Inserted
<1> HIDE DEF S, s, t, row, new
<1>14. s \in Seq(Times) BY <1>3, <1>5
<1>15. /\ Len(t) \in Nat /\ Len(s) \in Nat /\ DOMAIN t = 1..Len(t) /\ DOMAIN s = 1..Len(s)
  BY <1>6, <1>14
<1>16. /\ row \in Seq(Times) /\ DOMAIN row = 1..(Len(t) + Len(s))
       /\ \A i \in 1..Len(t) : row[i] = t[i]
       /\ \A i \in 1..Len(s) : row[Len(t) + i] = s[i]
  BY <1>6, <1>14, <1>15 DEF row
<1>17. \A i \in DOMAIN row :
         \/ i \in DOMAIN t /\ row[i] = t[i]
         \/ i - Len(t) \in DOMAIN s /\ row[i] = s[i - Len(t)] /\ row[i] \in S /\ i \notin DOMAIN t
  <2> SUFFICES ASSUME NEW i \in DOMAIN row, i \notin DOMAIN t
               PROVE  i - Len(t) \in DOMAIN s /\ row[i] = s[i - Len(t)] /\ row[i] \in S
    BY <1>15, <1>16
  <2>1. i - Len(t) \in 1..Len(s) /\ i = Len(t) + (i - Len(t)) BY <1>15, <1>16
  <2>2. row[i] = s[i - Len(t)] BY <1>16, <2>1
  <2>3. s[i - Len(t)] \in S BY <1>5, <1>15, <2>1
  <2> QED BY <1>15, <2>1, <2>2, <2>3
<1>18. \A i \in DOMAIN row : \/ i \in DOMAIN t /\ row[i] = t[i]
                             \/ \E c \in new : row[i] = c.at
  BY <1>7, <1>17
<1>19. \A i \in DOMAIN t : i \in DOMAIN row /\ row[i] = t[i] BY <1>15, <1>16
<1>20. ASSUME NEW c \in new PROVE \E i \in DOMAIN row : row[i] = c.at
  <2>1. CASE c.at \in S
    <3>1. PICK i \in DOMAIN s : s[i] = c.at BY <1>5, <2>1
    <3>2. Len(t) + i \in DOMAIN row /\ row[Len(t) + i] = s[i] BY <1>15, <1>16, <3>1
    <3> QED BY <3>1, <3>2
  <2>2. CASE c.at \in Known(d, r) BY <1>12, <1>19, <2>2
  <2> QED BY <1>8, <2>1, <2>2
<1>21. ASSUME Recognised(r), NEW i \in DOMAIN row, NEW j \in DOMAIN row, row[i] = row[j]
       PROVE  i = j
  <2>1. CASE i \in DOMAIN t /\ j \in DOMAIN t BY <1>6, <1>19, <1>21, <2>1
  <2>2. CASE i \in DOMAIN t /\ j \notin DOMAIN t BY <1>10, <1>17, <1>19, <1>21, <2>2
  <2>3. CASE i \notin DOMAIN t /\ j \in DOMAIN t BY <1>10, <1>17, <1>19, <1>21, <2>3
  <2>4. CASE i \notin DOMAIN t /\ j \notin DOMAIN t
    <3>1. i - Len(t) = j - Len(t) BY <1>5, <1>17, <1>21, <2>4
    <3> QED BY <1>15, <1>16, <3>1
  <2> QED BY <2>1, <2>2, <2>3, <2>4
<1>22. row \in Seq(Times) BY <1>16
<1>23. /\ row \in Seq(Times)
       /\ \A i \in DOMAIN row : \/ i \in DOMAIN t /\ row[i] = t[i]
                                \/ \E c \in new : row[i] = c.at
       /\ \A i \in DOMAIN t : i \in DOMAIN row /\ row[i] = t[i]
       /\ \A c \in new : \E i \in DOMAIN row : row[i] = c.at
       /\ Recognised(r) => \A i, j \in DOMAIN row : row[i] = row[j] => i = j
  BY <1>18, <1>19, <1>20, <1>21, <1>22
<1> QED BY <1>13, <1>23 DEF new, t

\* A row that is upserted is one of those that were read, behind no other of its kind.
LEMMA UpsertedRow ==
    ASSUME SyncInv, kind # "event", NEW d \in Daemons, NEW r \in Records
    PROVE  LET new == Of(daemon[d].got, r)
               row == Upserted(r, new)
           IN  \/ new = {} /\ row = table[r]
               \/ \E c \in new : /\ row \in Seq(Times) /\ Len(row) \in DOMAIN row
                                 /\ row[Len(row)] = c.at
                                 /\ \A i \in DOMAIN row :
                                      row[i] = c.at \/ (i \in DOMAIN table[r] /\ row[i] = table[r][i])
                                 /\ Len(row) <= 1 \/ r \in Unresolved
                                 /\ new = {c}
<1> DEFINE new == Of(daemon[d].got, r)
           row == Upserted(r, new)
<1>1. SyncTypeOK /\ SyncRunOK(d) BY DEF SyncInv
<1>2. CASE new = {} BY <1>2 DEF Upserted
<1>3. CASE new # {}
  <2> DEFINE c == CHOOSE c \in new : TRUE
  <2>1. c \in new BY <1>3
  <2>2. row = IF kind = "core" /\ r \in Unresolved THEN Append(table[r], c.at) ELSE <<c.at>>
    BY <1>3 DEF Upserted
  <2> HIDE DEF c, row
  <2>3. c \in changes /\ c.at \in Times BY <1>1, <2>1, SyncTypes DEF Of
  <2>4. new = {c} BY <1>1, <2>1 DEF SyncRunOK, Of
  <2>5. table[r] \in Seq(Times) BY <1>1 DEF SyncTypeOK
  <2>6. CASE row = <<c.at>>
    <3>1. row \in Seq(Times) /\ Len(row) = 1 /\ DOMAIN row = {1} /\ row[1] = c.at BY <2>3, <2>6
    <3>2. /\ row \in Seq(Times) /\ Len(row) \in DOMAIN row /\ row[Len(row)] = c.at
          /\ \A i \in DOMAIN row :
               row[i] = c.at \/ (i \in DOMAIN table[r] /\ row[i] = table[r][i])
          /\ Len(row) <= 1 \/ r \in Unresolved
      BY <3>1
    <3> QED BY <2>1, <2>4, <3>2 DEF row
  <2>7. CASE row = Append(table[r], c.at) /\ r \in Unresolved
    <3>1. /\ row \in Seq(Times) /\ Len(row) = Len(table[r]) + 1 /\ DOMAIN row = 1..(Len(table[r]) + 1)
          /\ row[Len(table[r]) + 1] = c.at /\ Len(table[r]) \in Nat
          /\ \A i \in 1..Len(table[r]) : row[i] = table[r][i] /\ i \in DOMAIN table[r]
      BY <2>3, <2>5, <2>7
    <3>2. \A i \in DOMAIN row : row[i] = c.at \/ (i \in DOMAIN table[r] /\ row[i] = table[r][i])
      BY <3>1
    <3>3. Len(row) \in DOMAIN row /\ row[Len(row)] = c.at BY <3>1
    <3> QED BY <2>1, <2>4, <2>7, <3>1, <3>2, <3>3 DEF row
  <2> QED BY <2>2, <2>6, <2>7
<1> QED BY <1>2, <1>3

LEMMA NotEmptyLast ==
    ASSUME NEW S, NEW s \in Seq(S), s # <<>>
    PROVE  Len(s) \in DOMAIN s /\ s[Len(s)] \in S
<1>1. Len(s) \in Nat /\ DOMAIN s = 1..Len(s) OBVIOUS
<1>2. Len(s) # 0 OBVIOUS
<1>3. Len(s) \in DOMAIN s BY <1>1, <1>2
<1> QED BY <1>3

\* The last of a row's copies is never an older one.
LEMMA RowForward ==
    ASSUME SyncInv, kind # "event", NEW d \in Daemons, NEW r \in Records, table[r] # <<>>,
           CommitUnit(d)
    PROVE  table'[r][Len(table'[r])] >= table[r][Len(table[r])]
<1>1. SyncTypeOK /\ SyncRunOK(d) BY DEF SyncInv
<1>2. table'[r] = Upserted(r, Of(daemon[d].got, r)) BY DEF CommitUnit
<1>3. table[r] \in Seq(Times) BY <1>1 DEF SyncTypeOK
<1>4. Len(table[r]) \in DOMAIN table[r] /\ table[r][Len(table[r])] \in Times
  BY <1>3, NotEmptyLast
<1>5. CASE table'[r] = table[r]
  <2>1. \A x \in Times : x >= x BY TimesAre
  <2>2. table[r][Len(table[r])] >= table[r][Len(table[r])] BY <1>4, <2>1
  <2> QED BY <1>5, <2>2, Zenon
<1>6. CASE \E c \in Of(daemon[d].got, r) : table'[r][Len(table'[r])] = c.at
  <2>1. PICK c \in Of(daemon[d].got, r) : table'[r][Len(table'[r])] = c.at BY <1>6
  <2>2. c.row = r /\ c \in daemon[d].got BY DEF Of
  <2>3. table[r][Len(table[r])] <= c.at BY <1>1, <1>4, <2>2 DEF SyncRunOK
  <2>4. c.at \in Times BY <1>1, <2>2, SyncTypes
  <2> QED BY <1>4, <2>1, <2>3, <2>4, TimesAre
<1> QED BY <1>2, <1>5, <1>6, UpsertedRow

LEMMA CommitUnitInv == ASSUME SyncInv, NEW d \in Daemons, CommitUnit(d) PROVE SyncInv'
<1>1. SyncTypeOK /\ ClockOK /\ LockOK /\ TableOK /\ NothingIsMissed /\ OneCopy
      /\ \A u \in Daemons : SyncRunOK(u)
  BY DEF SyncInv
<1>2. /\ daemon[d].pc = "write" /\ daemon[d].todo = {} /\ checkpoint' = daemon[d].upper
      /\ since' = (IF since = Unset THEN daemon[d].low ELSE since)
      /\ UNCHANGED <<kind, time, changes, visible, unheard>>
      /\ daemon' = [daemon EXCEPT ![d] = NoRun]
  BY DEF CommitUnit
<1>3. lock = d /\ lock' = Unset BY <1>1, <1>2 DEF LockOK, CommitUnit
<1>4. ASSUME NEW r \in Records
      PROVE  table'[r] = IF kind = "event" THEN Inserted(d, r, Of(daemon[d].got, r))
                         ELSE Upserted(r, Of(daemon[d].got, r))
  BY DEF CommitUnit
<1>5. ASSUME NEW r \in Records
      PROVE  /\ table'[r] \in Seq(Times)
             /\ \A i \in DOMAIN table'[r] :
                  \/ i \in DOMAIN table[r] /\ table'[r][i] = table[r][i]
                  \/ \E c \in Of(daemon[d].got, r) : table'[r][i] = c.at
  <2>1. CASE kind = "event" BY <1>4, <2>1, InsertedRow
  <2>2. CASE kind # "event"
    <3>1. table[r] \in Seq(Times) BY <1>1 DEF SyncTypeOK
    <3>2. CASE table'[r] = table[r] BY <3>1, <3>2
    <3>3. CASE \E c \in Of(daemon[d].got, r) :
                  /\ table'[r] \in Seq(Times)
                  /\ \A i \in DOMAIN table'[r] :
                       \/ table'[r][i] = c.at
                       \/ i \in DOMAIN table[r] /\ table'[r][i] = table[r][i]
      BY <3>3
    <3> QED BY <1>4, <2>2, <3>2, <3>3, UpsertedRow
  <2> QED BY <2>1, <2>2
<1>6. DOMAIN table' = Records /\ table' \in [Records -> Seq(Times)]
  <2>1. table' = [r \in Records |-> IF kind = "event" THEN Inserted(d, r, Of(daemon[d].got, r))
                                    ELSE Upserted(r, Of(daemon[d].got, r))]
    BY DEF CommitUnit
  <2> QED BY <1>5, <2>1
<1>7. /\ NoRun \in DaemonRecord /\ NoRun.pc = "idle" /\ NoRun.upper = 0
      /\ NoRun.got = {} /\ NoRun.todo = {}
  BY SyncConstants DEF NoRun, DaemonRecord, Times
<1>8. /\ daemon \in [Daemons -> DaemonRecord] /\ daemon[d].upper \in Times
      /\ daemon[d].low \in Times /\ daemon[d].upper \in Int /\ daemon[d].low \in Int
      /\ time \in Int /\ 0 <= time
  BY <1>1, SyncTypes, TimesAre DEF SyncTypeOK
<1>9. daemon'[d] = NoRun /\ \A u \in Daemons \ {d} : daemon'[u] = daemon[u]
  BY <1>2, <1>8
<1>10. SyncTypeOK'
  <2>1. daemon' \in [Daemons -> DaemonRecord] BY <1>2, <1>7, <1>8
  <2>2. checkpoint' \in Times \cup {Unset} /\ since' \in Times \cup {Unset}
    BY <1>1, <1>2, <1>8 DEF SyncTypeOK
  <2> QED BY <1>1, <1>2, <1>3, <1>6, <2>1, <2>2 DEF SyncTypeOK, DaemonRecord
<1>11. daemon[d].upper <= time /\ daemon[d].upper # Unset /\ daemon[d].low # Unset
  BY <1>1, <1>8, SyncConstants DEF ClockOK
<1>12. ClockOK'
  <2>1. \A u \in Daemons : daemon'[u].upper <= time BY <1>1, <1>7, <1>8, <1>9 DEF ClockOK
  <2> QED BY <1>1, <1>2, <1>11, <2>1 DEF ClockOK
<1>13. LockOK'
  <2>1. checkpoint' # Unset /\ since' # Unset BY <1>2, <1>11
  <2>2. ASSUME NEW u \in Daemons PROVE daemon'[u].pc \notin {"query", "write"} /\ lock' # u
    <3>1. CASE u = d BY <1>3, <1>7, <1>9, <3>1, SyncConstants
    <3>2. CASE u # d BY <1>1, <1>3, <1>9, <3>2, SyncConstants DEF LockOK
    <3> QED BY <3>1, <3>2
  <2> QED BY <2>1, <2>2 DEF LockOK
<1>14. TableOK'
  <2> SUFFICES ASSUME NEW r \in Records, NEW i \in DOMAIN table'[r]
               PROVE  [row |-> r, at |-> table'[r][i]] \in visible
    BY <1>2 DEF TableOK
  <2>1. CASE i \in DOMAIN table[r] /\ table'[r][i] = table[r][i] BY <1>1, <2>1 DEF TableOK
  <2>2. ASSUME NEW c \in Of(daemon[d].got, r), table'[r][i] = c.at
        PROVE  [row |-> r, at |-> table'[r][i]] \in visible
    <3>1. c \in visible /\ c.row = r BY <1>1 DEF SyncRunOK, Of
    <3>2. c = [row |-> c.row, at |-> c.at] BY <1>1, <3>1, SyncTypes DEF SyncTypeOK
    <3> QED BY <2>2, <3>1, <3>2
  <2> QED BY <1>5, <2>1, <2>2
<1>15. ASSUME NEW u \in Daemons PROVE SyncRunOK(u)'
  <2>1. daemon'[u].pc # "write" /\ daemon'[u].got = {} /\ daemon'[u].todo = {}
    <3>1. CASE u = d BY <1>7, <1>9, <3>1
    <3>2. CASE u # d
      <4>1. daemon[u].pc # "write" BY <1>1, <1>3, <3>2 DEF LockOK
      <4> QED BY <1>1, <1>9, <3>2, <4>1 DEF SyncRunOK
    <3> QED BY <3>1, <3>2
  <2> QED BY <2>1 DEF SyncRunOK
<1>16. ASSUME NEW c \in changes, Kept(c) PROVE Kept(c)'
  <2>1. CASE Superseded(c) BY <1>2, <2>1 DEF Kept, Superseded
  <2>2. ASSUME NEW i \in DOMAIN table[c.row],
               IF kind = "event" THEN table[c.row][i] = c.at ELSE table[c.row][i] >= c.at
        PROVE  Kept(c)'
    <3>1. c.row \in Records /\ c.at \in Int BY <1>1, SyncTypes
    <3>2. CASE kind = "event"
      <4>1. i \in DOMAIN table'[c.row] /\ table'[c.row][i] = table[c.row][i]
        BY <1>4, <3>1, <3>2, InsertedRow
      <4> QED BY <1>2, <2>2, <3>2, <4>1 DEF Kept
    <3>3. CASE kind # "event"
      <4>1. CASE table'[c.row] = table[c.row] BY <1>2, <2>2, <3>3, <4>1 DEF Kept
      <4>2. ASSUME NEW e \in Of(daemon[d].got, c.row),
                   Len(table'[c.row]) \in DOMAIN table'[c.row],
                   table'[c.row][Len(table'[c.row])] = e.at
            PROVE  Kept(c)'
        <5>1. e \in daemon[d].got /\ e.row = c.row BY DEF Of
        <5>2. table[c.row][i] <= e.at BY <1>1, <2>2, <3>3, <5>1 DEF SyncRunOK
        <5>3. e.at \in Int BY <1>1, <5>1, SyncTypes
        <5>5. table[c.row] \in Seq(Times) BY <1>1, <3>1 DEF SyncTypeOK
        <5>6. table[c.row][i] \in Times BY <2>2, <5>5
        <5>7. table[c.row][i] \in Int BY <5>6, TimesAre
        <5>4. e.at >= c.at BY <2>2, <3>1, <3>3, <5>2, <5>3, <5>7
        <5> QED BY <1>2, <3>3, <4>2, <5>4 DEF Kept
      <4> QED BY <1>4, <3>1, <3>3, <4>1, <4>2, UpsertedRow
    <3> QED BY <3>2, <3>3
  <2> QED BY <1>16, <2>1, <2>2 DEF Kept
<1>17. ASSUME NEW c \in daemon[d].got PROVE Kept(c)'
  <2>1. c \in changes /\ c.row \in Records /\ c.at \in Int /\ c \in Of(daemon[d].got, c.row)
    BY <1>1, SyncTypes DEF Of
  <2>2. CASE kind = "event"
    <3>1. \E i \in DOMAIN table'[c.row] : table'[c.row][i] = c.at
      BY <1>4, <2>1, <2>2, InsertedRow
    <3> QED BY <1>2, <2>2, <3>1 DEF Kept
  <2>3. CASE kind # "event"
    <3>1. PICK e \in Of(daemon[d].got, c.row) :
            /\ Len(table'[c.row]) \in DOMAIN table'[c.row]
            /\ table'[c.row][Len(table'[c.row])] = e.at
            /\ Of(daemon[d].got, c.row) = {e}
      <4>1. Of(daemon[d].got, c.row) # {} BY <2>1
      <4>2. table'[c.row] = Upserted(c.row, Of(daemon[d].got, c.row)) BY <1>4, <2>1, <2>3
      <4> DEFINE new == Of(daemon[d].got, c.row)
                 row == Upserted(c.row, new)
      <4>3. \E e \in new : Len(row) \in DOMAIN row /\ row[Len(row)] = e.at /\ new = {e}
        BY <2>1, <2>3, <4>1, UpsertedRow
      <4> QED BY <4>2, <4>3
    <3>2. e = c BY <2>1, <3>1
    <3>3. e.at >= c.at BY <2>1, <3>2
    <3> QED BY <1>2, <2>3, <3>1, <3>3 DEF Kept
  <2> QED BY <2>2, <2>3
<1>18. NothingIsMissed'
  <2> SUFFICES ASSUME NEW c \in changes \ unheard, since' <= c.at, c.at < daemon[d].upper - Overlap
               PROVE  Kept(c)'
    BY <1>2 DEF NothingIsMissed, Kept, Superseded
  <2>1. c.at \in Int /\ c.at >= 0 BY <1>1, SyncTypes, TimesAre
  <2>2. CASE daemon[d].low <= c.at
    <3>1. c \in daemon[d].got \/ Superseded(c) BY <1>1, <1>2, <2>2 DEF SyncRunOK
    <3>2. CASE Superseded(c) BY <1>2, <3>2 DEF Kept, Superseded
    <3> QED BY <1>17, <3>1, <3>2
  <2>3. CASE ~(daemon[d].low <= c.at)
    <3>1. since # Unset /\ since' = since BY <1>2, <2>3
    <3>2. checkpoint # Unset /\ daemon[d].low = LowerBound(daemon[d].upper)
      BY <1>1, <1>3, <3>1 DEF LockOK
    <3>3. checkpoint \in Times BY <1>1, <3>2 DEF SyncTypeOK
    <3>4. ~(c.at >= checkpoint - Overlap)
      <4>1. checkpoint <= LastTime BY <3>3, TimesAre
      <4>2. \A n \in Nat : n >= checkpoint - Overlap => n >= LowerBound(daemon[d].upper)
        BY <1>8, <3>2, <3>3, <4>1, LowType
      <4> QED BY <1>8, <2>1, <2>3, <3>2, <4>2
    <3>5. c.at < checkpoint - Overlap BY <2>1, <3>3, <3>4, TimesAre, SyncConstants
    <3>6. Kept(c) BY <1>1, <3>1, <3>2, <3>5 DEF NothingIsMissed, Kept, Superseded
    <3> QED BY <1>16, <3>6
  <2> QED BY <2>2, <2>3
<1>19. OneCopy'
  <2> SUFFICES ASSUME NEW r \in Records
               PROVE  IF kind = "event"
                      THEN Recognised(r) =>
                           \A i, j \in DOMAIN table'[r] : table'[r][i] = table'[r][j] => i = j
                      ELSE r \in Unresolved \/ Len(table'[r]) <= 1
    BY <1>2 DEF OneCopy
  <2>1. CASE kind = "event"
    <3>1. table'[r] = Inserted(d, r, Of(daemon[d].got, r)) BY <1>4, <2>1
    <3>2. LET row == Inserted(d, r, Of(daemon[d].got, r))
          IN  Recognised(r) => \A i, j \in DOMAIN row : row[i] = row[j] => i = j
      BY <2>1, InsertedRow
    <3> QED BY <2>1, <3>1, <3>2
  <2>2. CASE kind # "event"
    <3>1. table'[r] = table[r] \/ Len(table'[r]) <= 1 \/ r \in Unresolved
      BY <1>4, <2>2, UpsertedRow
    <3> QED BY <1>1, <2>2, <3>1 DEF OneCopy
  <2> QED BY <2>1, <2>2
<1> QED BY <1>10, <1>12, <1>13, <1>14, <1>15, <1>18, <1>19 DEF SyncInv

LEMMA SyncStepInv == SyncInv /\ [SyncNext]_syncVars => SyncInv'
<1> SUFFICES ASSUME SyncInv, [SyncNext]_syncVars PROVE SyncInv'
  OBVIOUS
<1>1. CASE Tick BY <1>1, TickInv
<1>2. ASSUME NEW r \in Records, Change(r) PROVE SyncInv' BY <1>2, ChangeInv
<1>3. ASSUME NEW c \in changes, Appear(c) PROVE SyncInv' BY <1>3, AppearInv
<1>4. ASSUME NEW d \in Daemons, Start(d) PROVE SyncInv' BY <1>4, StartInv
<1>5. ASSUME NEW d \in Daemons, TryLock(d) PROVE SyncInv' BY <1>5, TryLockInv
<1>6. ASSUME NEW d \in Daemons, Query(d) PROVE SyncInv' BY <1>6, QueryInv
<1>7. ASSUME NEW d \in Daemons, FetchReports(d) PROVE SyncInv' BY <1>7, FetchReportsInv
<1>8. ASSUME NEW d \in Daemons, CommitUnit(d) PROVE SyncInv' BY <1>8, CommitUnitInv
<1>9. ASSUME NEW d \in Daemons, UnitFails(d) PROVE SyncInv' BY <1>9, UnitFailsInv
<1>10. CASE UNCHANGED syncVars
  BY <1>10 DEF syncVars, SyncInv, SyncTypeOK, ClockOK, LockOK, LowerBound, TableOK, SyncRunOK,
     Superseded, NothingIsMissed, OneCopy
<1> QED BY <1>1, <1>2, <1>3, <1>4, <1>5, <1>6, <1>7, <1>8, <1>9, <1>10 DEF SyncNext

LEMMA SyncAlwaysInv == SyncSpec => []SyncInv
  BY SyncInitInv, SyncStepInv, PTL DEF SyncSpec

-----------------------------------------------------------------------------
\* Tables, checkpoint, lock and runs keep their types.
THEOREM SyncTypeCorrect == SyncSpec => []SyncTypeOK
<1>1. SyncInv => SyncTypeOK BY DEF SyncInv
<1> QED BY <1>1, SyncAlwaysInv, PTL

\* What the checkpoint has left behind is in the table, itself or a later change of its row,
\* unless an answer without rows hid it.
THEOREM NothingIsMissedCorrect == SyncSpec => []NothingIsMissed
<1>1. SyncInv => NothingIsMissed BY DEF SyncInv
<1> QED BY <1>1, SyncAlwaysInv, PTL

\* An event that is recognised is in its table once, a row with a key has one copy.
THEOREM OneCopyCorrect == SyncSpec => []OneCopy
<1>1. SyncInv => OneCopy BY DEF SyncInv
<1> QED BY <1>1, SyncAlwaysInv, PTL

\* Neither the checkpoint nor a row goes back to an older state.
THEOREM NeverBackCorrect == SyncSpec => NeverBack
<1>1. SyncInv /\ [SyncNext]_syncVars
        => [ /\ checkpoint # Unset => checkpoint' >= checkpoint
             /\ \A r \in Records : kind # "event" /\ table[r] # <<>> =>
                  table'[r][Len(table'[r])] >= table[r][Len(table[r])] ]_syncVars
  <2> SUFFICES ASSUME SyncInv, [SyncNext]_syncVars
               PROVE  /\ checkpoint # Unset => checkpoint' >= checkpoint
                      /\ \A r \in Records : kind # "event" /\ table[r] # <<>> =>
                           table'[r][Len(table'[r])] >= table[r][Len(table[r])]
    OBVIOUS
  <2>1. SyncTypeOK /\ LockOK BY DEF SyncInv
  <2>2. ASSUME NEW d \in Daemons, CommitUnit(d)
        PROVE  checkpoint # Unset => checkpoint' >= checkpoint
    <3>1. lock = d /\ checkpoint' = daemon[d].upper BY <2>1, <2>2 DEF LockOK, CommitUnit
    <3>2. checkpoint # Unset => checkpoint <= daemon[d].upper BY <2>1, <3>1 DEF LockOK
    <3>3. checkpoint # Unset => checkpoint \in Int BY <2>1, TimesAre DEF SyncTypeOK
    <3>4. daemon[d].upper \in Int BY <2>1, SyncTypes
    <3> QED BY <3>1, <3>2, <3>3, <3>4
  <2>3. CASE UNCHANGED <<checkpoint, table>>
    <3>1. checkpoint # Unset => checkpoint \in Int BY <2>1, TimesAre DEF SyncTypeOK
    <3>2. ASSUME NEW r \in Records, table[r] # <<>> PROVE table[r][Len(table[r])] \in Int
      <4>1. table[r] \in Seq(Times) BY <2>1 DEF SyncTypeOK
      <4>2. table[r][Len(table[r])] \in Times BY <3>2, <4>1, NotEmptyLast
      <4> QED BY <4>2, TimesAre
    <3> QED BY <2>3, <3>1, <3>2
  <2>4. UNCHANGED <<checkpoint, table>> \/ \E d \in Daemons : CommitUnit(d)
    BY DEF SyncNext, Tick, Change, Appear, Start, TryLock, Query, FetchReports, UnitFails, syncVars
  <2> QED BY <2>2, <2>3, <2>4, RowForward
<1> QED BY <1>1, SyncAlwaysInv, PTL DEF SyncSpec, NeverBack
===============================================================================
