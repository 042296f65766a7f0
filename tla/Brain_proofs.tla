----------------------------- MODULE Brain_proofs -----------------------------
(***************************************************************************)
(* Proofs about the Brain's two conversations, for every number of turns,    *)
(* requests, families, records and answers of the model: the catalogue draft *)
(* and the confirmation of actions.  Each has a section of its own.          *)
(***************************************************************************)
EXTENDS CatalogDraft, RabtaConversation, TLAPS


-------------------------------------------------------------------------------
(* RabtaConversation. *)

TurnRecord == [pc : Steps, session : Sessions \cup {None}, intent : Intents,
               nonce : Nonces \cup {None}, candidate : 1..Candidates,
               answer : {None, "REJECTED", "CONFIRMATION_REQUIRED", "ERROR",
                         "EXECUTION_LIMITATION", "DONE"}]

\* The turn carries out the request n.
Holds(t, n) == turn[t].nonce = n /\ turn[t].pc \in {"save", "transition", "publish"}

\* A turn that works on a nonce has one.
Aimed == \A t \in Turns :
            turn[t].pc \in {"retrieve", "consume", "save", "transition", "publish"} =>
                turn[t].nonce # None

\* Who consumed a request, and what was done for it.  A request is carried out by the one turn
\* whose confirmation consumed it, and saved only while nothing was saved for it.
NonceOK(n) ==
    /\ confirms[n] # {} => /\ suspended[n] # None /\ suspended[n].status = "CONSUMED"
                           /\ confirms[n] = {<<suspended[n].session, TRUE>>}
                           /\ rejects[n] = {}
    /\ rejects[n] # {} => suspended[n] # None /\ suspended[n].status = "CONSUMED"
    /\ made[n] <= 1
    /\ made[n] > 0 \/ n \in published => confirms[n] # {}
    /\ \A t \in Turns : Holds(t, n) => /\ confirms[n] # {}
                                       /\ turn[t].pc = "save" => made[n] = 0
    /\ \A t, u \in Turns : Holds(t, n) /\ Holds(u, n) => t = u

ConvInv == ConvTypeOK /\ Aimed /\ \A n \in Nonces : NonceOK(n)

-----------------------------------------------------------------------------
(* Moving a turn on.                                                         *)

LEMMA TypeOfTurn == ConvTypeOK <=>
    /\ suspended \in [Nonces -> Row \cup {None}]
    /\ turn \in [Turns -> TurnRecord]
    /\ made \in [Nonces -> Nat]
    /\ published \subseteq Nonces /\ remembered \subseteq Turns
    /\ confirms \in [Nonces -> SUBSET ((Sessions \cup {None}) \X BOOLEAN)]
    /\ rejects \in [Nonces -> SUBSET ((Sessions \cup {None}) \X BOOLEAN)]
  BY DEF ConvTypeOK, TurnRecord

LEMMA Moved ==
    ASSUME turn \in [Turns -> TurnRecord], NEW t \in Turns, NEW p \in Steps, Go(t, p)
    PROVE  /\ turn' \in [Turns -> TurnRecord]
           /\ turn'[t].pc = p /\ turn'[t].nonce = turn[t].nonce
           /\ \A u \in Turns \ {t} : turn'[u] = turn[u]
  BY DEF Go, TurnRecord

LEMMA Answered ==
    ASSUME turn \in [Turns -> TurnRecord], NEW t \in Turns,
           NEW a \in {None, "REJECTED", "CONFIRMATION_REQUIRED", "ERROR", "EXECUTION_LIMITATION",
                      "DONE"},
           Answer(t, a)
    PROVE  /\ turn' \in [Turns -> TurnRecord]
           /\ turn'[t].pc = "answered" /\ turn'[t].nonce = turn[t].nonce
           /\ \A u \in Turns \ {t} : turn'[u] = turn[u]
  BY DEF Answer, TurnRecord, Steps

LEMMA NextCandidate ==
    ASSUME turn \in [Turns -> TurnRecord], NEW t \in Turns, turn[t].candidate < Candidates,
           turn' = [turn EXCEPT ![t].candidate = @ + 1]
    PROVE  /\ turn' \in [Turns -> TurnRecord]
           /\ turn'[t].pc = turn[t].pc /\ turn'[t].nonce = turn[t].nonce
           /\ \A u \in Turns \ {t} : turn'[u] = turn[u]
<1>1. Candidates \in Nat /\ turn[t] \in TurnRecord
  BY ConversationAssumption DEF ConversationAssumption
<1>2. turn[t].candidate + 1 \in 1..Candidates
  BY <1>1 DEF TurnRecord
<1>. QED
  BY <1>1, <1>2 DEF TurnRecord

\* A step after which the turn t does not carry out anything it did not before, and the requests
\* are what they were but for their expiry and new ones.
LEMMA QuietStep ==
    ASSUME NEW n \in Nonces, NonceOK(n),
           suspended[n] # None => /\ suspended'[n] # None
                                  /\ suspended'[n].status = suspended[n].status
                                  /\ suspended'[n].session = suspended[n].session,
           confirms'[n] = confirms[n], rejects'[n] = rejects[n], made'[n] = made[n],
           n \in published' => n \in published,
           \A u \in Turns : Holds(u, n)' => Holds(u, n) /\ (turn'[u].pc = "save" => turn[u].pc = "save")
    PROVE  NonceOK(n)'
  BY DEF NonceOK

\* Of a turn that is moved on without holding anything before or after, nothing is held.
LEMMA NotHeld ==
    ASSUME NEW t \in Turns, NEW n,
           \A u \in Turns \ {t} : turn'[u] = turn[u],
           ~Holds(t, n)'
    PROVE  \A u \in Turns : Holds(u, n)' => Holds(u, n) /\ (turn'[u].pc = "save" => turn[u].pc = "save")
  BY DEF Holds

-----------------------------------------------------------------------------
(* The invariant.                                                            *)

LEMMA ConvInitInv == ConvInit => ConvInv
<1> SUFFICES ASSUME ConvInit PROVE ConvInv
  OBVIOUS
<1>1. NewTurn \in TurnRecord
  BY ConversationAssumption DEF ConversationAssumption, NewTurn, TurnRecord, Steps, Intents
<1>2. \A t \in Turns : turn[t] = NewTurn
  BY DEF ConvInit
<1>3. ConvTypeOK
  BY <1>1, TypeOfTurn DEF ConvInit
<1>4. \A t \in Turns : turn[t].pc = "new"
  BY <1>2 DEF NewTurn
<1>. QED
  BY <1>3, <1>4 DEF ConvInit, ConvInv, Aimed, NonceOK, Holds

LEMMA UnderstandInv ==
    ASSUME ConvInv, NEW t \in Turns, NEW s \in Sessions \cup {None}, NEW intent \in Intents,
           NEW m \in Nonces \cup {None}, Understand(t, s, intent, m)
    PROVE  ConvInv'
<1> DEFINE p == CASE intent = "READ" -> "read" [] intent = "ACTION" -> "suspend"
                  [] m = None -> "remember" [] OTHER -> "retrieve"
<1>1. p \in {"read", "suspend", "remember", "retrieve"} /\ (p = "retrieve" => m # None)
  BY DEF Intents
<1>2. turn' = [turn EXCEPT ![t].session = s, ![t].intent = intent, ![t].nonce = m, ![t].pc = p]
  BY DEF Understand
<1> HIDE DEF p
<1>3. turn \in [Turns -> TurnRecord]
  BY TypeOfTurn DEF ConvInv
<1>4. /\ turn' \in [Turns -> TurnRecord] /\ turn'[t].pc = p /\ turn'[t].nonce = m
      /\ \A u \in Turns \ {t} : turn'[u] = turn[u]
  <2> DEFINE r == [turn[t] EXCEPT !.session = s, !.intent = intent, !.nonce = m, !.pc = p]
  <2>1. r \in TurnRecord /\ r.pc = p /\ r.nonce = m
    BY <1>1, <1>3 DEF TurnRecord, Steps
  <2>2. turn' = [turn EXCEPT ![t] = r]
    BY <1>2, <1>3
  <2> HIDE DEF r
  <2>. QED
    BY <1>3, <2>1, <2>2
<1>5. ConvTypeOK'
  BY <1>4, TypeOfTurn DEF ConvInv, Understand, ConvTypeOK, TurnRecord
<1>6. Aimed'
  BY <1>1, <1>4 DEF ConvInv, Aimed
<1>7. ASSUME NEW n \in Nonces PROVE NonceOK(n)'
  <2>1. ~Holds(t, n)'
    BY <1>1, <1>4 DEF Holds
  <2>. QED
    BY <1>4, <2>1, NotHeld, QuietStep DEF ConvInv, Understand
<1>. QED
  BY <1>5, <1>6, <1>7 DEF ConvInv

\* The turns that only look, speak or end: none of them comes to hold a request.
LEMMA TalkInv ==
    ASSUME ConvInv, NEW t \in Turns,
           \/ \E p \in {"read", "suspend", "remember", "recommend"} : Go(t, p)
           \/ turn[t].pc = "retrieve" /\ Go(t, "consume")
           \/ turn[t].pc = "transition" /\ Go(t, "publish")
           \/ \E a \in {None, "REJECTED", "CONFIRMATION_REQUIRED", "ERROR", "EXECUTION_LIMITATION",
                        "DONE"} : Answer(t, a),
           suspended' \in [Nonces -> Row \cup {None}],
           \A n \in Nonces : suspended[n] # None => /\ suspended'[n] # None
                                                   /\ suspended'[n].status = suspended[n].status
                                                   /\ suspended'[n].session = suspended[n].session,
           remembered' \subseteq Turns,
           UNCHANGED <<made, published, confirms, rejects>>
    PROVE  ConvInv'
<1>1. turn \in [Turns -> TurnRecord]
  BY TypeOfTurn DEF ConvInv
<1>2. /\ turn' \in [Turns -> TurnRecord] /\ turn'[t].nonce = turn[t].nonce
      /\ \A u \in Turns \ {t} : turn'[u] = turn[u]
      /\ turn'[t].pc # "save"
      /\ turn'[t].pc \in {"retrieve", "consume", "transition", "publish"} =>
            turn[t].pc \in {"retrieve", "transition"}
      /\ turn'[t].pc \in {"transition", "publish"} => turn[t].pc = "transition"
  <2>1. CASE \E p \in {"read", "suspend", "remember", "recommend"} : Go(t, p)
    BY <1>1, <2>1, Moved DEF Steps
  <2>2. CASE turn[t].pc = "retrieve" /\ Go(t, "consume")
    BY <1>1, <2>2, Moved DEF Steps
  <2>3. CASE turn[t].pc = "transition" /\ Go(t, "publish")
    BY <1>1, <2>3, Moved DEF Steps
  <2>4. CASE \E a \in {None, "REJECTED", "CONFIRMATION_REQUIRED", "ERROR", "EXECUTION_LIMITATION",
                       "DONE"} : Answer(t, a)
    BY <1>1, <2>4, Answered
  <2>. QED
    BY <2>1, <2>2, <2>3, <2>4
<1>3. ConvTypeOK'
  BY <1>2, TypeOfTurn DEF ConvInv, ConvTypeOK, TurnRecord
<1>4. Aimed'
  BY <1>2 DEF ConvInv, Aimed
<1>5. ASSUME NEW n \in Nonces PROVE NonceOK(n)'
  <2>1. \A u \in Turns : Holds(u, n)' => Holds(u, n) /\ (turn'[u].pc = "save" => turn[u].pc = "save")
    BY <1>2 DEF Holds
  <2>. QED
    BY <2>1, QuietStep DEF ConvInv
<1>. QED
  BY <1>3, <1>4, <1>5 DEF ConvInv

LEMMA SuspendedFacts ==
    ASSUME ConvTypeOK, NEW m \in Fresh, NEW s \in Sessions \cup {None}, NEW op \in Operations,
           Suspended(m, s, op)
    PROVE  /\ suspended' \in [Nonces -> Row \cup {None}]
           /\ \A n \in Nonces : suspended[n] # None => suspended'[n] = suspended[n]
  BY DEF ConvTypeOK, Fresh, Suspended, Row

LEMMA SameSuspended ==
    ASSUME ConvTypeOK, UNCHANGED suspended
    PROVE  /\ suspended' \in [Nonces -> Row \cup {None}]
           /\ \A n \in Nonces : suspended[n] # None => suspended'[n] = suspended[n]
  BY DEF ConvTypeOK

\* A confirmation that consumes its request is the first, and the request is still untouched.
LEMMA OneMore ==
    ASSUME NEW S, NEW f \in [Nonces -> SUBSET S], NEW m, NEW x \in S
    PROVE  [f EXCEPT ![m] = @ \cup {x}] \in [Nonces -> SUBSET S]
  OBVIOUS

LEMMA ConfirmInv ==
    ASSUME ConvInv, NEW t \in Turns, Confirm(t)
    PROVE  ConvInv'
<1>m. PICK m : m = turn[t].nonce
  OBVIOUS
<1>1. turn \in [Turns -> TurnRecord] /\ m \in Nonces /\ m # None
  BY <1>m, TypeOfTurn DEF ConvInv, Aimed, Confirm, TurnRecord
<1>2. CASE ~Consumable(m, turn[t].session)
  <2>1. Answer(t, "REJECTED") /\ UNCHANGED <<suspended, made, published, remembered, confirms, rejects>>
    BY <1>m, <1>2 DEF Confirm
  <2>. QED
    BY <2>1, TalkInv, SameSuspended DEF ConvInv, ConvTypeOK
<1>3. CASE Consumable(m, turn[t].session)
  <2>1. /\ suspended[m] # None /\ suspended[m].session = turn[t].session
        /\ suspended[m].status = "PENDING" /\ ~suspended[m].expired
    BY <1>3 DEF Consumable, OfSession
  <2>2. /\ suspended' = [suspended EXCEPT ![m].status = "CONSUMED"]
        /\ confirms' = [confirms EXCEPT ![m] = @ \cup {<<turn[t].session, ~suspended[m].expired>>}]
        /\ Go(t, "save") /\ UNCHANGED <<made, published, remembered, rejects>>
    BY <1>m, <1>3 DEF Confirm, Consumed
  <2>3. suspended[m] \in Row
    BY <1>1, <2>1 DEF ConvInv, ConvTypeOK
  <2>4. /\ suspended' \in [Nonces -> Row \cup {None}]
        /\ suspended'[m] \in Row /\ suspended'[m].status = "CONSUMED"
        /\ suspended'[m].session = suspended[m].session
        /\ \A n \in Nonces \ {m} : suspended'[n] = suspended[n]
    BY <1>1, <2>2, <2>3 DEF ConvInv, ConvTypeOK, Row
  <2>5. /\ turn' \in [Turns -> TurnRecord]
        /\ turn'[t].pc = "save" /\ turn'[t].nonce = m
        /\ \A u \in Turns \ {t} : turn'[u] = turn[u]
    BY <1>m, <1>1, <2>2, Moved DEF Steps
  <2>6. confirms[m] = {} /\ rejects[m] = {} /\ NonceOK(m)
    BY <1>1, <2>1 DEF ConvInv, NonceOK
  <2>7. (~suspended[m].expired) = TRUE
    BY <2>1
  <2>8. confirms'[m] = {<<suspended[m].session, TRUE>>}
    BY <1>1, <2>1, <2>2, <2>6, <2>7 DEF ConvInv, ConvTypeOK
  <2>9. turn[t].session \in Sessions \cup {None}
    BY <1>1 DEF TurnRecord
  <2>10. confirms' \in [Nonces -> SUBSET ((Sessions \cup {None}) \X BOOLEAN)]
    <3>1. <<turn[t].session, ~suspended[m].expired>> \in (Sessions \cup {None}) \X BOOLEAN
      BY <2>9
    <3>. QED
      BY <2>2, <3>1, OneMore DEF ConvInv, ConvTypeOK
  <2>11. ConvTypeOK'
    BY <2>2, <2>4, <2>5, <2>10, TypeOfTurn DEF ConvInv, ConvTypeOK, TurnRecord
  <2>12. Aimed'
    BY <1>1, <2>5 DEF ConvInv, Aimed
  <2>13. NonceOK(m)'
    <3>1. made[m] = 0 /\ m \notin published
      BY <1>1, <2>6 DEF NonceOK, ConvInv, ConvTypeOK
    <3>2. \A u \in Turns : Holds(u, m)' => u = t
      BY <2>5, <2>6 DEF NonceOK, Holds
    <3>3. suspended'[m] # None
      BY <2>4, ConversationAssumption DEF ConversationAssumption
    <3>. QED
      BY <1>1, <2>2, <2>4, <2>6, <2>8, <3>1, <3>2, <3>3 DEF NonceOK
  <2>14. ASSUME NEW n \in Nonces, n # m PROVE NonceOK(n)'
    <3>1. ~Holds(t, n)'
      BY <2>5, <2>14 DEF Holds
    <3>2. confirms'[n] = confirms[n]
      BY <2>2, <2>14 DEF ConvInv, ConvTypeOK
    <3>. QED
      BY <2>2, <2>4, <2>5, <2>14, <3>1, <3>2, NotHeld, QuietStep DEF ConvInv
  <2>. QED
    BY <2>11, <2>12, <2>13, <2>14 DEF ConvInv
<1>. QED
  BY <1>2, <1>3

\* A rejection that consumes a request leaves it without a confirmation.
LEMMA RejectInv ==
    ASSUME ConvInv, NEW t \in Turns, Reject(t)
    PROVE  ConvInv'
<1>m. PICK m : m = turn[t].nonce
  OBVIOUS
<1>1. turn \in [Turns -> TurnRecord] /\ m \in Nonces /\ m # None /\ Answer(t, "REJECTED")
  BY <1>m, TypeOfTurn DEF ConvInv, Aimed, Reject, TurnRecord
<1>2. CASE ~Consumable(m, turn[t].session)
  <2>1. UNCHANGED <<suspended, made, published, remembered, confirms, rejects>>
    BY <1>m, <1>2 DEF Reject
  <2>. QED
    BY <1>1, <2>1, TalkInv, SameSuspended DEF ConvInv, ConvTypeOK
<1>3. CASE Consumable(m, turn[t].session)
  <2>1. suspended[m] # None /\ suspended[m].status = "PENDING"
    BY <1>3 DEF Consumable, OfSession
  <2>2. /\ suspended' = [suspended EXCEPT ![m].status = "CONSUMED"]
        /\ rejects' = [rejects EXCEPT ![m] = @ \cup {<<turn[t].session, TRUE>>}]
        /\ UNCHANGED <<made, published, remembered, confirms>>
    BY <1>m, <1>3 DEF Reject
  <2>3. suspended[m] \in Row
    BY <1>1, <2>1 DEF ConvInv, ConvTypeOK
  <2>4. /\ suspended' \in [Nonces -> Row \cup {None}]
        /\ suspended'[m] \in Row /\ suspended'[m].status = "CONSUMED"
        /\ \A n \in Nonces \ {m} : suspended'[n] = suspended[n]
    BY <1>1, <2>2, <2>3 DEF ConvInv, ConvTypeOK, Row
  <2>5. /\ turn' \in [Turns -> TurnRecord]
        /\ turn'[t].pc = "answered" /\ turn'[t].nonce = m
        /\ \A u \in Turns \ {t} : turn'[u] = turn[u]
    BY <1>m, <1>1, Answered
  <2>6. confirms[m] = {} /\ NonceOK(m)
    BY <1>1, <2>1 DEF ConvInv, NonceOK
  <2>7. rejects' \in [Nonces -> SUBSET ((Sessions \cup {None}) \X BOOLEAN)]
    <3>1. <<turn[t].session, TRUE>> \in (Sessions \cup {None}) \X BOOLEAN
      BY <1>1 DEF TurnRecord
    <3>. QED
      BY <2>2, <3>1, OneMore DEF ConvInv, ConvTypeOK
  <2>8. ConvTypeOK'
    BY <2>2, <2>4, <2>5, <2>7, TypeOfTurn DEF ConvInv, ConvTypeOK, TurnRecord
  <2>9. Aimed'
    BY <2>5 DEF ConvInv, Aimed
  <2>10. ASSUME NEW n \in Nonces PROVE ~Holds(t, n)'
    BY <2>5 DEF Holds
  <2>11. NonceOK(m)'
    <3>1. \A u \in Turns : Holds(u, m)' => Holds(u, m)
      BY <1>1, <2>5, <2>10 DEF Holds
    <3>2. suspended'[m] # None
      BY <2>4, ConversationAssumption DEF ConversationAssumption
    <3>. QED
      BY <1>1, <2>2, <2>4, <2>6, <3>1, <3>2 DEF NonceOK
  <2>12. ASSUME NEW n \in Nonces, n # m PROVE NonceOK(n)'
    <3>1. rejects'[n] = rejects[n]
      BY <2>2, <2>12 DEF ConvInv, ConvTypeOK
    <3>. QED
      BY <2>2, <2>4, <2>5, <2>10, <2>12, <3>1, NotHeld, QuietStep DEF ConvInv
  <2>. QED
    BY <2>8, <2>9, <2>11, <2>12 DEF ConvInv
<1>. QED
  BY <1>2, <1>3

\* A save that is heard of or not makes one family, and the turn saves no more.
LEMMA SaveInv ==
    ASSUME ConvInv, NEW t \in Turns, Save(t)
    PROVE  ConvInv'
<1>m. PICK m : m = turn[t].nonce
  OBVIOUS
<1>1. turn \in [Turns -> TurnRecord] /\ m \in Nonces /\ made \in [Nonces -> Nat]
  BY <1>m, TypeOfTurn DEF ConvInv, Aimed, Save, TurnRecord
<1>2. UNCHANGED <<suspended, published, remembered, confirms, rejects>> /\ turn[t].pc = "save"
  BY DEF Save
<1>3. NonceOK(m) /\ Holds(t, m) /\ confirms[m] # {} /\ made[m] = 0
  BY <1>m, <1>1, <1>2 DEF ConvInv, NonceOK, Holds
<1>4. /\ turn' \in [Turns -> TurnRecord] /\ turn'[t].nonce = m
      /\ \A u \in Turns \ {t} : turn'[u] = turn[u]
      /\ \/ turn'[t].pc # "save" /\ made' = [made EXCEPT ![m] = @ + 1]
         \/ UNCHANGED made
  <2>1. CASE /\ made' = [made EXCEPT ![m] = @ + 1]
             /\ Go(t, AfterSave(suspended[m].op))
    BY <1>m, <1>1, <2>1, Moved DEF Steps, AfterSave
  <2>2. CASE /\ turn[t].candidate < Candidates /\ UNCHANGED made
             /\ turn' = [turn EXCEPT ![t].candidate = @ + 1]
    BY <1>m, <1>1, <2>2, NextCandidate
  <2>3. CASE Answer(t, "EXECUTION_LIMITATION") /\ UNCHANGED made
    BY <1>m, <1>1, <2>3, Answered
  <2>4. CASE Answer(t, "ERROR") /\ (made' = [made EXCEPT ![m] = @ + 1] \/ UNCHANGED made)
    BY <1>m, <1>1, <2>4, Answered
  <2>. QED
    BY <1>m, <2>1, <2>2, <2>3, <2>4 DEF Save, AfterLoss
<1>5. ConvTypeOK'
  BY <1>1, <1>2, <1>4, TypeOfTurn DEF ConvInv, ConvTypeOK, TurnRecord
<1>6. Aimed'
  BY <1>1, <1>4, ConversationAssumption DEF ConvInv, Aimed, ConversationAssumption
<1>7. ASSUME NEW n \in Nonces, n # m PROVE NonceOK(n)'
  <2>1. ~Holds(t, n)' /\ made'[n] = made[n]
    BY <1>1, <1>4, <1>7 DEF Holds
  <2>. QED
    BY <1>2, <1>4, <2>1, NotHeld, QuietStep DEF ConvInv
<1>8. NonceOK(m)'
  <2>1. \A u \in Turns : Holds(u, m)' => u = t
    BY <1>3, <1>4 DEF NonceOK, Holds
  <2>2. made'[m] <= 1 /\ (turn'[t].pc = "save" => made'[m] = 0)
    BY <1>1, <1>3, <1>4
  <2>. QED
    BY <1>2, <1>3, <2>1, <2>2 DEF NonceOK
<1>. QED
  BY <1>5, <1>6, <1>7, <1>8 DEF ConvInv

\* What is published belongs to a request that its turn holds.
LEMMA PublishInv ==
    ASSUME ConvInv, NEW t \in Turns, Publish(t)
    PROVE  ConvInv'
<1>m. PICK m : m = turn[t].nonce
  OBVIOUS
<1>1. turn \in [Turns -> TurnRecord] /\ m \in Nonces
  BY <1>m, TypeOfTurn DEF ConvInv, Aimed, Publish, TurnRecord
<1>2. UNCHANGED <<suspended, made, remembered, confirms, rejects>> /\ turn[t].pc = "publish"
      /\ published' \subseteq published \cup {m}
  BY <1>m DEF Publish
<1>3. confirms[m] # {}
  BY <1>m, <1>1, <1>2 DEF ConvInv, NonceOK, Holds
<1>4. /\ turn' \in [Turns -> TurnRecord] /\ turn'[t].pc \in {"remember", "answered"}
      /\ \A u \in Turns \ {t} : turn'[u] = turn[u]
  <2>1. CASE Go(t, "remember")
    BY <1>1, <2>1, Moved DEF Steps
  <2>2. CASE \E a \in {"ERROR", "EXECUTION_LIMITATION"} : Answer(t, a)
    BY <1>1, <2>2, Answered
  <2>. QED
    BY <2>1, <2>2 DEF Publish
<1>5. ConvTypeOK'
  BY <1>1, <1>2, <1>4, TypeOfTurn DEF ConvInv, ConvTypeOK, TurnRecord
<1>6. Aimed'
  BY <1>4 DEF ConvInv, Aimed
<1>7. ASSUME NEW n \in Nonces PROVE NonceOK(n)'
  <2>1. \A u \in Turns : Holds(u, n)' => Holds(u, n) /\ (turn'[u].pc = "save" => turn[u].pc = "save")
    BY <1>4 DEF Holds
  <2>2. n \in published' => n \in published \/ confirms[n] # {}
    BY <1>2, <1>3
  <2>3. NonceOK(n)
    BY DEF ConvInv
  <2>. QED
    BY <1>2, <2>1, <2>2, <2>3 DEF NonceOK
<1>. QED
  BY <1>5, <1>6, <1>7 DEF ConvInv

LEMMA ExpireInv ==
    ASSUME ConvInv, NEW m \in Nonces, Expire(m)
    PROVE  ConvInv'
<1>1. suspended[m] \in Row
  BY DEF ConvInv, ConvTypeOK, Expire
<1>2. suspended' = [suspended EXCEPT ![m].expired = TRUE]
      /\ UNCHANGED <<turn, made, published, remembered, confirms, rejects>>
  BY DEF Expire
<1>3. /\ suspended' \in [Nonces -> Row \cup {None}]
      /\ suspended'[m] \in Row /\ suspended'[m].status = suspended[m].status
      /\ suspended'[m].session = suspended[m].session
      /\ \A n \in Nonces \ {m} : suspended'[n] = suspended[n]
  BY <1>1, <1>2 DEF ConvInv, ConvTypeOK, Row
<1>4. suspended'[m] # None
  BY <1>3, ConversationAssumption DEF ConversationAssumption
<1>5. ConvTypeOK'
  BY <1>2, <1>3 DEF ConvInv, ConvTypeOK
<1>6. Aimed'
  BY <1>2 DEF ConvInv, Aimed
<1>7. ASSUME NEW n \in Nonces PROVE NonceOK(n)'
  <2>1. suspended[n] # None => /\ suspended'[n] # None
                               /\ suspended'[n].status = suspended[n].status
                               /\ suspended'[n].session = suspended[n].session
    BY <1>3, <1>4
  <2>2. \A u \in Turns : Holds(u, n)' => Holds(u, n) /\ (turn'[u].pc = "save" => turn[u].pc = "save")
    BY <1>2 DEF Holds
  <2>. QED
    BY <1>2, <2>1, <2>2, QuietStep DEF ConvInv
<1>. QED
  BY <1>5, <1>6, <1>7 DEF ConvInv

LEMMA ConvStepInv == ConvInv /\ [ConvNext]_convVars => ConvInv'
<1> SUFFICES ASSUME ConvInv, [ConvNext]_convVars PROVE ConvInv'
  OBVIOUS
<1>1. ASSUME NEW t \in Turns, ProcessQuery(t) PROVE ConvInv'
  <2>1. CASE \E s \in Sessions \cup {None}, intent \in Intents, n \in Nonces \cup {None} :
               Understand(t, s, intent, n)
    BY <2>1, UnderstandInv
  <2>2. CASE Retrieve(t)
    <3>1. /\ turn[t].pc = "retrieve" /\ (Go(t, "consume") \/ Answer(t, "REJECTED"))
          /\ UNCHANGED <<suspended, made, published, remembered, confirms, rejects>>
      BY <2>2 DEF Retrieve
    <3>. QED
      BY <3>1, TalkInv, SameSuspended DEF ConvInv, ConvTypeOK
  <2>3. CASE Confirm(t)
    BY <2>3, ConfirmInv
  <2>4. CASE Reject(t)
    BY <2>4, RejectInv
  <2>5. CASE \E n \in Nonces, op \in Operations : Suspend(t, n, op)
    <3>1. PICK n \in Nonces, op \in Operations : Suspend(t, n, op)
      BY <2>5
    <3>2. turn[t].session \in Sessions \cup {None}
      BY TypeOfTurn DEF ConvInv, TurnRecord
    <3>3. /\ suspended' \in [Nonces -> Row \cup {None}]
          /\ \A k \in Nonces : suspended[k] # None => suspended'[k] = suspended[k]
      BY <3>1, <3>2, SuspendedFacts DEF Suspend, ConvInv
    <3>4. Answer(t, "CONFIRMATION_REQUIRED") /\ UNCHANGED <<made, published, remembered, confirms, rejects>>
      BY <3>1 DEF Suspend
    <3>. QED
      BY <3>3, <3>4, TalkInv DEF ConvInv, ConvTypeOK
  <2>6. CASE Save(t)
    BY <2>6, SaveInv
  <2>7. CASE Transition(t)
    <3>1. /\ \/ turn[t].pc = "transition" /\ Go(t, "publish")
             \/ Answer(t, "EXECUTION_LIMITATION") \/ Answer(t, "ERROR")
          /\ UNCHANGED <<suspended, made, published, remembered, confirms, rejects>>
      BY <2>7 DEF Transition
    <3>. QED
      BY <3>1, TalkInv, SameSuspended DEF ConvInv, ConvTypeOK
  <2>8. CASE Publish(t)
    BY <2>8, PublishInv
  <2>9. CASE Read(t)
    <3>1. /\ Go(t, "recommend") \/ Go(t, "remember") \/ Answer(t, "ERROR")
          /\ UNCHANGED <<suspended, made, published, remembered, confirms, rejects>>
      BY <2>9 DEF Read
    <3>. QED
      BY <3>1, TalkInv, SameSuspended DEF ConvInv, ConvTypeOK
  <2>10. CASE Recommend(t)
    <3>1. turn[t].session \in Sessions \cup {None}
      BY TypeOfTurn DEF ConvInv, TurnRecord
    <3>2. \A n \in Fresh : Suspended(n, turn[t].session, "SaveProductFamily") =>
             /\ suspended' \in [Nonces -> Row \cup {None}]
             /\ \A k \in Nonces : suspended[k] # None => suspended'[k] = suspended[k]
      BY <3>1, SuspendedFacts DEF ConvInv, Operations
    <3>3. /\ suspended' \in [Nonces -> Row \cup {None}]
          /\ \A k \in Nonces : suspended[k] # None => suspended'[k] = suspended[k]
      BY <2>10, <3>2, SameSuspended DEF Recommend, ConvInv
    <3>4. Go(t, "remember") /\ UNCHANGED <<made, published, remembered, confirms, rejects>>
      BY <2>10 DEF Recommend
    <3>. QED
      BY <3>3, <3>4, TalkInv DEF ConvInv, ConvTypeOK
  <2>11. CASE Remember(t)
    <3>1. /\ Answer(t, "DONE") /\ remembered' \subseteq remembered \cup {t}
          /\ UNCHANGED <<suspended, made, published, confirms, rejects>>
      BY <2>11 DEF Remember
    <3>2. remembered' \subseteq Turns
      BY <3>1 DEF ConvInv, ConvTypeOK
    <3>. QED
      BY <3>1, <3>2, TalkInv, SameSuspended DEF ConvInv
  <2>12. CASE Die(t)
    <3>1. /\ Answer(t, None)
          /\ UNCHANGED <<suspended, made, published, remembered, confirms, rejects>>
      BY <2>12 DEF Die
    <3>. QED
      BY <3>1, TalkInv, SameSuspended DEF ConvInv, ConvTypeOK
  <2>. QED
    BY <1>1, <2>1, <2>2, <2>3, <2>4, <2>5, <2>6, <2>7, <2>8, <2>9, <2>10, <2>11, <2>12 DEF ProcessQuery
<1>2. ASSUME NEW n \in Nonces, Expire(n) PROVE ConvInv'
  BY <1>2, ExpireInv
<1>3. CASE UNCHANGED convVars
  <2>1. UNCHANGED <<suspended, turn, made, published, remembered, confirms, rejects>>
    BY <1>3 DEF convVars
  <2>2. ConvTypeOK' /\ Aimed'
    BY <2>1 DEF ConvInv, ConvTypeOK, Aimed
  <2>3. ASSUME NEW n \in Nonces PROVE NonceOK(n)'
    <3>1. \A u \in Turns : Holds(u, n)' => Holds(u, n) /\ (turn'[u].pc = "save" => turn[u].pc = "save")
      BY <2>1 DEF Holds
    <3>. QED
      BY <2>1, <3>1, QuietStep DEF ConvInv
  <2>. QED
    BY <2>2, <2>3 DEF ConvInv
<1>. QED
  BY <1>1, <1>2, <1>3 DEF ConvNext

LEMMA ConvAlwaysInv == ConvSpec => []ConvInv
  BY ConvInitInv, ConvStepInv, PTL DEF ConvSpec

-----------------------------------------------------------------------------
\* The tables and turns keep their types (RabtaConversation.ConvTypeOK).
THEOREM ConvTypeCorrect == ConvSpec => []ConvTypeOK
<1>1. ConvInv => ConvTypeOK
  BY DEF ConvInv
<1>. QED
  BY <1>1, ConvAlwaysInv, PTL

\* However many turns confirm one request at once, and wherever they die, one family is saved for it
\* (postgres_memory.py atomic_consume_action, decision_engine.py process_intent).
THEOREM OneFamilyCorrect == ConvSpec => []OneFamilyPerRequest
<1>1. ConvInv => OneFamilyPerRequest
  BY DEF ConvInv, NonceOK, OneFamilyPerRequest
<1>. QED
  BY <1>1, ConvAlwaysInv, PTL

\* Nothing is saved or published for a request but after a confirmation of its own session, in time.
THEOREM ExecutedCorrect == ConvSpec => []ExecutedWasConfirmed
<1>1. ConvInv => ExecutedWasConfirmed
  BY DEF ConvInv, NonceOK, ExecutedWasConfirmed
<1>. QED
  BY <1>1, ConvAlwaysInv, PTL

\* A request that was rejected while it waited is never carried out.
THEOREM RejectedCorrect == ConvSpec => []RejectedIsNeverDone
<1>1. ConvInv => RejectedIsNeverDone
  <2> SUFFICES ASSUME ConvInv, NEW n \in Nonces, rejects[n] # {}
               PROVE  made[n] = 0 /\ n \notin published
    BY DEF RejectedIsNeverDone
  <2>1. NonceOK(n) /\ made[n] \in Nat
    BY DEF ConvInv, ConvTypeOK
  <2>2. confirms[n] # {} => rejects[n] = {}
    BY <2>1 DEF NonceOK
  <2>3. made[n] > 0 \/ n \in published => confirms[n] # {}
    BY <2>1 DEF NonceOK
  <2>4. ~(made[n] > 0) /\ n \notin published
    BY <2>2, <2>3
  <2>. QED
    BY <2>1, <2>4
<1>. QED
  BY <1>1, ConvAlwaysInv, PTL

-----------------------------------------------------------------------------
(* Consent: the conversations refine it step by step.                        *)

Own(n) == {<<suspended[n].session, TRUE>>}

\* What was rejected was rejected by the session that asked.
OwnRejections == \A n \in Nonces : rejects[n] # {} => suspended[n] # None /\ rejects[n] = Own(n)

\* A turn publishes what its request asks it to publish, and has saved it before.
SavedBefore(t) == turn[t].pc \in {"transition", "publish"} =>
    /\ made[turn[t].nonce] = 1
    /\ suspended[turn[t].nonce] # None
    /\ suspended[turn[t].nonce].op = "PrepareAndPublishShopDeck"

ConsentInv == ConvInv /\ OwnRejections /\ \A t \in Turns : SavedBefore(t)

\* A request keeps what it asks for and who asked, whatever is done with it.
Kept(n) == suspended[n] # None => /\ suspended'[n] # None
                                  /\ suspended'[n].session = suspended[n].session
                                  /\ suspended'[n].op = suspended[n].op

\* Only a step of its own takes a turn on to publishing.
OnlyMoves(t) ==
    /\ \A u \in Turns \ {t} : turn'[u] = turn[u]
    /\ turn'[t].pc \in {"transition", "publish"} =>
          turn[t].pc \in {"transition", "publish"} /\ turn'[t].nonce = turn[t].nonce

LEMMA ConsentInitInv == ConvInit => ConsentInv
<1> SUFFICES ASSUME ConvInit PROVE ConsentInv
  OBVIOUS
<1>1. ConvInv
  BY ConvInitInv
<1>2. \A t \in Turns : turn[t].pc = "new"
  BY DEF ConvInit, NewTurn
<1>3. \A n \in Nonces : rejects[n] = {}
  BY DEF ConvInit
<1>. QED
  BY <1>1, <1>2, <1>3 DEF ConsentInv, OwnRejections, SavedBefore

\* What a step leaves of the invariant when it saves nothing and rejects nothing.
LEMMA ConsentQuiet ==
    ASSUME ConsentInv, NEW t \in Turns, OnlyMoves(t),
           \A n \in Nonces : Kept(n), rejects' = rejects, made' = made
    PROVE  OwnRejections' /\ \A u \in Turns : SavedBefore(u)'
<1>1. OwnRejections'
  BY DEF ConsentInv, OwnRejections, Kept, Own
<1>2. ASSUME NEW u \in Turns, turn'[u].pc \in {"transition", "publish"}
      PROVE  SavedBefore(u)'
  <2>1. turn[u].pc \in {"transition", "publish"} /\ turn'[u].nonce = turn[u].nonce
    BY <1>2 DEF OnlyMoves
  <2>2. turn[u].nonce \in Nonces
    BY <2>1, TypeOfTurn DEF ConsentInv, ConvInv, Aimed, TurnRecord
  <2>. QED
    BY <2>1, <2>2 DEF ConsentInv, SavedBefore, Kept
<1>. QED
  BY <1>1, <1>2 DEF SavedBefore

\* How each kind of step treats the requests.
Asks(n, op) ==
    /\ suspended[n] = None /\ suspended'[n] \in Row /\ suspended'[n].op = op
    /\ ~suspended'[n].expired
    /\ \A k \in Nonces \ {n} : suspended'[k] = suspended[k]
    /\ UNCHANGED <<made, published, confirms, rejects>>

\* One row is changed, in its status or its time.
Touches(n) ==
    /\ suspended[n] # None /\ suspended'[n] # None
    /\ suspended'[n].session = suspended[n].session /\ suspended'[n].op = suspended[n].op
    /\ \A k \in Nonces \ {n} : suspended'[k] = suspended[k]

Grants(n) ==
    /\ Touches(n) /\ ~suspended[n].expired
    /\ confirms[n] = {} /\ rejects[n] = {}
    /\ confirms' = [confirms EXCEPT ![n] = Own(n)]
    /\ UNCHANGED <<made, published, rejects>>

Refuses(n) ==
    /\ Touches(n) /\ ~suspended[n].expired
    /\ confirms[n] = {} /\ rejects[n] = {}
    /\ rejects' = [rejects EXCEPT ![n] = Own(n)]
    /\ UNCHANGED <<made, published, confirms>>

Lapses(n) ==
    /\ Touches(n) /\ ~suspended[n].expired /\ suspended'[n].expired
    /\ UNCHANGED <<turn, made, published, confirms, rejects>>

Saves(n) ==
    /\ suspended[n] # None /\ confirms[n] = Own(n) /\ rejects[n] = {} /\ made[n] = 0
    /\ made' = [made EXCEPT ![n] = 1]
    /\ UNCHANGED <<suspended, published, confirms, rejects>>

Exports(n) ==
    /\ suspended[n] # None /\ confirms[n] = Own(n) /\ rejects[n] = {} /\ made[n] = 1
    /\ suspended[n].op = "PrepareAndPublishShopDeck"
    /\ published' = published \cup {n}
    /\ UNCHANGED <<suspended, made, confirms, rejects>>

Idles == UNCHANGED <<suspended, made, published, confirms, rejects>>

Kinds ==
    \/ Idles
    \/ \E n \in Nonces : \/ \E op \in Operations : Asks(n, op)
                         \/ Grants(n) \/ Refuses(n) \/ Lapses(n) \/ Saves(n) \/ Exports(n)

LEMMA GoMoves ==
    ASSUME ConvInv, NEW t \in Turns, NEW p \in Steps, Go(t, p),
           p \in {"transition", "publish"} => turn[t].pc \in {"transition", "publish"}
    PROVE  OnlyMoves(t)
<1>1. turn \in [Turns -> TurnRecord]
  BY TypeOfTurn DEF ConvInv
<1>. QED
  BY <1>1, Moved DEF OnlyMoves

LEMMA AnswerMoves ==
    ASSUME ConvInv, NEW t \in Turns,
           NEW a \in {None, "REJECTED", "CONFIRMATION_REQUIRED", "ERROR", "EXECUTION_LIMITATION",
                      "DONE"},
           Answer(t, a)
    PROVE  OnlyMoves(t)
<1>1. turn \in [Turns -> TurnRecord]
  BY TypeOfTurn DEF ConvInv
<1>. QED
  BY <1>1, Answered DEF OnlyMoves

\* A request that is suspended is new.
LEMMA SuspendedAsks ==
    ASSUME ConvInv, NEW n \in Fresh, NEW s \in Sessions \cup {None}, NEW op \in Operations,
           Suspended(n, s, op), UNCHANGED <<made, published, confirms, rejects>>
    PROVE  Asks(n, op) /\ \A k \in Nonces : Kept(k)
<1> DEFINE r == [session |-> s, status |-> "PENDING", expired |-> FALSE, op |-> op]
<1>1. r \in Row /\ r.op = op /\ ~r.expired
  BY DEF Row
<1>2. n \in Nonces /\ suspended[n] = None /\ suspended' = [suspended EXCEPT ![n] = r]
  BY DEF Fresh, Suspended
<1>3. suspended \in [Nonces -> Row \cup {None}]
  BY DEF ConvInv, ConvTypeOK
<1> HIDE DEF r
<1>. QED
  BY <1>1, <1>2, <1>3 DEF Asks, Kept

\* A row that is consumed.
LEMMA ConsumedTouches ==
    ASSUME ConvInv, NEW n \in Nonces, suspended[n] # None,
           suspended' = [suspended EXCEPT ![n].status = "CONSUMED"]
    PROVE  Touches(n) /\ \A k \in Nonces : Kept(k)
<1>1. suspended[n] \in Row /\ suspended \in [Nonces -> Row \cup {None}]
  BY DEF ConvInv, ConvTypeOK
<1> DEFINE r == [suspended[n] EXCEPT !.status = "CONSUMED"]
<1>2. r \in Row /\ r.session = suspended[n].session /\ r.op = suspended[n].op
  BY <1>1 DEF Row
<1>3. suspended' = [suspended EXCEPT ![n] = r]
  BY <1>1
<1>4. r # None
  BY <1>2, ConversationAssumption DEF ConversationAssumption
<1> HIDE DEF r
<1>. QED
  BY <1>1, <1>2, <1>3, <1>4 DEF Touches, Kept

LEMMA ExpiredTouches ==
    ASSUME ConvInv, NEW n \in Nonces, Expire(n)
    PROVE  Lapses(n) /\ \A k \in Nonces : Kept(k)
<1>1. suspended[n] \in Row /\ suspended \in [Nonces -> Row \cup {None}]
  BY DEF ConvInv, ConvTypeOK, Expire
<1> DEFINE r == [suspended[n] EXCEPT !.expired = TRUE]
<1>2. r \in Row /\ r.session = suspended[n].session /\ r.op = suspended[n].op /\ r.expired
  BY <1>1 DEF Row
<1>3. suspended' = [suspended EXCEPT ![n] = r]
  BY <1>1 DEF Expire
<1>4. r # None
  BY <1>2, ConversationAssumption DEF ConversationAssumption
<1> HIDE DEF r
<1>. QED
  BY <1>1, <1>2, <1>3, <1>4 DEF Touches, Kept, Lapses, Expire

\* The turns that only look, speak or end.
LEMMA IdleConsents ==
    ASSUME ConsentInv, NEW t \in Turns, OnlyMoves(t), Idles
    PROVE  Kinds /\ OwnRejections' /\ \A u \in Turns : SavedBefore(u)'
<1>1. \A n \in Nonces : Kept(n)
  BY DEF Idles, Kept
<1>. QED
  BY <1>1, ConsentQuiet DEF Idles, Kinds

LEMMA UnderstandConsents ==
    ASSUME ConsentInv, NEW t \in Turns, NEW s \in Sessions \cup {None}, NEW intent \in Intents,
           NEW m \in Nonces \cup {None}, Understand(t, s, intent, m)
    PROVE  Kinds /\ OwnRejections' /\ \A u \in Turns : SavedBefore(u)'
<1> DEFINE p == CASE intent = "READ" -> "read" [] intent = "ACTION" -> "suspend"
                  [] intent \notin {"READ", "ACTION"} /\ m = None -> "remember"
                  [] OTHER -> "retrieve"
<1>1. p \notin {"transition", "publish"}
  BY DEF Intents
<1>2. turn' = [turn EXCEPT ![t].session = s, ![t].intent = intent, ![t].nonce = m, ![t].pc = p]
  BY DEF Understand
<1> HIDE DEF p
<1>3. turn \in [Turns -> TurnRecord]
  BY TypeOfTurn DEF ConsentInv, ConvInv
<1>4. turn'[t].pc = p /\ \A u \in Turns \ {t} : turn'[u] = turn[u]
  BY <1>2, <1>3 DEF TurnRecord
<1>5. OnlyMoves(t)
  BY <1>1, <1>4 DEF OnlyMoves
<1>6. Idles
  BY DEF Understand, Idles
<1>. QED
  BY <1>5, <1>6, IdleConsents

\* A confirmation grants, if it consumes the request.
LEMMA ConfirmConsents ==
    ASSUME ConsentInv, NEW t \in Turns, Confirm(t)
    PROVE  Kinds /\ OwnRejections' /\ \A u \in Turns : SavedBefore(u)'
<1>m. PICK m : m = turn[t].nonce
  OBVIOUS
<1>1. m \in Nonces /\ ConvInv
  BY <1>m, TypeOfTurn DEF ConsentInv, ConvInv, Aimed, Confirm, TurnRecord
<1>2. CASE ~Consumable(m, turn[t].session)
  <2>1. Answer(t, "REJECTED") /\ Idles
    BY <1>m, <1>2 DEF Confirm, Idles
  <2>. QED
    BY <1>1, <2>1, AnswerMoves, IdleConsents
<1>3. CASE Consumable(m, turn[t].session)
  <2>1. /\ suspended[m] # None /\ suspended[m].session = turn[t].session
        /\ suspended[m].status = "PENDING" /\ ~suspended[m].expired
    BY <1>3 DEF Consumable, OfSession
  <2>2. /\ suspended' = [suspended EXCEPT ![m].status = "CONSUMED"]
        /\ confirms' = [confirms EXCEPT ![m] = @ \cup {<<turn[t].session, ~suspended[m].expired>>}]
        /\ Go(t, "save") /\ UNCHANGED <<made, published, rejects>>
    BY <1>m, <1>3 DEF Confirm, Consumed
  <2>3. confirms[m] = {} /\ rejects[m] = {}
    BY <1>1, <2>1 DEF ConvInv, NonceOK
  <2>4. (~suspended[m].expired) = TRUE
    BY <2>1
  <2>5. confirms[m] \cup {<<turn[t].session, ~suspended[m].expired>>} = Own(m)
    BY <2>1, <2>3, <2>4 DEF Own
  <2>6. confirms' = [confirms EXCEPT ![m] = Own(m)]
    BY <2>2, <2>5
  <2>7. Touches(m) /\ \A k \in Nonces : Kept(k)
    BY <1>1, <2>1, <2>2, ConsumedTouches
  <2>8. OnlyMoves(t)
    BY <1>1, <2>2, GoMoves DEF Steps
  <2>9. Grants(m)
    BY <2>1, <2>2, <2>3, <2>6, <2>7 DEF Grants
  <2>. QED
    BY <1>1, <2>2, <2>7, <2>8, <2>9, ConsentQuiet DEF Kinds
<1>. QED
  BY <1>2, <1>3

\* A rejection refuses, if it consumes the request.
LEMMA RejectConsents ==
    ASSUME ConsentInv, NEW t \in Turns, Reject(t)
    PROVE  Kinds /\ OwnRejections' /\ \A u \in Turns : SavedBefore(u)'
<1>m. PICK m : m = turn[t].nonce
  OBVIOUS
<1>1. m \in Nonces /\ ConvInv /\ Answer(t, "REJECTED")
  BY <1>m, TypeOfTurn DEF ConsentInv, ConvInv, Aimed, Reject, TurnRecord
<1>2. OnlyMoves(t)
  BY <1>1, AnswerMoves
<1>3. CASE ~Consumable(m, turn[t].session)
  <2>1. Idles
    BY <1>m, <1>3 DEF Reject, Idles
  <2>. QED
    BY <1>2, <2>1, IdleConsents
<1>4. CASE Consumable(m, turn[t].session)
  <2>1. /\ suspended[m] # None /\ suspended[m].session = turn[t].session
        /\ suspended[m].status = "PENDING" /\ ~suspended[m].expired
    BY <1>4 DEF Consumable, OfSession
  <2>2. /\ suspended' = [suspended EXCEPT ![m].status = "CONSUMED"]
        /\ rejects' = [rejects EXCEPT ![m] = @ \cup {<<turn[t].session, TRUE>>}]
        /\ UNCHANGED <<made, published, confirms>>
    BY <1>m, <1>4 DEF Reject
  <2>3. confirms[m] = {} /\ rejects[m] = {}
    BY <1>1, <2>1 DEF ConvInv, NonceOK
  <2>4. rejects[m] \cup {<<turn[t].session, TRUE>>} = Own(m)
    BY <2>1, <2>3 DEF Own
  <2>5. rejects' = [rejects EXCEPT ![m] = Own(m)]
    BY <2>2, <2>4
  <2>6. Touches(m) /\ \A k \in Nonces : Kept(k)
    BY <1>1, <2>1, <2>2, ConsumedTouches
  <2>7. Refuses(m)
    BY <2>1, <2>2, <2>3, <2>5, <2>6 DEF Refuses
  <2>8. rejects \in [Nonces -> SUBSET ((Sessions \cup {None}) \X BOOLEAN)]
    BY <1>1 DEF ConvInv, ConvTypeOK
  <2>9. rejects'[m] = Own(m) /\ \A k \in Nonces \ {m} : rejects'[k] = rejects[k]
    BY <1>1, <2>5, <2>8
  <2>10. Own(m)' = Own(m) /\ suspended'[m] # None
    BY <2>6 DEF Touches, Own
  <2>11. OwnRejections'
    <3> SUFFICES ASSUME NEW k \in Nonces, rejects'[k] # {}
                 PROVE  suspended'[k] # None /\ rejects'[k] = Own(k)'
      BY DEF OwnRejections
    <3>1. CASE k = m
      BY <2>9, <2>10, <3>1
    <3>2. CASE k # m
      BY <2>6, <2>9, <3>2 DEF ConsentInv, OwnRejections, Touches, Own
    <3>. QED
      BY <3>1, <3>2
  <2>12. ASSUME NEW u \in Turns, turn'[u].pc \in {"transition", "publish"}
         PROVE  SavedBefore(u)'
    <3>1. turn[u].pc \in {"transition", "publish"} /\ turn'[u].nonce = turn[u].nonce
      BY <1>2, <2>12 DEF OnlyMoves
    <3>2. turn[u].nonce \in Nonces
      BY <1>1, <3>1, TypeOfTurn DEF ConvInv, Aimed, TurnRecord
    <3>. QED
      BY <2>2, <2>6, <3>1, <3>2 DEF ConsentInv, SavedBefore, Kept
  <2>. QED
    BY <1>1, <2>7, <2>11, <2>12 DEF Kinds, SavedBefore
<1>. QED
  BY <1>3, <1>4

LEMMA SuspendConsents ==
    ASSUME ConsentInv, NEW t \in Turns, OnlyMoves(t), NEW n \in Fresh,
           NEW s \in Sessions \cup {None}, NEW op \in Operations,
           Suspended(n, s, op), UNCHANGED <<made, published, confirms, rejects>>
    PROVE  Kinds /\ OwnRejections' /\ \A u \in Turns : SavedBefore(u)'
<1>1. Asks(n, op) /\ \A k \in Nonces : Kept(k)
  BY SuspendedAsks DEF ConsentInv
<1>2. n \in Nonces
  BY DEF Fresh
<1>. QED
  BY <1>1, <1>2, ConsentQuiet DEF Kinds

\* A request that a turn holds was granted.
LEMMA HeldIsGranted ==
    ASSUME ConsentInv, NEW t \in Turns, turn[t].pc \in {"save", "transition", "publish"}
    PROVE  LET m == turn[t].nonce IN
           /\ m \in Nonces /\ suspended[m] # None /\ confirms[m] = Own(m) /\ rejects[m] = {}
           /\ turn[t].pc = "save" => made[m] = 0
           /\ \A u \in Turns \ {t} : turn[u].pc \in {"save", "transition", "publish"} =>
                 turn[u].nonce # m
<1>m. PICK m : m = turn[t].nonce
  OBVIOUS
<1>1. m \in Nonces
  BY <1>m, TypeOfTurn DEF ConsentInv, ConvInv, Aimed, TurnRecord
<1>2. NonceOK(m) /\ Holds(t, m)
  BY <1>m, <1>1 DEF ConsentInv, ConvInv, Holds
<1>3. confirms[m] # {} /\ (turn[t].pc = "save" => made[m] = 0)
  BY <1>2 DEF NonceOK
<1>4. suspended[m] # None /\ confirms[m] = Own(m) /\ rejects[m] = {}
  BY <1>2, <1>3 DEF NonceOK, Own
<1>5. ASSUME NEW u \in Turns \ {t}, turn[u].pc \in {"save", "transition", "publish"}
      PROVE  turn[u].nonce # m
  BY <1>2, <1>5 DEF NonceOK, Holds
<1>. QED
  BY <1>m, <1>1, <1>3, <1>4, <1>5

LEMMA SaveConsents ==
    ASSUME ConsentInv, NEW t \in Turns, Save(t)
    PROVE  Kinds /\ OwnRejections' /\ \A u \in Turns : SavedBefore(u)'
<1>m. PICK m : m = turn[t].nonce
  OBVIOUS
<1>1. /\ turn[t].pc = "save" /\ turn \in [Turns -> TurnRecord] /\ made \in [Nonces -> Nat]
      /\ UNCHANGED <<suspended, published, confirms, rejects>>
  BY TypeOfTurn DEF ConsentInv, ConvInv, Save
<1>2. /\ m \in Nonces /\ suspended[m] # None /\ confirms[m] = Own(m) /\ rejects[m] = {}
      /\ made[m] = 0
      /\ \A u \in Turns \ {t} : turn[u].pc \in {"save", "transition", "publish"} =>
            turn[u].nonce # m
  BY <1>m, <1>1, HeldIsGranted
<1> DEFINE next == AfterSave(suspended[m].op)
<1>3. /\ turn'[t].nonce = m /\ \A u \in Turns \ {t} : turn'[u] = turn[u]
      /\ \/ made' = [made EXCEPT ![m] = @ + 1] /\ turn'[t].pc \in {next, "answered"}
         \/ made' = made /\ turn'[t].pc \in {"save", "answered"}
  <2>1. CASE made' = [made EXCEPT ![m] = @ + 1] /\ Go(t, next)
    BY <1>m, <1>1, <2>1, Moved DEF Steps, AfterSave
  <2>2. CASE /\ turn[t].candidate < Candidates /\ UNCHANGED made
             /\ turn' = [turn EXCEPT ![t].candidate = @ + 1]
    BY <1>m, <1>1, <2>2, NextCandidate
  <2>3. CASE Answer(t, "EXECUTION_LIMITATION") /\ UNCHANGED made
    BY <1>m, <1>1, <2>3, Answered
  <2>4. CASE Answer(t, "ERROR") /\ (made' = [made EXCEPT ![m] = @ + 1] \/ UNCHANGED made)
    BY <1>m, <1>1, <2>4, Answered
  <2>. QED
    BY <1>m, <2>1, <2>2, <2>3, <2>4 DEF Save, AfterLoss
<1>4. Saves(m) \/ Idles
  <2>1. CASE made' = [made EXCEPT ![m] = @ + 1]
    <3>1. made' = [made EXCEPT ![m] = 1]
      BY <1>1, <1>2, <2>1
    <3>. QED
      BY <1>1, <1>2, <3>1 DEF Saves
  <2>2. CASE made' = made
    BY <1>1, <2>2 DEF Idles
  <2>. QED
    BY <1>3, <2>1, <2>2
<1>5. OwnRejections'
  BY <1>1 DEF ConsentInv, OwnRejections, Own
<1>6. ASSUME NEW u \in Turns, turn'[u].pc \in {"transition", "publish"}
      PROVE  SavedBefore(u)'
  <2>1. CASE u = t
    <3>1. made' = [made EXCEPT ![m] = @ + 1] /\ turn'[t].pc = next
      BY <1>3, <1>6, <2>1
    <3>2. made'[m] = 1 /\ suspended[m].op = "PrepareAndPublishShopDeck"
      BY <1>1, <1>2, <1>6, <2>1, <3>1 DEF AfterSave
    <3>. QED
      BY <1>1, <1>2, <1>3, <2>1, <3>2 DEF SavedBefore
  <2>2. CASE u # t
    <3>1. turn'[u] = turn[u] /\ turn[u].nonce # m
      BY <1>2, <1>3, <1>6, <2>2
    <3>2. turn[u].nonce \in Nonces
      BY <1>6, <3>1, TypeOfTurn DEF ConsentInv, ConvInv, Aimed, TurnRecord
    <3>3. made'[turn[u].nonce] = made[turn[u].nonce]
      BY <1>1, <1>3, <3>1, <3>2
    <3>. QED
      BY <1>1, <1>6, <3>1, <3>3 DEF ConsentInv, SavedBefore
  <2>. QED
    BY <2>1, <2>2
<1>. QED
  BY <1>2, <1>4, <1>5, <1>6 DEF Kinds, SavedBefore

LEMMA PublishConsents ==
    ASSUME ConsentInv, NEW t \in Turns, Publish(t)
    PROVE  Kinds /\ OwnRejections' /\ \A u \in Turns : SavedBefore(u)'
<1>m. PICK m : m = turn[t].nonce
  OBVIOUS
<1>1. /\ turn[t].pc = "publish" /\ turn \in [Turns -> TurnRecord]
      /\ UNCHANGED <<suspended, made, confirms, rejects>>
      /\ published' = published \/ published' = published \cup {m}
  BY <1>m, TypeOfTurn DEF ConsentInv, ConvInv, Publish
<1>2. m \in Nonces /\ suspended[m] # None /\ confirms[m] = Own(m) /\ rejects[m] = {}
  BY <1>m, <1>1, HeldIsGranted
<1>3. made[m] = 1 /\ suspended[m].op = "PrepareAndPublishShopDeck"
  BY <1>m, <1>1 DEF ConsentInv, SavedBefore
<1>4. OnlyMoves(t)
  <2>1. CASE Go(t, "remember")
    BY <2>1, GoMoves DEF ConsentInv, Steps
  <2>2. CASE \E a \in {"ERROR", "EXECUTION_LIMITATION"} : Answer(t, a)
    BY <2>2, AnswerMoves DEF ConsentInv
  <2>. QED
    BY <2>1, <2>2 DEF Publish
<1>5. Exports(m) \/ Idles
  BY <1>1, <1>2, <1>3 DEF Exports, Idles
<1>6. \A n \in Nonces : Kept(n)
  BY <1>1 DEF Kept
<1>. QED
  BY <1>1, <1>2, <1>4, <1>5, <1>6, ConsentQuiet DEF Kinds

\* Every call of process_query.
LEMMA QueryConsents ==
    ASSUME ConsentInv, NEW t \in Turns, ProcessQuery(t)
    PROVE  Kinds /\ OwnRejections' /\ \A u \in Turns : SavedBefore(u)'
<1>0. ConvInv /\ turn[t].session \in Sessions \cup {None}
  BY TypeOfTurn DEF ConsentInv, ConvInv, TurnRecord
<1>1. CASE \E s \in Sessions \cup {None}, intent \in Intents, n \in Nonces \cup {None} :
              Understand(t, s, intent, n)
  BY <1>1, UnderstandConsents
<1>2. CASE Retrieve(t)
  <2>1. Idles /\ (Go(t, "consume") \/ Answer(t, "REJECTED"))
    BY <1>2 DEF Retrieve, Idles
  <2>2. OnlyMoves(t)
    BY <1>0, <2>1, GoMoves, AnswerMoves DEF Steps
  <2>. QED
    BY <2>1, <2>2, IdleConsents
<1>3. CASE Confirm(t)
  BY <1>3, ConfirmConsents
<1>4. CASE Reject(t)
  BY <1>4, RejectConsents
<1>5. CASE \E n \in Nonces, op \in Operations : Suspend(t, n, op)
  <2>1. PICK n \in Nonces, op \in Operations : Suspend(t, n, op)
    BY <1>5
  <2>2. /\ n \in Fresh /\ Suspended(n, turn[t].session, op)
        /\ Answer(t, "CONFIRMATION_REQUIRED")
        /\ UNCHANGED <<made, published, confirms, rejects>>
    BY <2>1 DEF Suspend
  <2>3. OnlyMoves(t)
    BY <1>0, <2>2, AnswerMoves
  <2>. QED
    BY <1>0, <2>2, <2>3, SuspendConsents
<1>6. CASE Save(t)
  BY <1>6, SaveConsents
<1>7. CASE Transition(t)
  <2>1. /\ Idles /\ turn[t].pc = "transition"
        /\ Go(t, "publish") \/ Answer(t, "EXECUTION_LIMITATION") \/ Answer(t, "ERROR")
    BY <1>7 DEF Transition, Idles
  <2>2. OnlyMoves(t)
    BY <1>0, <2>1, GoMoves, AnswerMoves DEF Steps
  <2>. QED
    BY <2>1, <2>2, IdleConsents
<1>8. CASE Publish(t)
  BY <1>8, PublishConsents
<1>9. CASE Read(t)
  <2>1. Idles /\ (Go(t, "recommend") \/ Go(t, "remember") \/ Answer(t, "ERROR"))
    BY <1>9 DEF Read, Idles
  <2>2. OnlyMoves(t)
    BY <1>0, <2>1, GoMoves, AnswerMoves DEF Steps
  <2>. QED
    BY <2>1, <2>2, IdleConsents
<1>10. CASE Recommend(t)
  <2>1. Go(t, "remember") /\ UNCHANGED <<made, published, confirms, rejects>>
    BY <1>10 DEF Recommend
  <2>2. OnlyMoves(t)
    BY <1>0, <2>1, GoMoves DEF Steps
  <2>3. CASE \E n \in Fresh : Suspended(n, turn[t].session, "SaveProductFamily")
    BY <1>0, <2>1, <2>2, <2>3, SuspendConsents DEF Operations
  <2>4. CASE UNCHANGED suspended
    BY <2>1, <2>2, <2>4, IdleConsents DEF Idles
  <2>. QED
    BY <1>10, <2>3, <2>4 DEF Recommend
<1>11. CASE Remember(t) \/ Die(t)
  <2>1. Idles /\ (Answer(t, "DONE") \/ Answer(t, None))
    BY <1>11 DEF Remember, Die, Idles
  <2>2. OnlyMoves(t)
    BY <1>0, <2>1, AnswerMoves
  <2>. QED
    BY <2>1, <2>2, IdleConsents
<1>. QED
  BY <1>1, <1>2, <1>3, <1>4, <1>5, <1>6, <1>7, <1>8, <1>9, <1>10, <1>11 DEF ProcessQuery

LEMMA StepConsents == ConsentInv /\ [ConvNext]_convVars => Kinds /\ ConsentInv'
<1> SUFFICES ASSUME ConsentInv, [ConvNext]_convVars PROVE Kinds /\ ConsentInv'
  OBVIOUS
<1>1. ConvInv'
  BY ConvStepInv DEF ConsentInv
<1>2. Kinds /\ OwnRejections' /\ \A u \in Turns : SavedBefore(u)'
  <2>1. CASE \E t \in Turns : ProcessQuery(t)
    BY <2>1, QueryConsents
  <2>2. ASSUME NEW n \in Nonces, Expire(n)
        PROVE  Kinds /\ OwnRejections' /\ \A u \in Turns : SavedBefore(u)'
    <3>1. Lapses(n) /\ \A k \in Nonces : Kept(k)
      BY <2>2, ExpiredTouches DEF ConsentInv
    <3>2. OwnRejections'
      BY <3>1 DEF Lapses, ConsentInv, OwnRejections, Kept, Own
    <3>3. ASSUME NEW u \in Turns, turn[u].pc \in {"transition", "publish"}
          PROVE  SavedBefore(u)'
      <4>1. turn[u].nonce \in Nonces
        BY <3>3, TypeOfTurn DEF ConsentInv, ConvInv, Aimed, TurnRecord
      <4>. QED
        BY <3>1, <3>3, <4>1 DEF Lapses, ConsentInv, SavedBefore, Kept
    <3>. QED
      BY <3>1, <3>2, <3>3 DEF Kinds, SavedBefore, Lapses
  <2>3. CASE UNCHANGED convVars
    BY <2>3 DEF convVars, Kinds, Idles, ConsentInv, OwnRejections, SavedBefore, Own
  <2>. QED
    BY <2>1, <2>2, <2>3 DEF ConvNext
<1>. QED
  BY <1>1, <1>2 DEF ConsentInv

LEMMA AlwaysConsentInv == ConvSpec => []ConsentInv
  BY ConsentInitInv, StepConsents, PTL DEF ConvSpec

-----------------------------------------------------------------------------
(* The steps of Consent.                                                     *)

Asked(n) == IF suspended[n] = None THEN None ELSE suspended[n].op

Asking == [n \in Nonces |-> Asked(n)]
Said == [n \in Nonces |-> Word(n)]

\* The word and the wish of a request whose row and whose consumers are what they were.
LEMMA SameWord ==
    ASSUME NEW n, suspended'[n] = suspended[n], confirms'[n] = confirms[n],
           rejects'[n] = rejects[n]
    PROVE  Word(n)' = Word(n) /\ Asked(n)' = Asked(n)
  BY DEF Word, Asked

\* A step that moves on the word of one request.
LEMMA OneWord ==
    ASSUME NEW m \in Nonces, NEW said, Word(m)' = said,
           \A k \in Nonces \ {m} : Word(k)' = Word(k)
    PROVE  Said' = [Said EXCEPT ![m] = said]
  BY DEF Said

LEMMA OneWish ==
    ASSUME NEW m \in Nonces, NEW op, Asked(m)' = op,
           \A k \in Nonces \ {m} : Asked(k)' = Asked(k)
    PROVE  Asking' = [Asking EXCEPT ![m] = op]
  BY DEF Asking

LEMMA ConsentActions ==
    ASSUME NEW n \in Nonces
    PROVE  /\ \A op : Consent!Ask(n, op) <=>
                 /\ Said[n] = "none"
                 /\ Said' = [Said EXCEPT ![n] = "waiting"]
                 /\ Asking' = [Asking EXCEPT ![n] = op]
                 /\ made' = made /\ published' = published
           /\ \A said : Consent!Decide(n, said) <=>
                 /\ Said[n] = "waiting"
                 /\ Said' = [Said EXCEPT ![n] = said]
                 /\ Asking' = Asking /\ made' = made /\ published' = published
           /\ Consent!Save(n) <=>
                 /\ Said[n] = "granted" /\ made[n] = 0
                 /\ made' = [made EXCEPT ![n] = 1]
                 /\ Asking' = Asking /\ Said' = Said /\ published' = published
           /\ Consent!Export(n) <=>
                 /\ Said[n] = "granted" /\ Asking[n] \in {"PrepareAndPublishShopDeck"}
                 /\ made[n] = 1
                 /\ published' = published \cup {n}
                 /\ Asking' = Asking /\ Said' = Said /\ made' = made
  BY DEF Consent!Ask, Consent!Decide, Consent!Save, Consent!Export, Said, Asking, Asked

LEMMA ConsentInitRefines == ConvInit => Consent!Init
<1> SUFFICES ASSUME ConvInit PROVE Consent!Init
  OBVIOUS
<1>1. \A n \in Nonces : Word(n) = "none" /\ suspended[n] = None
  BY DEF ConvInit, Word
<1>. QED
  BY <1>1 DEF ConvInit, Consent!Init

\* A request that is touched keeps its wish.
LEMMA TouchedWish ==
    ASSUME NEW n \in Nonces, Touches(n)
    PROVE  Asking' = Asking /\ (\A k \in Nonces \ {n} : suspended'[k] = suspended[k])
<1>1. \A k \in Nonces : Asked(k)' = Asked(k)
  BY DEF Touches, Asked
<1>. QED
  BY <1>1 DEF Asking, Touches

LEMMA StepRefines == ConsentInv /\ [ConvNext]_convVars => [Consent!Next]_(Consent!vars)
<1> SUFFICES ASSUME ConsentInv, [ConvNext]_convVars PROVE Consent!Next \/ UNCHANGED Consent!vars
  OBVIOUS
<1>0. ConvInv /\ (\A n \in Nonces : NonceOK(n))
  BY DEF ConsentInv, ConvInv
<1>t. /\ confirms \in [Nonces -> SUBSET ((Sessions \cup {None}) \X BOOLEAN)]
      /\ rejects \in [Nonces -> SUBSET ((Sessions \cup {None}) \X BOOLEAN)]
  BY <1>0 DEF ConvInv, ConvTypeOK
<1>1. CASE Idles
  <2>1. \A n \in Nonces : Word(n)' = Word(n) /\ Asked(n)' = Asked(n)
    BY <1>1, SameWord DEF Idles
  <2>2. Said' = Said /\ Asking' = Asking
    BY <2>1 DEF Said, Asking
  <2>. QED
    BY <1>1, <2>2 DEF Idles, Consent!vars, Said, Asking, Asked
<1>2. ASSUME NEW n \in Nonces, NEW op \in Operations, Asks(n, op)
      PROVE  Consent!Ask(n, op)
  <2>1. suspended[n] = None /\ suspended'[n] # None
    BY <1>2, ConversationAssumption DEF Asks, ConversationAssumption
  <2>2. confirms'[n] = {} /\ rejects'[n] = {}
    BY <1>0, <1>2, <2>1 DEF Asks, NonceOK
  <2>3. Word(n) = "none" /\ Word(n)' = "waiting" /\ Asked(n)' = op
    BY <1>2, <2>1, <2>2 DEF Asks, Word, Asked
  <2>4. \A k \in Nonces \ {n} : Word(k)' = Word(k) /\ Asked(k)' = Asked(k)
    BY <1>2, SameWord DEF Asks
  <2>5. Said' = [Said EXCEPT ![n] = "waiting"] /\ Asking' = [Asking EXCEPT ![n] = op]
    BY <2>3, <2>4, OneWord, OneWish
  <2>6. Said[n] = "none"
    BY <2>3 DEF Said
  <2>. QED
    BY <1>2, <2>5, <2>6, ConsentActions DEF Asks
<1>3. ASSUME NEW n \in Nonces, NEW said,
             Touches(n), ~suspended[n].expired, confirms[n] = {}, rejects[n] = {},
             \A k \in Nonces \ {n} : confirms'[k] = confirms[k] /\ rejects'[k] = rejects[k],
             Word(n)' = said, UNCHANGED <<made, published>>
      PROVE  Consent!Decide(n, said)
  <2>1. Word(n) = "waiting"
    BY <1>3 DEF Touches, Word
  <2>2. Asking' = Asking /\ \A k \in Nonces \ {n} : suspended'[k] = suspended[k]
    BY <1>3, TouchedWish
  <2>3. \A k \in Nonces \ {n} : Word(k)' = Word(k)
    BY <1>3, <2>2, SameWord
  <2>4. Said' = [Said EXCEPT ![n] = said] /\ Said[n] = "waiting"
    BY <1>3, <2>1, <2>3, OneWord DEF Said
  <2>. QED
    BY <1>3, <2>2, <2>4, ConsentActions
<1>4. ASSUME NEW n \in Nonces, Grants(n)
      PROVE  Consent!Decide(n, "granted")
  <2>1. confirms'[n] = Own(n) /\ \A k \in Nonces \ {n} : confirms'[k] = confirms[k]
    BY <1>t, <1>4 DEF Grants
  <2>2. Word(n)' = "granted"
    BY <1>4, <2>1 DEF Grants, Touches, Word, Own
  <2>. QED
    BY <1>3, <1>4, <2>1, <2>2 DEF Grants
<1>5. ASSUME NEW n \in Nonces, Refuses(n)
      PROVE  Consent!Decide(n, "refused")
  <2>1. rejects'[n] = Own(n) /\ \A k \in Nonces \ {n} : rejects'[k] = rejects[k]
    BY <1>t, <1>5 DEF Refuses
  <2>2. Word(n)' = "refused"
    BY <1>5, <2>1 DEF Refuses, Touches, Word, Own
  <2>. QED
    BY <1>3, <1>5, <2>1, <2>2 DEF Refuses
<1>6. ASSUME NEW n \in Nonces, Lapses(n)
      PROVE  Consent!Decide(n, "lapsed") \/ UNCHANGED Consent!vars
  <2>1. CASE confirms[n] = {} /\ rejects[n] = {}
    <3>1. Word(n)' = "lapsed"
      BY <1>6, <2>1 DEF Lapses, Touches, Word
    <3>. QED
      BY <1>3, <1>6, <2>1, <3>1 DEF Lapses
  <2>2. CASE confirms[n] # {} \/ rejects[n] # {}
    <3>1. Word(n)' = Word(n)
      BY <1>6, <2>2 DEF Lapses, Touches, Word
    <3>2. Asking' = Asking /\ \A k \in Nonces \ {n} : suspended'[k] = suspended[k]
      BY <1>6, TouchedWish DEF Lapses
    <3>3. \A k \in Nonces : Word(k)' = Word(k)
      BY <1>6, <3>1, <3>2, SameWord DEF Lapses
    <3>4. Said' = Said
      BY <3>3 DEF Said
    <3>. QED
      BY <1>6, <3>2, <3>4 DEF Lapses, Consent!vars, Said, Asking, Asked
  <2>. QED
    BY <2>1, <2>2
<1>7. ASSUME NEW n \in Nonces, Saves(n) \/ Exports(n)
      PROVE  Consent!Save(n) \/ Consent!Export(n)
  <2>1. Word(n) = "granted" /\ Said[n] = "granted"
    BY <1>7 DEF Saves, Exports, Word, Own, Said
  <2>2. \A k \in Nonces : Word(k)' = Word(k) /\ Asked(k)' = Asked(k)
    BY <1>7, SameWord DEF Saves, Exports
  <2>3. Said' = Said /\ Asking' = Asking
    BY <2>2 DEF Said, Asking
  <2>4. CASE Saves(n)
    BY <2>1, <2>3, <2>4, ConsentActions DEF Saves
  <2>5. CASE Exports(n)
    <3>1. Asking[n] = "PrepareAndPublishShopDeck"
      BY <2>5 DEF Exports, Asking, Asked
    <3>. QED
      BY <2>1, <2>3, <2>5, <3>1, ConsentActions DEF Exports
  <2>. QED
    BY <1>7, <2>4, <2>5
<1>8. Kinds
  BY StepConsents
<1>. QED
  BY <1>1, <1>2, <1>4, <1>5, <1>6, <1>7, <1>8 DEF Kinds, Consent!Next

\* The conversations implement Consent: a request gets one word, of its own session and in time, the
\* word stands, and the Catalog is asked for no more than was granted
\* (postgres_memory.py atomic_consume_action, catalog_cem_adapter.py _handle_action).
THEOREM KeepsConsentCorrect == ConvSpec => KeepsConsent
<1>1. ConvSpec => Consent!Init /\ [][Consent!Next]_(Consent!vars)
  BY ConsentInitRefines, StepRefines, AlwaysConsentInv, PTL DEF ConvSpec
<1>. QED
  BY <1>1 DEF KeepsConsent, Consent!Spec

-----------------------------------------------------------------------------
(* CatalogDraft: what a stored draft says is reused from history is, and      *)
(* nothing in it is only the model's word, whatever the model proposes.       *)

\* A field that says it is reused is backed by what the record it cites has said.
Backed(f, field) ==
    field.prov = "SABAQ_REUSED" =>
        /\ \E h \in pastEvidence : h[1] = field.ref /\ h[2][f] = field.value /\ h[2].code \in known
        /\ f # "mrp" => field.value \in InBounds

Founded(d) == \A f \in Operational : Backed(f, d[f])

\* The firewall has passed it, and nothing was proposed since.
Cleared(d) == d["price"] = Unknown /\ \A f \in Operational : d[f].prov # "AI_PROPOSED"

\* A copy is of what its record has said.
Copies(c) == \A r \in Refs : c[r] # NoValue => <<r, c[r]>> \in pastEvidence

\* A draft is cleared except from the model's answer to the firewall, and the family that was
\* found has existed.
TurnOK(t) ==
    /\ Copies(chat[t].copies)
    /\ Founded(chat[t].draft)
    /\ chat[t].pc \notin {"verify", "judge"} => Cleared(chat[t].draft)
    /\ chat[t].pc = "judge" /\ chat[t].found => chat[t].draft["code"].value \in known

DraftInv ==
    /\ DraftTypeOK /\ Copies(evidence)
    /\ Founded(saved) /\ Cleared(saved)
    /\ \A t \in Chats : TurnOK(t)

TurnType == [pc : {"idle", "retrieve", "propose", "verify", "judge", "save", "show", "answered", "dropped"},
             draft : [Fields -> DraftField], copies : [Refs -> Contents \cup {NoValue}],
             found : BOOLEAN,
             own : DraftIntents \cup {NoValue}, action : DraftIntents \cup {NoValue}]

LEMMA DraftTypes == DraftTypeOK <=>
    /\ saved \in [Fields -> DraftField] /\ parsed \in DraftIntents
    /\ families \subseteq known /\ known \subseteq Codes
    /\ evidence \in [Refs -> Contents] /\ pastEvidence \subseteq Refs \X Contents
    /\ chat \in [Chats -> TurnType]
  BY DEF DraftTypeOK, TurnType

LEMMA EmptyDraftIs ==
    /\ EmptyDraft \in [Fields -> DraftField]
    /\ Founded(EmptyDraft) /\ Cleared(EmptyDraft)
<1>1. Unknown \in DraftField BY DEF Unknown, DraftField, Values
<1>2. \A f \in Fields : EmptyDraft[f] = Unknown BY DEF EmptyDraft
<1>3. Operational \subseteq Fields /\ "price" \in Fields BY DEF Operational, Fields
<1>4. Unknown.prov = "UNKNOWN_REQUIRES_USER" BY DEF Unknown
<1> QED BY <1>1, <1>2, <1>3, <1>4 DEF EmptyDraft, Founded, Cleared, Backed

LEMMA IdleTurnIs ==
    ASSUME NEW pc \in {"idle", "dropped"}
    PROVE  LET c == [IdleTurn EXCEPT !.pc = pc] IN
           /\ c \in TurnType /\ c.pc = pc /\ c.draft = EmptyDraft /\ c.copies = NoCopies
  BY EmptyDraftIs DEF IdleTurn, TurnType, NoCopies

LEMMA DraftInitInv == DraftInit => DraftInv
<1> SUFFICES ASSUME DraftInit PROVE DraftInv
  OBVIOUS
<1>1. /\ IdleTurn \in TurnType /\ IdleTurn.pc = "idle" /\ IdleTurn.draft = EmptyDraft
      /\ IdleTurn.copies = NoCopies
  BY EmptyDraftIs DEF IdleTurn, TurnType, NoCopies
<1>0. /\ OnRecord \in [Refs -> Contents] /\ evidence = OnRecord
      /\ pastEvidence = {<<r, OnRecord[r]>> : r \in Refs}
  BY DraftAssumption DEF DraftAssumption, DraftInit
<1>2. DraftTypeOK
  BY <1>0, <1>1, EmptyDraftIs, DraftTypes DEF DraftInit, DraftIntents
<1>5. Copies(evidence) /\ Copies(NoCopies)
  BY <1>0 DEF Copies, NoCopies
<1>3. ASSUME NEW t \in Chats PROVE TurnOK(t)
  <2>1. chat[t] = IdleTurn BY DEF DraftInit
  <2> QED BY <1>1, <1>5, <2>1, EmptyDraftIs DEF TurnOK
<1> QED BY <1>2, <1>3, <1>5, EmptyDraftIs DEF DraftInit, DraftInv

\* A step of one turn that leaves the store and the families alone.
LEMMA TurnMoves ==
    ASSUME DraftInv, NEW t \in Chats, NEW c \in TurnType, chat' = [chat EXCEPT ![t] = c],
           UNCHANGED <<saved, outside>>, parsed' \in DraftIntents,
           Copies(c.copies), Founded(c.draft),
           c.pc \notin {"verify", "judge"} => Cleared(c.draft),
           c.pc = "judge" /\ c.found => c.draft["code"].value \in known
    PROVE  DraftInv'
<1>1. chat \in [Chats -> TurnType] BY DraftTypes DEF DraftInv
<1>2. chat' \in [Chats -> TurnType] /\ chat'[t] = c
      /\ \A u \in Chats \ {t} : chat'[u] = chat[u]
  BY <1>1
<1>3. DraftTypeOK' BY <1>2 DEF DraftInv, DraftTypeOK, TurnType, outside
<1>4. ASSUME NEW u \in Chats PROVE TurnOK(u)'
  <2>1. CASE u = t BY <1>2, <2>1 DEF TurnOK, Founded, Backed, Cleared, Copies, outside
  <2>2. CASE u # t
    <3>1. TurnOK(u) /\ chat'[u] = chat[u] BY <1>2, <2>2 DEF DraftInv
    <3> QED BY <3>1 DEF TurnOK, Founded, Backed, Cleared, Copies, outside
  <2> QED BY <2>1, <2>2
<1>5. (Founded(saved) /\ Cleared(saved) /\ Copies(evidence))'
  BY DEF DraftInv, Founded, Backed, Cleared, Copies, outside
<1> QED BY <1>3, <1>4, <1>5 DEF DraftInv

\* A proposal has no field that says it is reused.
LEMMA ProposedIs ==
    ASSUME NEW q \in Proposals, NEW d \in [Fields -> DraftField], Founded(d)
    PROVE  LET p == [f \in Fields |->
                       IF f \in DOMAIN q.sets
                       THEN [value |-> q.sets[f].value, prov |-> "AI_PROPOSED", ref |-> q.sets[f].ref]
                       ELSE d[f]]
           IN  p \in [Fields -> DraftField] /\ Founded(p)
<1> DEFINE p == [f \in Fields |->
                   IF f \in DOMAIN q.sets
                   THEN [value |-> q.sets[f].value, prov |-> "AI_PROPOSED", ref |-> q.sets[f].ref]
                   ELSE d[f]]
<1>1. ASSUME NEW f \in DOMAIN q.sets
      PROVE  q.sets[f].value \in Values /\ q.sets[f].ref \in Refs \cup {NoValue}
  BY DraftAssumption DEF DraftAssumption, Proposed
<1>2. ASSUME NEW f \in Fields
      PROVE  /\ p[f] \in DraftField
             /\ p[f] = d[f] \/ p[f].prov = "AI_PROPOSED"
  BY <1>1 DEF DraftField
<1>3. ASSUME NEW f \in Operational PROVE Backed(f, p[f])
  <2>1. f \in Fields /\ Backed(f, d[f]) BY DEF Operational, Fields, Founded
  <2>2. CASE p[f] = d[f] BY <2>1, <2>2
  <2>3. CASE p[f].prov = "AI_PROPOSED" BY <2>3 DEF Backed
  <2> QED BY <1>2, <2>1, <2>2, <2>3
<1>4. p \in [Fields -> DraftField] BY <1>2
<1>5. Founded(p) BY <1>3 DEF Founded
<1> QED BY <1>4, <1>5

\* What passes the firewall is cleared, and backed if it says so.
LEMMA FirewallIs ==
    ASSUME NEW d \in [Fields -> DraftField], Founded(d), NEW found \in BOOLEAN,
           found => d["code"].value \in known,
           NEW copies \in [Refs -> Contents \cup {NoValue}], Copies(copies)
    PROVE  /\ Firewall(d, copies, found) \in [Fields -> DraftField]
           /\ Founded(Firewall(d, copies, found))
           /\ Cleared(Firewall(d, copies, found))
<1> DEFINE w == Firewall(d, copies, found)
<1>1. Unknown \in DraftField /\ Unknown.prov = "UNKNOWN_REQUIRES_USER"
  BY DEF Unknown, DraftField, Values
<1>2. ASSUME NEW f \in Operational
      PROVE  Judge(f, d, copies, found) \in DraftField /\ Backed(f, Judge(f, d, copies, found))
             /\ Judge(f, d, copies, found).prov # "AI_PROPOSED"
  <2>1. f \in Fields /\ d[f] \in DraftField /\ Backed(f, d[f])
    BY DEF Operational, Fields, Founded
  <2>2. CASE d[f].prov # "AI_PROPOSED"
    <3>1. Judge(f, d, copies, found) = d[f] BY <2>2 DEF Judge
    <3> QED BY <2>1, <2>2, <3>1
  <2>3. CASE /\ d[f].prov = "AI_PROPOSED"
             /\ found /\ IsBacked(f, d, copies)
    <3>1. Judge(f, d, copies, found) = [d[f] EXCEPT !.prov = "SABAQ_REUSED"]
      BY <2>3 DEF Judge
    <3>2. LET x == [d[f] EXCEPT !.prov = "SABAQ_REUSED"] IN
          x \in DraftField /\ x.value = d[f].value /\ x.ref = d[f].ref /\ x.prov = "SABAQ_REUSED"
      BY <2>1 DEF DraftField
    <3>3. d[f].ref \in Refs /\ copies[d[f].ref] # NoValue /\ Backs(f, d, copies[d[f].ref])
      BY <2>1, <2>3 DEF DraftField, IsBacked
    <3>4. /\ copies[d[f].ref][f] = d[f].value /\ copies[d[f].ref].code = d["code"].value
          /\ f # "mrp" => d[f].value \in InBounds
      BY <3>3 DEF Backs, SameValue, SameFamily
    <3> DEFINE h == <<d[f].ref, copies[d[f].ref]>>
    <3>5. h \in pastEvidence /\ h[1] = d[f].ref /\ h[2] = copies[d[f].ref]
      BY <3>3 DEF Copies
    <3> HIDE DEF h
    <3>6. h[2][f] = d[f].value /\ h[2].code \in known
      BY <2>3, <3>4, <3>5
    <3> QED BY <2>3, <3>1, <3>2, <3>4, <3>5, <3>6 DEF Backed
  <2>4. CASE /\ d[f].prov = "AI_PROPOSED"
             /\ ~(found /\ IsBacked(f, d, copies))
    <3>1. Judge(f, d, copies, found) = Unknown BY <2>4 DEF Judge
    <3> QED BY <1>1, <3>1 DEF Backed
  <2> QED BY <2>2, <2>3, <2>4
<1>3. \A f \in Operational : f \in Fields /\ f # "price" /\ w[f] = Judge(f, d, copies, found)
  BY DEF Operational, Fields, Firewall
<1>4. "price" \in Fields /\ w["price"] = Unknown
  <2>1. "price" \in Fields /\ "price" \notin Operational BY DEF Fields, Operational
  <2> QED BY <2>1 DEF Firewall
<1>5. ASSUME NEW f \in Fields PROVE w[f] \in DraftField
  BY <1>1, <1>2, <1>3, <1>4 DEF Firewall
<1>6. w \in [Fields -> DraftField] BY <1>5 DEF Firewall
<1>7. Founded(w) BY <1>2, <1>3 DEF Founded
<1>8. Cleared(w) BY <1>2, <1>3, <1>4 DEF Cleared
<1> QED BY <1>6, <1>7, <1>8

LEMMA DraftStepInv == DraftInv /\ [DraftNext]_draftVars => DraftInv'
<1> SUFFICES ASSUME DraftInv, [DraftNext]_draftVars PROVE DraftInv'
  OBVIOUS
<1>0. /\ chat \in [Chats -> TurnType] /\ saved \in [Fields -> DraftField]
      /\ parsed \in DraftIntents /\ families \subseteq known /\ known \subseteq Codes
      /\ Founded(saved) /\ Cleared(saved) /\ Copies(evidence)
      /\ evidence \in [Refs -> Contents] /\ pastEvidence \subseteq Refs \X Contents
  BY DraftTypes DEF DraftInv
<1>a. ASSUME NEW t \in Chats
      PROVE  /\ chat[t] \in TurnType /\ chat[t].draft \in [Fields -> DraftField]
             /\ chat[t].copies \in [Refs -> Contents \cup {NoValue}] /\ Copies(chat[t].copies)
             /\ chat[t].found \in BOOLEAN /\ TurnOK(t)
  BY <1>0 DEF DraftInv, TurnType, TurnOK
<1>1. ASSUME NEW t \in Chats, Load(t) PROVE DraftInv'
  <2> DEFINE c == [chat[t] EXCEPT !.pc = "retrieve", !.draft = saved]
  <2>1. c \in TurnType /\ c.pc = "retrieve" /\ c.draft = saved /\ c.copies = chat[t].copies
    BY <1>0, <1>a DEF TurnType
  <2>2. chat' = [chat EXCEPT ![t] = c] BY <1>1 DEF Load
  <2> HIDE DEF c
  <2> QED BY <1>0, <1>a, <1>1, <2>1, <2>2, TurnMoves DEF Load
<1>2. ASSUME NEW t \in Chats, SayYes(t) PROVE DraftInv'
  <2> DEFINE c == [chat[t] EXCEPT !.pc = "save"]
  <2>1. c \in TurnType /\ c.pc = "save" /\ c.draft = chat[t].draft /\ c.copies = chat[t].copies
    BY <1>a DEF TurnType
  <2>2. chat' = [chat EXCEPT ![t] = c] BY <1>2 DEF SayYes
  <2>3. Founded(c.draft) /\ Cleared(c.draft) BY <1>a, <1>2, <2>1 DEF SayYes, TurnOK
  <2> HIDE DEF c
  <2> QED BY <1>0, <1>a, <1>2, <2>1, <2>2, <2>3, TurnMoves DEF SayYes
<1>3. ASSUME NEW t \in Chats, NEW q \in Proposals, Propose(t, q) PROVE DraftInv'
  <2> DEFINE p == [f \in Fields |->
                     IF f \in DOMAIN q.sets
                     THEN [value |-> q.sets[f].value, prov |-> "AI_PROPOSED",
                           ref |-> q.sets[f].ref]
                     ELSE chat[t].draft[f]]
             c == [chat[t] EXCEPT !.pc = "verify", !.own = q.intent, !.draft = p]
  <2>1. p \in [Fields -> DraftField] /\ Founded(p)
    BY <1>a, ProposedIs DEF TurnOK
  <2>2. q.intent \in DraftIntents BY DraftAssumption DEF DraftAssumption
  <2>3. chat' = [chat EXCEPT ![t] = c] BY <1>3 DEF Propose
  <2> HIDE DEF p
  <2>4. c \in TurnType /\ c.pc = "verify" /\ c.draft = p /\ c.copies = chat[t].copies
    BY <1>a, <2>1, <2>2 DEF TurnType
  <2> HIDE DEF c
  <2> QED BY <1>a, <1>3, <2>1, <2>2, <2>3, <2>4, TurnMoves DEF Propose
<1>4. ASSUME NEW t \in Chats, ProposeNothing(t) PROVE DraftInv'
  <2> DEFINE c == [chat[t] EXCEPT !.pc = "verify"]
  <2>1. c \in TurnType /\ c.pc = "verify" /\ c.draft = chat[t].draft /\ c.copies = chat[t].copies
    BY <1>a DEF TurnType
  <2>2. chat' = [chat EXCEPT ![t] = c] BY <1>4 DEF ProposeNothing
  <2>3. Founded(c.draft) BY <1>a, <2>1 DEF TurnOK
  <2> HIDE DEF c
  <2> QED BY <1>0, <1>a, <1>4, <2>1, <2>2, <2>3, TurnMoves DEF ProposeNothing
<1>5. ASSUME NEW t \in Chats, Verify(t) PROVE DraftInv'
  <2>1. PICK answered \in BOOLEAN :
          chat' = [chat EXCEPT ![t].pc = "judge",
                    ![t].found = answered /\ chat[t].draft["code"].prov # "UNKNOWN_REQUIRES_USER"
                                 /\ chat[t].draft["code"].value \in families]
    BY <1>5 DEF Verify
  <2> DEFINE found == answered /\ chat[t].draft["code"].prov # "UNKNOWN_REQUIRES_USER"
                      /\ chat[t].draft["code"].value \in families
             c == [chat[t] EXCEPT !.pc = "judge", !.found = found]
  <2>2. chat' = [chat EXCEPT ![t] = c] BY <2>1
  <2>3. found => chat[t].draft["code"].value \in known BY <1>0
  <2>4. found \in BOOLEAN OBVIOUS
  <2> HIDE DEF found
  <2>5. c \in TurnType /\ c.pc = "judge" /\ c.found = found /\ c.draft = chat[t].draft
        /\ c.copies = chat[t].copies
    BY <1>a, <2>4 DEF TurnType
  <2>6. Founded(c.draft) BY <1>a, <2>5 DEF TurnOK
  <2> HIDE DEF c
  <2> QED BY <1>0, <1>a, <1>5, <2>2, <2>3, <2>5, <2>6, TurnMoves DEF Verify
<1>6. ASSUME NEW t \in Chats, Apply(t) PROVE DraftInv'
  <2> DEFINE w == Firewall(chat[t].draft, chat[t].copies, chat[t].found)
             c == [chat[t] EXCEPT !.pc = "save", !.copies = NoCopies, !.draft = w]
  <2>1. NoCopies \in [Refs -> Contents \cup {NoValue}] /\ Copies(NoCopies)
    BY DEF NoCopies, Copies
  <2>2. chat' = [chat EXCEPT ![t] = c] BY <1>6 DEF Apply
  <2>3. chat[t].found => chat[t].draft["code"].value \in known
    BY <1>a, <1>6 DEF Apply, TurnOK
  <2>4. Founded(chat[t].draft) BY <1>a DEF TurnOK
  <2>5. w \in [Fields -> DraftField] /\ Founded(w) /\ Cleared(w)
    BY <1>a, <2>3, <2>4, FirewallIs
  <2> HIDE DEF w
  <2>6. c \in TurnType /\ c.pc = "save" /\ c.draft = w /\ c.copies = NoCopies
    BY <1>a, <2>1, <2>5 DEF TurnType
  <2> HIDE DEF c
  <2> QED BY <1>0, <1>6, <2>1, <2>2, <2>5, <2>6, TurnMoves DEF Apply
<1>7. ASSUME NEW t \in Chats, Store(t) PROVE DraftInv'
  <2> DEFINE c == [chat[t] EXCEPT !.pc = "show"]
  <2>1. c \in TurnType /\ c.pc = "show" /\ c.draft = chat[t].draft /\ c.copies = chat[t].copies
    BY <1>a DEF TurnType
  <2>2. chat' = [chat EXCEPT ![t] = c] BY <1>7 DEF Store
  <2>3. Founded(chat[t].draft) /\ Cleared(chat[t].draft) BY <1>a, <1>7 DEF Store, TurnOK
  <2> HIDE DEF c
  <2>4. saved' = chat[t].draft /\ UNCHANGED <<parsed, outside>> BY <1>7 DEF Store
  <2>5. chat' \in [Chats -> TurnType] /\ chat'[t] = c /\ \A u \in Chats \ {t} : chat'[u] = chat[u]
    BY <1>0, <2>1, <2>2
  <2>6. DraftTypeOK' BY <1>0, <1>a, <2>4, <2>5 DEF DraftTypeOK, TurnType, outside
  <2>7. (Founded(saved) /\ Cleared(saved) /\ Copies(evidence))'
    BY <1>0, <2>3, <2>4 DEF Founded, Backed, Cleared, Copies, outside
  <2>8. ASSUME NEW u \in Chats PROVE TurnOK(u)'
    <3>1. CASE u = t
      BY <1>a, <2>1, <2>3, <2>4, <2>5, <3>1 DEF TurnOK, Founded, Backed, Cleared, Copies, outside
    <3>2. CASE u # t
      <4>1. TurnOK(u) /\ chat'[u] = chat[u] BY <1>a, <2>5, <3>2
      <4> QED BY <2>4, <4>1 DEF TurnOK, Founded, Backed, Cleared, Copies, outside
    <3> QED BY <3>1, <3>2
  <2> QED BY <2>6, <2>7, <2>8 DEF DraftInv
<1>8. ASSUME NEW t \in Chats, Show(t) PROVE DraftInv'
  <2> DEFINE c == [chat[t] EXCEPT !.pc = "answered", !.action = parsed]
  <2>1. c \in TurnType /\ c.pc = "answered" /\ c.draft = chat[t].draft
        /\ c.copies = chat[t].copies
    BY <1>0, <1>a DEF TurnType
  <2>2. chat' = [chat EXCEPT ![t] = c] BY <1>8 DEF Show
  <2>3. Founded(c.draft) /\ Cleared(c.draft) BY <1>a, <1>8, <2>1 DEF Show, TurnOK
  <2> HIDE DEF c
  <2> QED BY <1>0, <1>a, <1>8, <2>1, <2>2, <2>3, TurnMoves DEF Show
<1>9. ASSUME NEW t \in Chats, Drop(t) PROVE DraftInv'
  <2> DEFINE c == [IdleTurn EXCEPT !.pc = "dropped"]
  <2>1. c \in TurnType /\ c.pc = "dropped" /\ c.draft = EmptyDraft /\ c.copies = NoCopies
    BY IdleTurnIs
  <2>2. chat' = [chat EXCEPT ![t] = c] BY <1>9 DEF Drop
  <2>3. Copies(c.copies) BY <2>1 DEF Copies, NoCopies
  <2> HIDE DEF c
  <2> QED BY <1>0, <1>9, <2>1, <2>2, <2>3, EmptyDraftIs, TurnMoves DEF Drop
<1>10. ASSUME NEW k \in Codes, FamilyChanges(k) PROVE DraftInv'
  <2>1. /\ known \subseteq known' /\ known' \subseteq Codes /\ families' \subseteq known'
        /\ UNCHANGED <<saved, parsed, evidence, pastEvidence, chat>>
    BY <1>0, <1>10 DEF FamilyChanges
  <2>2. DraftTypeOK' BY <1>0, <2>1 DEF DraftTypeOK, TurnType
  <2>3. (Founded(saved) /\ Cleared(saved) /\ Copies(evidence))'
    BY <1>0, <2>1 DEF Founded, Backed, Cleared, Copies
  <2>4. ASSUME NEW t \in Chats PROVE TurnOK(t)'
    BY <1>a, <2>1 DEF TurnOK, Founded, Backed, Cleared, Copies
  <2> QED BY <2>2, <2>3, <2>4 DEF DraftInv
<1>11. CASE UNCHANGED draftVars
  BY <1>11 DEF draftVars, DraftInv, DraftTypeOK, Founded, Backed, Cleared, TurnOK, Copies
<1>12. ASSUME NEW t \in Chats, RetrieveEvidence(t) PROVE DraftInv'
  <2>1. PICK got \in SUBSET Refs :
          chat' = [chat EXCEPT ![t].pc = "propose",
                    ![t].copies = [r \in Refs |-> IF r \in got THEN evidence[r]
                                                  ELSE chat[t].copies[r]]]
    BY <1>12 DEF RetrieveEvidence
  <2> DEFINE k == [r \in Refs |-> IF r \in got THEN evidence[r] ELSE chat[t].copies[r]]
             c == [chat[t] EXCEPT !.pc = "propose", !.copies = k]
  <2>2. chat' = [chat EXCEPT ![t] = c] BY <2>1
  <2>3. k \in [Refs -> Contents \cup {NoValue}] BY <1>0, <1>a
  <2>4. Copies(k) BY <1>0, <1>a DEF Copies
  <2> HIDE DEF k
  <2>5. c \in TurnType /\ c.pc = "propose" /\ c.draft = chat[t].draft /\ c.copies = k
    BY <1>a, <2>3 DEF TurnType
  <2>6. Founded(c.draft) /\ Cleared(c.draft) BY <1>a, <1>12, <2>5 DEF RetrieveEvidence, TurnOK
  <2>7. UNCHANGED <<saved, parsed, outside>> BY <1>12 DEF RetrieveEvidence
  <2>8. Copies(c.copies) BY <2>4, <2>5
  <2> HIDE DEF c
  <2> QED BY <1>0, <2>2, <2>5, <2>6, <2>7, <2>8, TurnMoves
<1>13. ASSUME NEW t \in Chats, NEW r \in Refs, GetEvidence(t, r) PROVE DraftInv'
  <2> DEFINE k == [chat[t].copies EXCEPT ![r] = evidence[r]]
             c == [chat[t] EXCEPT !.copies = k]
  <2>1. chat' = [chat EXCEPT ![t] = c] BY <1>a, <1>13 DEF GetEvidence
  <2>2. k \in [Refs -> Contents \cup {NoValue}] /\ Copies(k) BY <1>0, <1>a DEF Copies
  <2> HIDE DEF k
  <2>3. /\ c \in TurnType /\ c.pc = "judge" /\ c.draft = chat[t].draft /\ c.copies = k
        /\ c.found = chat[t].found
    BY <1>a, <1>13, <2>2 DEF TurnType, GetEvidence
  <2>4. /\ Founded(c.draft)
        /\ c.found => c.draft["code"].value \in known
    BY <1>a, <1>13, <2>3 DEF GetEvidence, TurnOK
  <2> HIDE DEF c
  <2> QED BY <1>0, <1>13, <2>1, <2>2, <2>3, <2>4, TurnMoves DEF GetEvidence
<1>14. ASSUME NEW r \in Refs, NEW e \in Contents, RecordApprovedOutcome(r, e) PROVE DraftInv'
  <2>1. /\ pastEvidence \subseteq pastEvidence' /\ <<r, e>> \in pastEvidence' /\ pastEvidence' \subseteq Refs \X Contents
        /\ evidence' = [evidence EXCEPT ![r] = e]
        /\ UNCHANGED <<saved, parsed, families, known, chat>>
    BY <1>0, <1>14 DEF RecordApprovedOutcome
  <2>2. DraftTypeOK' BY <1>0, <2>1 DEF DraftTypeOK, TurnType
  <2>3. (Founded(saved) /\ Cleared(saved))' BY <1>0, <2>1 DEF Founded, Backed, Cleared
  <2>4. Copies(evidence)' BY <1>0, <2>1 DEF Copies
  <2>5. ASSUME NEW t \in Chats PROVE TurnOK(t)'
    BY <1>a, <2>1 DEF TurnOK, Founded, Backed, Cleared, Copies
  <2> QED BY <2>2, <2>3, <2>4, <2>5 DEF DraftInv
<1> QED
  BY <1>1, <1>2, <1>3, <1>4, <1>5, <1>6, <1>7, <1>8, <1>9, <1>10, <1>11,
     <1>12, <1>13, <1>14
  DEF DraftNext, UnderstandCatalog

LEMMA DraftAlwaysInv == DraftSpec => []DraftInv
  BY DraftInitInv, DraftStepInv, PTL DEF DraftSpec

-----------------------------------------------------------------------------
\* Drafts and turns keep their types, for any answers of the model.
THEOREM DraftTypeCorrect == DraftSpec => []DraftTypeOK
<1>1. DraftInv => DraftTypeOK BY DEF DraftInv
<1> QED BY <1>1, DraftAlwaysInv, PTL

\* A value that a stored draft says is reused is one that the record it cites has had, in bounds,
\* and of a family the Catalog had, although records are rewritten in place.
THEOREM ReusedIsBackedCorrect == DraftSpec => []ReusedIsBacked
<1>1. DraftInv => ReusedIsBacked
  BY DEF DraftInv, Founded, Backed, ReusedIsBacked
<1> QED BY <1>1, DraftAlwaysInv, PTL

\* No stored draft holds a packaging value that was only proposed, nor a price.
THEOREM NoBareProposalCorrect == DraftSpec => []NoBareProposal
<1>1. DraftInv => NoBareProposal BY DEF DraftInv, Cleared, NoBareProposal
<1> QED BY <1>1, DraftAlwaysInv, PTL
===============================================================================
