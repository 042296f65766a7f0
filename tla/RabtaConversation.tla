-------------------------- MODULE RabtaConversation --------------------------
(***************************************************************************)
(* Confirmation of actions in conversations: RabtaOrchestrator.process_query*)
(* with a memory provider, the DecisionEngine, the table                    *)
(* core_suspended_actions, and the Catalog's adapter, which carries an       *)
(* action out by several requests to the Catalog.                           *)
(*                                                                         *)
(* A turn is one call of process_query.  An action is suspended under a      *)
(* fresh nonce and only carried out by a turn that confirms the nonce.  What *)
(* the language model reads in a message -- the intent, and the nonce of a   *)
(* confirmation -- may be anything.                                         *)
(***************************************************************************)
EXTENDS Naturals, FiniteSets

CONSTANTS
    Turns, Sessions, Nonces,
    Candidates,    \* how many sku_ids a request proposes, in order
    None

Operations == {"SaveProductFamily", "PrepareAndPublishShopDeck"}

\* A row of core_suspended_actions.
Row == [session : Sessions \cup {None}, status : {"PENDING", "CONSUMED"}, expired : BOOLEAN,
        op : Operations]

ASSUME ConversationAssumption ==
    /\ Candidates \in Nat \ {0}
    /\ None \notin Sessions \cup Nonces \cup Row

VARIABLES
    suspended,   \* core_suspended_actions, by nonce
    turn,        \* what each turn is about and where it is
    made,        \* product families the Catalog saved for a request
    published,   \* requests whose family was put into a ShopDeck export
    remembered,  \* turns in core_memories
    confirms, rejects   \* ghost: by whom a nonce was consumed, <<session, in time>>

convVars == <<suspended, turn, made, published, remembered, confirms, rejects>>

Intents == {"READ", "ACTION", "CONFIRMATION", "REJECTION"}
Steps == {"new", "retrieve", "consume", "suspend", "read", "save", "transition", "publish",
          "recommend", "remember", "answered"}

NewTurn == [pc |-> "new", session |-> None, intent |-> "READ", nonce |-> None, candidate |-> 1,
            answer |-> None]

ConvInit ==
    /\ suspended = [n \in Nonces |-> None]
    /\ turn = [t \in Turns |-> NewTurn]
    /\ made = [n \in Nonces |-> 0]
    /\ published = {} /\ remembered = {}
    /\ confirms = [n \in Nonces |-> {}] /\ rejects = [n \in Nonces |-> {}]

Go(t, pc) == turn' = [turn EXCEPT ![t].pc = pc]
Answer(t, answer) == turn' = [turn EXCEPT ![t].pc = "answered", ![t].answer = answer]

-----------------------------------------------------------------------------
(* process_query up to the decision.                                         *)

\* The history is loaded or not, the message is understood, the requirement classified; a
\* message that is not understood is answered at once, and no turn here.  A confirmation or
\* a rejection without a nonce goes on to the adapter, which refuses it.
Understand(t, s, intent, n) ==
    /\ turn[t].pc = "new"
    /\ turn' = [turn EXCEPT ![t].session = s, ![t].intent = intent, ![t].nonce = n,
                 ![t].pc = CASE intent = "READ" -> "read"
                             [] intent = "ACTION" -> "suspend"
                             [] intent \notin {"READ", "ACTION"} /\ n = None -> "remember"
                             [] OTHER -> "retrieve"]
    /\ UNCHANGED <<suspended, made, published, remembered, confirms, rejects>>

\* Faulty: a nonce is taken from whichever session knows it.
OfSession_Any(n, s) == suspended[n] # None

OfSession(n, s) == suspended[n] # None /\ suspended[n].session = s

\* retrieve_suspended_action: one that is consumed is returned, one that expired is not.
Retrieve(t) ==
    LET n == turn[t].nonce IN
    /\ turn[t].pc = "retrieve"
    /\ IF OfSession(n, turn[t].session)
          /\ ~(suspended[n].expired /\ suspended[n].status = "PENDING")
       THEN Go(t, "consume") ELSE Answer(t, "REJECTED")
    /\ UNCHANGED <<suspended, made, published, remembered, confirms, rejects>>

\* Faulty: the status that was read is trusted.
Consumable_Trusting(n, s) == OfSession(n, s) /\ ~suspended[n].expired

\* The WHERE of atomic_consume_action, one UPDATE.
Consumable(n, s) ==
    OfSession(n, s) /\ suspended[n].status = "PENDING" /\ ~suspended[n].expired

Consumed(t, ghost) ==
    LET n == turn[t].nonce IN
    /\ suspended' = [suspended EXCEPT ![n].status = "CONSUMED"]
    /\ ghost' = [ghost EXCEPT ![n] = @ \cup {<<turn[t].session, ~suspended[n].expired>>}]

\* process_intent on CONFIRMATION: the request is resumed if this turn consumed it.
Confirm(t) ==
    /\ turn[t].pc = "consume" /\ turn[t].intent = "CONFIRMATION"
    /\ IF Consumable(turn[t].nonce, turn[t].session)
       THEN Consumed(t, confirms) /\ Go(t, "save")
       ELSE Answer(t, "REJECTED") /\ UNCHANGED <<suspended, confirms>>
    /\ UNCHANGED <<made, published, remembered, rejects>>

\* process_intent on REJECTION: answered REJECTED whether or not it was still pending.
Reject(t) ==
    LET n == turn[t].nonce IN
    /\ turn[t].pc = "consume" /\ turn[t].intent = "REJECTION"
    /\ IF Consumable(n, turn[t].session)
       THEN /\ suspended' = [suspended EXCEPT ![n].status = "CONSUMED"]
            /\ rejects' = [rejects EXCEPT ![n] = @ \cup {<<turn[t].session, TRUE>>}]
       ELSE UNCHANGED <<suspended, rejects>>
    /\ Answer(t, "REJECTED")
    /\ UNCHANGED <<made, published, remembered, confirms>>

Fresh == {n \in Nonces : suspended[n] = None}

Suspended(n, s, op) ==
    suspended' = [suspended EXCEPT ![n] =
        [session |-> s, status |-> "PENDING", expired |-> FALSE, op |-> op]]

\* evaluate_request: an action always waits.  Without a session the row is refused and the
\* turn raises (see Die).
Suspend(t, n, op) ==
    /\ turn[t].pc = "suspend" /\ n \in Fresh /\ turn[t].session # None
    /\ Suspended(n, turn[t].session, op)
    /\ Answer(t, "CONFIRMATION_REQUIRED")
    /\ UNCHANGED <<made, published, remembered, confirms, rejects>>

Expire(n) ==
    /\ suspended[n] # None /\ ~suspended[n].expired
    /\ suspended' = [suspended EXCEPT ![n].expired = TRUE]
    /\ UNCHANGED <<turn, made, published, remembered, confirms, rejects>>

-----------------------------------------------------------------------------
(* CatalogCemAdapter._handle_action, one request to the Catalog after another. *)

\* Faulty: a request without an answer is taken for a collision.
AfterLoss_Next(t) ==
    IF turn[t].candidate < Candidates
    THEN turn' = [turn EXCEPT ![t].candidate = @ + 1] ELSE Answer(t, "ERROR")

\* raise_for_status, a timeout: process_query answers "CEM Execution Error".
AfterLoss(t) == Answer(t, "ERROR")

\* Faulty: every family that was saved is made ready and exported.
AfterSave_Exports(op) == "transition"

AfterSave(op) == IF op = "PrepareAndPublishShopDeck" THEN "transition" ELSE "remember"

\* save-family.  The Catalog saves the family, refuses it for the sku_id -- then the next
\* candidate is tried --, refuses it otherwise, or does either without being heard.
Save(t) ==
    LET n == turn[t].nonce
        done == made' = [made EXCEPT ![n] = @ + 1] IN
    /\ turn[t].pc = "save"
    /\ \/ /\ done
          /\ Go(t, AfterSave(suspended[n].op))
       \/ /\ turn[t].candidate < Candidates
          /\ turn' = [turn EXCEPT ![t].candidate = @ + 1] /\ UNCHANGED made
       \/ Answer(t, "EXECUTION_LIMITATION") /\ UNCHANGED made
       \/ AfterLoss(t) /\ (done \/ UNCHANGED made)
    /\ UNCHANGED <<suspended, published, remembered, confirms, rejects>>

\* The family is to be READY; that it is refused leaves it saved as a draft.
Transition(t) ==
    /\ turn[t].pc = "transition"
    /\ \/ Go(t, "publish") \/ Answer(t, "EXECUTION_LIMITATION") \/ Answer(t, "ERROR")
    /\ UNCHANGED <<suspended, made, published, remembered, confirms, rejects>>

Publish(t) ==
    /\ turn[t].pc = "publish"
    /\ \/ /\ published' = published \cup {turn[t].nonce}
          /\ Go(t, "remember") \/ Answer(t, "ERROR")
       \/ /\ Answer(t, "EXECUTION_LIMITATION") \/ Answer(t, "ERROR")
          /\ UNCHANGED published
    /\ UNCHANGED <<suspended, made, remembered, confirms, rejects>>

-----------------------------------------------------------------------------
(* Reading, and the end of process_query.                                    *)

Read(t) ==
    /\ turn[t].pc = "read"
    /\ \/ turn[t].session # None /\ Go(t, "recommend")   \* there is evidence
       \/ Go(t, "remember") \/ Answer(t, "ERROR")
    /\ UNCHANGED <<suspended, made, published, remembered, confirms, rejects>>

\* evaluate_evidence_for_recommendations: open exceptions in the evidence suspend an action
\* of which the user is told the nonce.
Recommend(t) ==
    /\ turn[t].pc = "recommend"
    /\ \/ \E n \in Fresh : Suspended(n, turn[t].session, "SaveProductFamily")
       \/ UNCHANGED suspended
    /\ Go(t, "remember")
    /\ UNCHANGED <<made, published, remembered, confirms, rejects>>

\* The turn is written to memory, if that works, and answered.
Remember(t) ==
    /\ turn[t].pc = "remember"
    /\ Answer(t, "DONE")
    /\ remembered' \in {remembered} \cup
            (IF turn[t].session = None THEN {} ELSE {remembered \cup {t}})
    /\ UNCHANGED <<suspended, made, published, confirms, rejects>>

\* The turn raises at an await, or its process ends.
Die(t) ==
    /\ turn[t].pc \notin {"new", "answered"}
    /\ Answer(t, None)
    /\ UNCHANGED <<suspended, made, published, remembered, confirms, rejects>>

ProcessQuery(t) ==
    \/ \E s \in Sessions \cup {None}, intent \in Intents, n \in Nonces \cup {None} :
          Understand(t, s, intent, n)
    \/ Retrieve(t) \/ Confirm(t) \/ Reject(t)
    \/ \E n \in Nonces, op \in Operations : Suspend(t, n, op)
    \/ Save(t) \/ Transition(t) \/ Publish(t)
    \/ Read(t) \/ Recommend(t) \/ Remember(t) \/ Die(t)

ConvNext ==
    \/ \E t \in Turns : ProcessQuery(t)
    \/ \E n \in Nonces : Expire(n)

ConvSpec == ConvInit /\ [][ConvNext]_convVars

-----------------------------------------------------------------------------
(* Properties.                                                               *)

ConvTypeOK ==
    /\ suspended \in [Nonces -> Row \cup {None}]
    /\ turn \in [Turns -> [pc : Steps, session : Sessions \cup {None}, intent : Intents,
                           nonce : Nonces \cup {None}, candidate : 1..Candidates,
                           answer : {None, "REJECTED", "CONFIRMATION_REQUIRED", "ERROR",
                                     "EXECUTION_LIMITATION", "DONE"}]]
    /\ made \in [Nonces -> Nat]
    /\ published \subseteq Nonces /\ remembered \subseteq Turns
    /\ confirms \in [Nonces -> SUBSET ((Sessions \cup {None}) \X BOOLEAN)]
    /\ rejects \in [Nonces -> SUBSET ((Sessions \cup {None}) \X BOOLEAN)]

\* A confirmation that is sent twice, from two tabs or after a lost answer, saves one
\* family: of the turns that confirm a nonce one consumes it, and that turn stops at the
\* first request to the Catalog whose outcome it does not know.
OneFamilyPerRequest == \A n \in Nonces : made[n] <= 1

\* Nothing is done in the Catalog for a request that its own session has not confirmed
\* before it expired.
ExecutedWasConfirmed ==
    \A n \in Nonces : made[n] > 0 \/ n \in published =>
        confirms[n] = {<<suspended[n].session, TRUE>>}

\* What was rejected while it waited is never done, by whichever turns race for it.
RejectedIsNeverDone ==
    \A n \in Nonces : rejects[n] # {} => made[n] = 0 /\ n \notin published

-----------------------------------------------------------------------------
(* What the conversations implement.                                         *)

\* The word on a request: that of its own session, in time.  A word of anyone else, or one
\* too late, is no word that Consent knows.
Word(n) ==
    LET own == {<<suspended[n].session, TRUE>>} IN
    CASE suspended[n] = None -> "none"
      [] suspended[n] # None /\ confirms[n] = own /\ rejects[n] = {} -> "granted"
      [] suspended[n] # None /\ confirms[n] = {} /\ rejects[n] = own -> "refused"
      [] suspended[n] # None /\ confirms[n] \cup rejects[n] = {} ->
            IF suspended[n].expired THEN "lapsed" ELSE "waiting"
      [] OTHER -> "usurped"

Consent == INSTANCE Consent WITH
    Requests <- Nonces,
    Exporting <- {"PrepareAndPublishShopDeck"},
    asked <- [n \in Nonces |-> IF suspended[n] = None THEN None ELSE suspended[n].op],
    word <- [n \in Nonces |-> Word(n)],
    saved <- made,
    exported <- published

\* Whatever turns race for a nonce, repeat it, read it from the wrong session or die on the
\* way, and whenever the request expires between their reads and their updates: a request
\* gets one word, the word stands, and the Catalog is asked for no more than was granted.
KeepsConsent == Consent!Spec

===============================================================================
