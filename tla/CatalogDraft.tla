----------------------------- MODULE CatalogDraft -----------------------------
(***************************************************************************)
(* The catalogue draft of the Brain: extract_understanding of              *)
(* CatalogIntelligenceOrchestrator, run by concurrent chat turns.  A turn  *)
(* loads the newest draft -- all sessions share "default_session" --, lets *)
(* the language model propose fields, asks the Catalog whether the product *)
(* code is a family's, passes the draft through the provenance firewall    *)
(* and stores it.                                                          *)
(*                                                                         *)
(* A field is its value, its provenance and the evidence record (SABAQ)    *)
(* that the model cites for it.  Fields of one rule are one field here:    *)
(* "dim" stands for a packaging dimension, "price" for the selling and the *)
(* cost price.  There is one action between two awaits.                    *)
(***************************************************************************)
EXTENDS Integers, FiniteSets

CONSTANTS
    Chats,         \* chat turns; each handles one message
    Codes, Sizes, Packs, Numbers,   \* values of the fields
    InBounds,      \* the numbers within the packaging bounds of AZM
    Refs, Contents,       \* evidence records of SABAQ and what one may say
    OnRecord,             \* what they say first
    Proposals,     \* what the model may answer: fields it sets, and the operation
    UniformMrp,    \* the AZM schema's uniform_mrp_policy
    NoValue

Fields == {"code", "size", "pack", "dim", "weight", "mrp", "price"}
Operational == {"dim", "weight", "mrp"}
Values == Codes \cup Sizes \cup Packs \cup Numbers \cup {NoValue}
DraftIntents == {"CREATE_FAMILY", "UPSERT_SKUS"}

DraftField ==
    [value : Values, prov : {"AI_PROPOSED", "SABAQ_REUSED", "UNKNOWN_REQUIRES_USER"},
     ref : Refs \cup {NoValue}]

\* What the model says of a field: a value, and the record that it cites for it.
Proposed == [value : Values \ {NoValue}, ref : Refs \cup {NoValue}]

ASSUME DraftAssumption ==
    /\ Contents \subseteq [code : Codes, size : Sizes, pack : Packs,
                            dim : Numbers, weight : Numbers, mrp : Numbers]
    /\ OnRecord \in [Refs -> Contents] /\ NoValue \notin Contents
    /\ \A q \in Proposals : /\ q.intent \in DraftIntents /\ DOMAIN q.sets \subseteq Fields
                           /\ \A f \in DOMAIN q.sets : q.sets[f] \in Proposed
    /\ InBounds \subseteq Numbers
    /\ UniformMrp \in BOOLEAN
    /\ NoValue \notin Refs \cup Codes \cup Sizes \cup Packs \cup Numbers

VARIABLES
    saved,     \* the newest CatalogDraft in memory
    parsed,    \* _parsed_intent, an attribute of the one orchestrator object
    families,  \* the codes that a product of the Catalog carries
    known,     \* ghost: the codes that ever were a family's
    evidence,  \* what the records say now
    pastEvidence,  \* ghost: each record with all that it ever said
    chat       \* by turn: where it is, the draft it holds, its copies of records, what
               \* the Catalog answered, the model's operation, and the action it shows to the user

outside == <<families, known, evidence, pastEvidence>>
draftVars == <<saved, parsed, families, known, evidence, pastEvidence, chat>>

Unknown == [value |-> NoValue, prov |-> "UNKNOWN_REQUIRES_USER", ref |-> NoValue]
EmptyDraft == [f \in Fields |-> Unknown]

NoCopies == [r \in Refs |-> NoValue]

IdleTurn == [pc |-> "idle", draft |-> EmptyDraft, copies |-> NoCopies, found |-> FALSE,
             own |-> NoValue, action |-> NoValue]

DraftInit ==
    /\ saved = EmptyDraft
    /\ parsed = "UPSERT_SKUS"
    /\ families \in SUBSET Codes
    /\ known = families
    /\ evidence = OnRecord /\ pastEvidence = {<<r, OnRecord[r]>> : r \in Refs}
    /\ chat = [t \in Chats |-> IdleTurn]

-----------------------------------------------------------------------------
(* The provenance firewall, _evaluate_provenance_promotion.                  *)

\* Faulty: the value may be another than the one on record.
SameValue_Any(f, field, e) == TRUE

SameValue(f, field, e) == field.value = e[f]

\* Faulty: whichever family the record is of.
SameFamily_Any(d, e) == TRUE

SameFamily(d, e) == e.code = d["code"].value

\* What a cited record must be to back a proposed value: of the verified family, of the
\* draft's size, of its pack unless it has none, of the same value, within bounds.
Backs(f, d, e) ==
    /\ SameFamily(d, e)
    /\ d["size"].value # NoValue /\ e.size = d["size"].value
    /\ f = "mrp" \/ d["pack"].value \in {NoValue, e.pack}
    /\ SameValue(f, d[f], e)
    /\ IF f = "mrp" THEN UniformMrp ELSE d[f].value \in InBounds

\* sabaq_index has a copy of the record that the field cites, and that backs it.
IsBacked(f, d, copies) ==
    LET ref == d[f].ref IN
    ref # NoValue /\ copies[ref] # NoValue /\ Backs(f, d, copies[ref])

\* Faulty: what no record backs is left as it was proposed.
Judge_Lenient(f, d, copies, familyFound) ==
    IF familyFound /\ d[f].prov = "AI_PROPOSED" /\ IsBacked(f, d, copies)
    THEN [d[f] EXCEPT !.prov = "SABAQ_REUSED"]
    ELSE d[f]

Judge(f, d, copies, familyFound) ==
    CASE d[f].prov # "AI_PROPOSED" -> d[f]
      [] d[f].prov = "AI_PROPOSED" /\ familyFound /\ IsBacked(f, d, copies) ->
            [d[f] EXCEPT !.prov = "SABAQ_REUSED"]
      [] OTHER -> Unknown

\* Prices are never kept; the other fields are none of its business.
Firewall(d, copies, familyFound) ==
    [f \in Fields |-> CASE f = "price" -> Unknown
                        [] f \in Operational -> Judge(f, d, copies, familyFound)
                        [] OTHER -> d[f]]

-----------------------------------------------------------------------------
(* extract_understanding.                                                    *)

\* read_memory, newest first.
Load(t) ==
    /\ chat[t].pc = "idle"
    /\ chat' = [chat EXCEPT ![t].pc = "retrieve", ![t].draft = saved]
    /\ UNCHANGED <<saved, parsed, outside>>

\* "yes": nothing is confirmed by it, the draft is stored and shown again.
SayYes(t) ==
    /\ chat[t].pc = "retrieve"
    /\ chat' = [chat EXCEPT ![t].pc = "save"]
    /\ UNCHANGED <<saved, parsed, outside>>

\* retrieve_evidence: one query, whose answer the model is shown; nothing if it fails.
RetrieveEvidence(t) ==
    /\ chat[t].pc = "retrieve"
    /\ \E found \in SUBSET Refs :
         chat' = [chat EXCEPT ![t].pc = "propose",
                   ![t].copies = [r \in Refs |-> IF r \in found THEN evidence[r] ELSE @[r]]]
    /\ UNCHANGED <<saved, parsed, outside>>

\* The gateway answers.  Every proposed field enters as AI_PROPOSED.
Propose(t, q) ==
    /\ chat[t].pc = "propose"
    /\ chat' = [chat EXCEPT ![t].pc = "verify", ![t].own = q.intent,
                 ![t].draft = [f \in Fields |->
                     IF f \in DOMAIN q.sets
                     THEN [value |-> q.sets[f].value, prov |-> "AI_PROPOSED",
                           ref |-> q.sets[f].ref]
                     ELSE @[f]]]
    /\ parsed' = q.intent
    /\ UNCHANGED <<saved, outside>>

\* The gateway or its answer is no use: the exception is swallowed.
ProposeNothing(t) ==
    /\ chat[t].pc = "propose"
    /\ chat' = [chat EXCEPT ![t].pc = "verify"]
    /\ UNCHANGED <<saved, parsed, outside>>

\* The Catalog is asked for the product code if the draft has one; that it cannot be
\* asked counts as no family, and so does a code no product carries.
Verify(t) ==
    LET code == chat[t].draft["code"] IN
    /\ chat[t].pc = "verify"
    /\ \E answered \in BOOLEAN :
         chat' = [chat EXCEPT ![t].pc = "judge",
                   ![t].found = answered /\ code.prov # "UNKNOWN_REQUIRES_USER"
                                /\ code.value \in families]
    /\ UNCHANGED <<saved, parsed, outside>>

\* get_evidence of a cited record that was not retrieved; each has a session of its own.
GetEvidence(t, r) ==
    /\ chat[t].pc = "judge" /\ chat[t].copies[r] = NoValue
    /\ \E f \in Fields : chat[t].draft[f].ref = r
    /\ chat' = [chat EXCEPT ![t].copies[r] = evidence[r]]
    /\ UNCHANGED <<saved, parsed, outside>>

\* The firewall, over what was fetched by then: the rest failed.
Apply(t) ==
    /\ chat[t].pc = "judge"
    /\ chat' = [chat EXCEPT ![t].pc = "save", ![t].copies = NoCopies,
                 ![t].draft = Firewall(@, chat[t].copies, chat[t].found)]
    /\ UNCHANGED <<saved, parsed, outside>>

\* write_memory adds the draft as the newest.
Store(t) ==
    /\ chat[t].pc = "save"
    /\ saved' = chat[t].draft
    /\ chat' = [chat EXCEPT ![t].pc = "show"]
    /\ UNCHANGED <<parsed, outside>>

\* The action the user is shown; is_confirmed was reset, so that the intent is SUMMARIZE.
Show(t) ==
    /\ chat[t].pc = "show"
    /\ chat' = [chat EXCEPT ![t].pc = "answered", ![t].action = parsed]
    /\ UNCHANGED <<saved, parsed, outside>>

\* The turn raises -- the memory cannot be read or written -- or its process dies.
Drop(t) ==
    /\ chat[t].pc \in {"retrieve", "propose", "verify", "judge", "save", "show"}
    /\ chat' = [chat EXCEPT ![t] = [IdleTurn EXCEPT !.pc = "dropped"]]
    /\ UNCHANGED <<saved, parsed, outside>>

\* A product is saved under a new code in the Catalog, or renamed away from one.
FamilyChanges(k) ==
    /\ families' = IF k \in families THEN families \ {k} ELSE families \cup {k}
    /\ known' = known \cup {k}
    /\ UNCHANGED <<saved, parsed, evidence, pastEvidence, chat>>

\* record_approved_outcome, with the source_reference of an earlier outcome: the record is
\* rewritten in place.  All its callers have the product code in that reference.
RecordApprovedOutcome(r, e) ==
    /\ e.code = evidence[r].code
    /\ evidence' = [evidence EXCEPT ![r] = e]
    /\ pastEvidence' = pastEvidence \cup {<<r, e>>}
    /\ UNCHANGED <<saved, parsed, families, known, chat>>

UnderstandCatalog(t) ==
    \/ SayYes(t) \/ RetrieveEvidence(t)
    \/ \E q \in Proposals : Propose(t, q)
    \/ ProposeNothing(t)
    \/ Verify(t) \/ (\E r \in Refs : GetEvidence(t, r)) \/ Apply(t) \/ Store(t) \/ Show(t) \/ Drop(t)

DraftNext ==
    \/ \E t \in Chats : Load(t) \/ UnderstandCatalog(t)
    \/ \E k \in Codes : FamilyChanges(k)
    \/ \E r \in Refs, e \in Contents : RecordApprovedOutcome(r, e)

DraftSpec == DraftInit /\ [][DraftNext]_draftVars

-----------------------------------------------------------------------------
(* Properties.                                                               *)

DraftTypeOK ==
    /\ saved \in [Fields -> DraftField]
    /\ parsed \in DraftIntents
    /\ families \subseteq known /\ known \subseteq Codes
    /\ evidence \in [Refs -> Contents] /\ pastEvidence \subseteq Refs \X Contents
    /\ chat \in [Chats -> [pc : {"idle", "retrieve", "propose", "verify", "judge", "save",
                                 "show", "answered", "dropped"},
                           draft : [Fields -> DraftField],
                           copies : [Refs -> Contents \cup {NoValue}], found : BOOLEAN,
                           own : DraftIntents \cup {NoValue}, action : DraftIntents \cup {NoValue}]]

\* A value that says it is reused from history is one that the record it cites has had, in
\* bounds, and of a family the Catalog had -- whether the record is rewritten between its
\* retrieval and the judgement, and through every later turn that loads the draft, changes
\* other fields of it and stores it over the work of another turn.
ReusedIsBacked ==
    \A f \in Operational : saved[f].prov = "SABAQ_REUSED" =>
        /\ \E h \in pastEvidence : /\ h[1] = saved[f].ref
                           /\ h[2][f] = saved[f].value /\ h[2].code \in known
        /\ f # "mrp" => saved[f].value \in InBounds

\* The model's word never stands alone: no stored draft holds a packaging value or a
\* price that was only proposed, nor any selling or cost price.
NoBareProposal ==
    /\ \A f \in Operational : saved[f].prov # "AI_PROPOSED"
    /\ saved["price"] = Unknown

-----------------------------------------------------------------------------
(* What the documentation says and the code does not do: violated.            *)

\* _evaluate_provenance_promotion: in scenario D operational fields must never be
\* reused; in scenario B only from the family the draft is of.  A field promoted in an
\* earlier turn stays promoted when the product code changes.
ReusedFitsTheFamily ==
    \A f \in Operational :
        saved[f].prov = "SABAQ_REUSED" => evidence[saved[f].ref].code = saved["code"].value

\* _evaluate_provenance_promotion calls the value that a reused one must equal the exact
\* historical value: a record that is rewritten later has it no more.
ReusedIsOnRecord ==
    \A f \in Operational :
        saved[f].prov = "SABAQ_REUSED" => evidence[saved[f].ref][f] = saved[f].value

\* The operation a user is shown is the one the model read in that user's message.
ShowsOwnIntent ==
    \A t \in Chats : chat[t].action # NoValue /\ chat[t].own # NoValue => chat[t].action = chat[t].own

===============================================================================
