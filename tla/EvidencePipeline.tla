---------------------------- MODULE EvidencePipeline ----------------------------
(***************************************************************************)
(* How the Brain collects evidence.  BrainOrchestrator lets the planner (a   *)
(* language model) propose requirements, resolves each to the capabilities   *)
(* that match it, asks their providers one after the other and judges what   *)
(* came back; if that is not enough the planner may propose more.            *)
(*                                                                         *)
(* There are four ways in: a query (handle_query), an NDR event of the event *)
(* bus and a question about the inventory (execute_requirements, without the *)
(* planner), and a customer's message, which brings its evidence along.  All *)
(* that a request works on is its own, so the model has one request.         *)
(***************************************************************************)
EXTENDS Integers, FiniteSets

CONSTANTS
    Capabilities,    \* of the ProviderRegistry
    Provides,        \* provides_identities of a capability
    Supports,        \* supported_constraint_types of a capability
    Certified,       \* the capabilities that are concepts of the inventory's knowledge
    Required,        \* required_constraints of those
    Descriptions,    \* the requirements a planner may propose, by their description
    ConceptsOf,      \* the types of the concepts found for a description
    Warehouse, Balance, Sku,   \* the identities the inventory's questions have
    MaxIterations

ASSUME EvidenceAssumption ==
    /\ Provides \in [Capabilities -> SUBSET {Warehouse, Balance, Sku}]
    /\ Supports \in [Capabilities -> SUBSET {"ENTITY", "CAPABILITY", "TEMPORAL"}]
    /\ Certified \subseteq Capabilities
    /\ Required \in [Certified -> SUBSET {Warehouse, Balance, Sku}]
    /\ ConceptsOf \in [Descriptions -> SUBSET {"ENTITY", "CAPABILITY", "TEMPORAL"}]
    /\ MaxIterations \in Nat

VARIABLES
    request,    \* what came in, and where its handler is
    todo,       \* requirements of this round still to be resolved
    pending,    \* requirement and capabilities whose providers are still to be asked
    items,      \* the evidence: requirement, capability if any, and gap
    latest,      \* the part of it that this round found
    asked,      \* ghost: the requirements of all rounds
    stored  \* whether the answer is in the memory

evidenceVars == <<request, todo, pending, items, latest, asked, stored>>

Kinds4 == {"query", "event", "inventory", "message"}

\* A resolved requirement: its core identities and the types of its constraints; without
\* either it is a semantic gap.
Plain(d) == [of |-> d, ids |-> {}, types |-> ConceptsOf[d]]

NothingPending == [req |-> {}, caps |-> {}]

EvidenceInit ==
    /\ request \in [kind : Kinds4, session : BOOLEAN, pc : {"new"}, round : {0},
                    verdict : {"none"}]
    /\ todo = {} /\ pending = NothingPending /\ items = {} /\ latest = {} /\ asked = {}
    /\ stored = FALSE

At(pc) == request.pc = pc
Now(pc) == request' = [request EXCEPT !.pc = pc]

Require(S) ==
    /\ todo' = S
    /\ asked' = asked \cup S

\* A call of the model, or its answer's parser, raises.
Raises ==
    /\ request.pc \in {"new", "extend", "reason", "store"}
    /\ request.pc = "new" => request.kind \in {"query", "message"}
    /\ Now("raised")
    /\ UNCHANGED <<todo, pending, items, latest, asked, stored>>

-----------------------------------------------------------------------------
(* The ways in.                                                              *)

ProposePlan ==
    /\ At("new") /\ request.kind = "query"
    /\ \E S \in SUBSET Descriptions : Require({Plain(d) : d \in S})
    /\ Now("collect")
    /\ UNCHANGED <<pending, items, latest, stored>>

\* _route_ndr: one requirement, whose description always has the concept of an AWB.
RouteEvent ==
    /\ At("new") /\ request.kind = "event"
    /\ \E d \in Descriptions :
         Require({[Plain(d) EXCEPT !.types = @ \cup {"ENTITY"}]})
    /\ Now("collect")
    /\ UNCHANGED <<pending, items, latest, stored>>

\* What extract_understanding leaves of a question: scope and conditions.  Of its entities,
\* the sku among them, the list that it makes of the valid ones stays empty.
Extracted(scope, cond) ==
    (IF scope THEN {Warehouse} ELSE {}) \cup (IF cond THEN {Balance} ELSE {})

\* The identity of a condition is a capability and passes for a temporal constraint.
TypesOf(scope, cond) ==
    {"CAPABILITY"} \cup (IF scope THEN {"ENTITY"} ELSE {})
                   \cup (IF cond THEN {"TEMPORAL"} ELSE {})

\* handle_query of the inventory, up to its requirement.  It is refused when the model's
\* answer does not parse or asks for clarification, the capability that the words name is
\* not certified, a required constraint is missing or an operator is not supported.
ParseQuestion ==
    /\ At("new") /\ request.kind = "inventory"
    /\ \E target \in Capabilities, scope, cond, accepted \in BOOLEAN :
         IF /\ accepted /\ target \in Certified
            /\ Required[target] \subseteq Extracted(scope, cond)
         THEN /\ Require({[of |-> target, ids |-> Extracted(scope, cond),
                           types |-> TypesOf(scope, cond)]})
              /\ Now("collect")
         ELSE Now("refused") /\ UNCHANGED <<todo, asked>>
    /\ UNCHANGED <<pending, items, latest, stored>>

\* CustomerQueryOrchestrator: knowledge, history and one call of the model, whose answer is
\* used or, if it is no JSON, replaced by an escalation.
AnswerMessage ==
    /\ At("new") /\ request.kind = "message"
    /\ Now(IF request.session THEN "store" ELSE "answered")
    /\ UNCHANGED <<todo, pending, items, latest, asked, stored>>

-----------------------------------------------------------------------------
(* _execute_requirements.                                                    *)

\* CapabilityResolver: identities are not compared when the requirement has none.
Matching(r) ==
    {c \in Capabilities : r.ids \subseteq Provides[c] /\ r.types \subseteq Supports[c]}

Unresolvable(r) == r.ids = {} /\ r.types = {}

Item(r, c, gap) == [req |-> r, cap |-> c, gap |-> gap]

\* A requirement that nothing can answer becomes an item that says so.
ResolveRequirement(r) ==
    LET gap == {Item(r, "none", IF Unresolvable(r) THEN "SEMANTIC_KNOWLEDGE_GAP"
                                ELSE "CONTEXT_CAPABILITY_UNAVAILABLE")} IN
    /\ At("collect") /\ pending.caps = {}
    /\ todo' = todo \ {r}
    /\ IF Unresolvable(r) \/ Matching(r) = {}
       THEN /\ items' = items \cup gap /\ latest' = latest \cup gap
            /\ UNCHANGED pending
       ELSE /\ pending' = [req |-> r, caps |-> Matching(r)]
            /\ UNCHANGED <<items, latest>>
    /\ UNCHANGED <<request, asked, stored>>

\* The assembler's reading of a provider's answer: a success without data is none.
GapOf(status, data) ==
    CASE status = "DATA_UNAVAILABLE" -> "DATA_UNAVAILABLE"
      [] status = "UNAUTHORIZED" -> "DATA_INACCESSIBLE"
      [] status = "ERROR" -> "PROVIDER_EXECUTION_ERROR"
      [] status = "SUCCESS" -> IF data THEN "EVIDENCE_SUFFICIENT" ELSE "DATA_UNAVAILABLE"

\* The gateway makes an ERROR of whatever goes wrong in its call.
InvokeCapability(c) ==
    /\ At("collect") /\ pending.caps # {}
    /\ \E status \in {"SUCCESS", "DATA_UNAVAILABLE", "UNAUTHORIZED", "ERROR"},
          data \in BOOLEAN :
         LET item == {Item(pending.req, c, GapOf(status, data))} IN
         /\ items' = items \cup item
         /\ latest' = latest \cup item
    /\ pending' = IF pending.caps = {c} THEN NothingPending
                  ELSE [pending EXCEPT !.caps = @ \ {c}]
    /\ UNCHANGED <<request, todo, asked, stored>>

\* Evidence without provenance is no EvidenceItem: the exception ends the request.
WithoutProvenance ==
    /\ At("collect") /\ pending.caps # {}
    /\ Now("raised")
    /\ UNCHANGED <<todo, pending, items, latest, asked, stored>>

\* Faulty: an extension is judged by what it found.
Judged_Latest == latest

Judged == items

Assess ==
    LET enough == \A i \in Judged : i.gap = "EVIDENCE_SUFFICIENT" IN
    /\ At("collect") /\ todo = {} /\ pending.caps = {}
    /\ request' = [request EXCEPT
         !.verdict = IF enough THEN "SUFFICIENT" ELSE "INSUFFICIENT",
         !.pc = CASE request.kind = "inventory" -> IF enough THEN "reason" ELSE "refused"
                  [] /\ request.kind = "query" /\ ~enough
                     /\ request.round < MaxIterations -> "extend"
                  [] OTHER -> "package"]
    /\ latest' = {}
    /\ UNCHANGED <<todo, pending, items, asked, stored>>

ProposeExtension ==
    /\ At("extend")
    /\ \E S \in SUBSET Descriptions : Require({Plain(d) : d \in S})
    /\ request' = [request EXCEPT !.pc = "collect", !.round = @ + 1]
    /\ UNCHANGED <<pending, items, latest, stored>>

-----------------------------------------------------------------------------
(* The inventory's answer.                                                   *)

\* Two calls of the model.  The action that the second one may propose is lost: the names
\* its branch uses are not defined, and the exception is swallowed.
ReasonOnEvidence ==
    /\ At("reason")
    /\ Now("store")
    /\ UNCHANGED <<todo, pending, items, latest, asked, stored>>

StoreAnswer ==
    /\ At("store")
    /\ stored' = TRUE
    /\ Now("answered")
    /\ UNCHANGED <<todo, pending, items, latest, asked>>

EvidenceNext ==
    \/ Raises \/ ProposePlan \/ RouteEvent \/ ParseQuestion \/ AnswerMessage
    \/ \E r \in todo : ResolveRequirement(r)
    \/ \E c \in pending.caps : InvokeCapability(c)
    \/ WithoutProvenance \/ Assess \/ ProposeExtension \/ ReasonOnEvidence \/ StoreAnswer

EvidenceSpec == EvidenceInit /\ [][EvidenceNext]_evidenceVars

-----------------------------------------------------------------------------
(* Properties.                                                               *)

\* Data of every capability that matches it.
HasEvidence(r) ==
    /\ Matching(r) # {}
    /\ \A c \in Matching(r) : Item(r, c, "EVIDENCE_SUFFICIENT") \in items

\* A package that is called sufficient, and an answer about the inventory that is given or
\* remembered, rest on data for each requirement of each round, however the rounds of a
\* plan and the failures of providers went.
AnswersRestOnEvidence ==
    /\ request.verdict = "SUFFICIENT" => \A r \in asked : HasEvidence(r)
    /\ request.kind = "inventory" /\ (request.pc = "answered" \/ stored)
         => request.verdict = "SUFFICIENT"
===============================================================================
