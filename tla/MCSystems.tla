------------------------------ MODULE MCSystems -------------------------------
(* Instances for TLC of five parts that keep no state in common: of the      *)
(* business systems, the catalogue with its publication and the              *)
(* synchronization of ShopDeck's tables; of the Brain, the decision on one   *)
(* item, the collection of evidence and the semantic store.  A behaviour is  *)
(* one of one part, so that the sizes of the state spaces add up.            *)
EXTENDS CatalogPublication, ShopDeckSync, NDRDecision, EvidencePipeline, SemanticStore, TLC

CONSTANTS p1, p2, s1, s2, s3, k1, k2, x1, x2, x3, low, high, odd, key, d1, d2,
          v1, v2, other, broken, m1, m2, a1, a2, i1, i2

VARIABLE part

Save(k, p, new, code, fill, skus) ==
    [op |-> "save", key |-> k, p |-> p, new |-> new, code |-> code, fill |-> fill,
     skus |-> skus, target |-> "DRAFT"]
Field(ent, fresh, sid, price, media) ==
    [ent |-> ent, fresh |-> fresh, sid |-> sid, price |-> price, media |-> media]
Rename(k, p, code) ==
    [op |-> "rename", key |-> k, p |-> p, new |-> FALSE, code |-> code, fill |-> "keep",
     skus |-> <<>>, target |-> "DRAFT"]
Transition(k, p, target) ==
    [op |-> "transition", key |-> k, p |-> p, new |-> FALSE, code |-> k1,
     fill |-> "keep", skus |-> <<>>, target |-> target]

\* The database: p1 is complete and READY with one SKU.
OneProduct == [p \in Products |-> IF p = p1 THEN [code |-> k1, full |-> TRUE, state |-> "READY"]
                                  ELSE None]
OneSku == [s \in Skus |-> IF s = s1 THEN [prod |-> p1, sid |-> x1, price |-> low, media |-> TRUE]
                          ELSE None]

\* A price change under a key, to a price of three decimals that rounds to one the audit refuses;
\* a change of the sku_id that keeps the old price; an incomplete edit; two families that claim each
\* other's sku_ids in opposite orders and name one entity that is not there yet; a claimed code.
Reprice == Save(key, p1, FALSE, k1, "keep", <<Field(s1, s1, x1, odd, FALSE)>>)
Resku == Save(None, p1, FALSE, k1, "keep", <<Field(s1, s1, x2, low, TRUE)>>)
Blank == Save(None, p1, FALSE, k1, "blank", <<>>)
Grow == Save(None, p1, FALSE, k1, "full", <<Field(None, s2, x2, low, TRUE), Field(s3, s3, x3, low, FALSE)>>)
Create == Save(None, p2, TRUE, k2, "full", <<Field(s3, s3, x3, high, TRUE), Field(None, s2, x2, high, TRUE)>>)
ClaimCode == Rename(None, p1, k2)
MakeReady == Transition(key, p1, "READY")
MakeNewReady == Transition(None, p2, "READY")
MakeDraft == Transition(None, p1, "DRAFT")

AllRequests == {Reprice, Resku, Blank, Grow, Create, ClaimCode, MakeReady,
                MakeNewReady, MakeDraft}
HighOrLow == low :> low @@ high :> high @@ odd :> high
WindowDays == 1 :> 2 @@ 2 :> 2 @@ 3 :> 0
ItemReasons == {{"not reachable"}, {"refused", "address"}}

\* As main.py registers them, the identities of the shipments left out.
Identities == "balance" :> {"warehouse", "balance", "sku"} @@ "ledger" :> {"sku"} @@ "ndr" :> {}
Constraints == "balance" :> {"ENTITY", "CAPABILITY"} @@ "ledger" :> {"ENTITY", "CAPABILITY"}
               @@ "ndr" :> {"ENTITY"}
Needs == "balance" :> {"warehouse"}
Concepts == d1 :> {} @@ d2 :> {"CAPABILITY"}

\* Two versions of one contract, that of another namespace, which takes over a concept and links to
\* one, and one with a relationship to a concept it does not declare.
Space == v1 :> "catalog" @@ v2 :> "catalog" @@ other :> "inventory" @@ broken :> "inventory"
Declared == v1 :> <<m1, m2>> @@ v2 :> <<m2, m1>> @@ other :> <<m2>> @@ broken :> <<m1>>
DeclaredAliases == [c \in {v1, v2, other, broken} |->
    [k \in {m1, m2} |-> IF c = v2 THEN {a2} ELSE {a1}]]
DeclaredRelations == v1 :> {<<m1, m2>>} @@ v2 :> {<<m2, m1>>} @@ other :> {} @@ broken :> {<<m1, m2>>}
DeclaredFields == v1 :> {m1} @@ v2 :> {m2} @@ other :> {} @@ broken :> {}
TwoIngesters == {i1, i2}
SameIngesters == Permutations(TwoIngesters)
NativeLinks == v1 :> {m1} @@ v2 :> {} @@ other :> {m1} @@ broken :> {}

systemsVars == <<part, prod, sku, codeOwner, sidOwner, ledger, idem, ran, txn, art, files, job,
                 issued, raced, kind, time, changes, visible, table, checkpoint, lock, daemon,
                 since, unheard, shipment, reason, day, pc, tries, first, seen, decision, ccc,
                 record, calls, counts, request, todo, pending, items, latest, asked, stored,
                 runs, store, ingester, reader>>

SystemsInit ==
    /\ part \in {"catalog", "sync", "decision", "evidence", "store"}
    /\ Init
    /\ SyncInit /\ (part # "sync" => kind = "core")
    /\ DecisionInit
    /\ part # "decision" => /\ shipment.count = 0 /\ shipment.courier = Missing
                            /\ reason = {"not reachable"}
    /\ EvidenceInit /\ (part # "evidence" => request.kind = "query" /\ request.session)
    /\ StoreInit

CatalogPart ==
    part = "catalog" /\ Next /\ UNCHANGED <<syncVars, decisionVars, evidenceVars, storeVars>>
SyncPart ==
    part = "sync" /\ SyncNext /\ UNCHANGED <<vars, decisionVars, evidenceVars, storeVars>>
DecisionPart ==
    part = "decision" /\ DecisionNext /\ UNCHANGED <<vars, syncVars, evidenceVars, storeVars>>
EvidencePart ==
    part = "evidence" /\ EvidenceNext /\ UNCHANGED <<vars, syncVars, decisionVars, storeVars>>
StorePart ==
    part = "store" /\ StoreNext /\ UNCHANGED <<vars, syncVars, decisionVars, evidenceVars>>

SystemsNext ==
    /\ CatalogPart \/ SyncPart \/ DecisionPart \/ EvidencePart \/ StorePart
    /\ UNCHANGED part

SystemsSpec == SystemsInit /\ [][SystemsNext]_systemsVars
===============================================================================
