--------------------------- MODULE CatalogFamilies ---------------------------
(***************************************************************************)
(* The mutation requests of the Catalog business system (CatalogService):  *)
(* save_product_family, rename_product_code and                            *)
(* transition_lifecycle_state, each one transaction of several statements  *)
(* at PostgreSQL's READ COMMITTED, run by concurrent HTTP requests against *)
(* the tables and triggers of schema.sql.                                  *)
(*                                                                         *)
(* A statement is one action, together with the pure code after it; reads  *)
(* of reservations, which only ever appear, go with the statement before   *)
(* them: what they miss, the write finds.  What a transaction wrote is in  *)
(* its own record until it commits: nobody else reads it, but who wants to *)
(* write the same product row or the same business key waits for it.       *)
(***************************************************************************)
EXTENDS Integers, Sequences, FiniteSets

CONSTANTS
    Procs,       \* HTTP requests; each process runs one
    Requests,    \* the requests clients send, see RequestShape
    Products,    \* product entities (internal_id)
    Skus,        \* SKU entities (internal_id)
    Codes,       \* product codes
    Sids,        \* sku_ids, the business keys of SKUs
    Prices,      \* (mrp, selling price, cost price) triples, of any scale
    Rounded,     \* what the columns of NUMERIC(10,2) make of a triple
    Keys,        \* idempotency keys
    InitProd, InitSku,    \* the rows the database starts with
    None

States == {"DRAFT", "READY", "PUBLISHED"}

\* full: every product attribute the readiness gate asks for is there.
ProductRow == [code : Codes, full : BOOLEAN, state : States]
\* media: the SKU has a primary image.
SkuRow == [prod : Products, sid : Sids, price : Prices, media : BOOLEAN]

\* One SKU of a save: ent is the sku_internal_id, None when the caller gives none;
\* fresh is what uuid4() returns should a new entity be needed.
SkuInput == [ent : Skus \cup {None}, fresh : Skus, sid : Sids, price : Prices,
             media : BOOLEAN]

\* fill: what the payload says of the product's attributes -- nothing (the stored ones
\* are kept), all of them, or a blank description.  target is for transitions.
RequestShape ==
    [op : {"save", "rename", "transition"}, key : Keys \cup {None}, p : Products,
     new : BOOLEAN, code : Codes, fill : {"keep", "full", "blank"},
     skus : Seq(SkuInput), target : {"DRAFT", "READY"}]

ASSUME CatalogAssumption ==
    /\ Requests \subseteq RequestShape
    /\ InitProd \in [Products -> ProductRow \cup {None}]
    /\ InitSku \in [Skus -> SkuRow \cup {None}]
    /\ Rounded \in [Prices -> Prices]
    /\ \A price \in Prices : Rounded[Rounded[price]] = Rounded[price]
    /\ \A s \in Skus : InitSku[s] # None => InitSku[s].price = Rounded[InitSku[s].price]
    /\ \A p, o \in Products : /\ InitProd[p] # None /\ InitProd[o] # None
                               /\ InitProd[p].code = InitProd[o].code => p = o
    /\ \A s, o \in Skus : /\ InitSku[s] # None /\ InitSku[o] # None
                           /\ InitSku[s].sid = InitSku[o].sid => s = o
    /\ None \notin Products \cup Skus \cup Prices \cup Keys \cup Requests
    /\ None \notin ProductRow \cup SkuRow

\* A key is not the absence of one.
ASSUME KeyAssumption == None \notin Codes \cup Sids

Fields(q) == {q.skus[i] : i \in DOMAIN q.skus}
AllFields == UNION {Fields(q) : q \in Requests}
NewFields == {f \in AllFields : f.ent = None}

\* Entities that a request names although the database does not start with them: the
\* service takes the caller's word for a sku_internal_id that it does not find.
Invented == {s \in Skus : InitSku[s] = None /\ \E f \in AllFields : f.ent = s}

\* Fresh entities are UUIDs: each is like no other and like none that a client names.
ASSUME EntityAssumption ==
    /\ \A f \in NewFields : f.fresh \notin Invented
    /\ \A f, g \in NewFields : f.fresh = g.fresh => f.sid = g.sid
    /\ \A f \in NewFields : InitSku[f.fresh] # None =>
          \E s \in Skus : InitSku[s] # None /\ InitSku[s].sid = f.sid

\* There are finitely many requests at a time.
ASSUME FinitelyMany == IsFiniteSet(Procs)

VARIABLES
    prod,      \* catalog_products
    sku,       \* catalog_skus
    codeOwner, \* catalog_product_code_reservations
    sidOwner,  \* catalog_sku_id_reservations
    ledger,    \* catalog_price_history: per SKU, the price changes in order
    idem,      \* catalog_idempotency_records: per key, the request of its record (None
               \* without one) and whether the record has not expired
    ran,       \* ghost: executions of a key's requests since its record was last gone
    txn        \* the transaction of a process: its statement (pc), its request, the product
               \* row it read and then will write (seen), its SKUs' entities, the SKU it is
               \* at (n, old), and what it has written (row, rows, log)

tables == <<prod, sku, codeOwner, sidOwner, ledger>>
familyVars == <<prod, sku, codeOwner, sidOwner, ledger, idem, ran, txn>>

NoRecord == [live |-> FALSE, q |-> None]

NoTxn == [pc |-> "idle", q |-> None, seen |-> None, ents |-> <<>>, n |-> 1,
          old |-> None, row |-> None, rows |-> [s \in Skus |-> None],
          log |-> [s \in Skus |-> <<>>], reply |-> "none"]

FamilyInit ==
    /\ prod = InitProd
    /\ sku = InitSku
    /\ codeOwner = [k \in Codes |->
         IF \E p \in Products : InitProd[p] # None /\ InitProd[p].code = k
         THEN CHOOSE p \in Products : InitProd[p] # None /\ InitProd[p].code = k
         ELSE None]
    /\ sidOwner = [k \in Sids |->
         IF \E s \in Skus : InitSku[s] # None /\ InitSku[s].sid = k
         THEN CHOOSE s \in Skus : InitSku[s] # None /\ InitSku[s].sid = k
         ELSE None]
    /\ ledger = [s \in Skus |-> IF InitSku[s] = None THEN <<>>
                                ELSE <<[old |-> None, new |-> InitSku[s].price]>>]
    /\ idem = [k \in Keys |-> NoRecord]
    /\ ran = [k \in Keys |-> 0]
    /\ txn = [c \in Procs |-> NoTxn]

-----------------------------------------------------------------------------
(* The rules the service asks validation.py.                                 *)

\* A family as the gate sees it: its attributes, and the images of its SKUs by sku_id.
ReadinessGate(full, media) ==
    /\ full
    /\ DOMAIN media # {}
    /\ \A k \in DOMAIN media : media[k]

\* A sku_id may appear once in a payload.
ValidPayload(q) ==
    \A i, j \in DOMAIN q.skus : q.skus[i].sid = q.skus[j].sid => i = j

FamilyMedia(p) ==
    LET rows == {s \in Skus : sku[s] # None /\ sku[s].prod = p} IN
    [k \in {sku[s].sid : s \in rows} |-> \E s \in rows : sku[s].sid = k /\ sku[s].media]

\* The stored siblings overlaid with the payload, sku_id by sku_id.
MergedMedia(p, q) ==
    LET stored == FamilyMedia(p) IN
    [k \in DOMAIN stored \cup {f.sid : f \in Fields(q)} |->
        \/ \E f \in Fields(q) : f.sid = k /\ f.media
        \/ k \in DOMAIN stored /\ stored[k]]

MergedFull(seen, q) ==
    CASE q.fill = "full" -> TRUE
      [] q.fill = "blank" -> FALSE
      [] OTHER -> seen # None /\ seen.full

\* A published or ready family is judged again after a save; a draft stays one.
\* Faulty: the save leaves the lifecycle alone.
StateAfterSave_Kept(seen, full, media) == IF seen = None THEN "DRAFT" ELSE seen.state

StateAfterSave(seen, full, media) ==
    IF seen # None /\ seen.state \in {"READY", "PUBLISHED"}
    THEN IF ReadinessGate(full, media) THEN "READY" ELSE "DRAFT"
    ELSE "DRAFT"

-----------------------------------------------------------------------------
(* Locks.  They last until the transaction ends.                             *)

\* Faulty: a session's lock, which outlives the transaction.
Active_Session(c) == txn[c].pc \notin {"idle", "begin"}

Active(c) == txn[c].pc \notin {"idle", "begin", "done"}

\* Faulty: the lock is taken but nobody waits for it.
HoldsKey_Never(c, k) == FALSE

\* pg_advisory_xact_lock(hashtext(key)).
HoldsKey(c, k) == Active(c) /\ txn[c].q.key = k

\* Faulty: the SKUs are read and written without having written the product first.
HoldsProduct_Never(c, p) == FALSE

\* The row lock of a written product.
HoldsProduct(c, p) == Active(c) /\ txn[c].row # None /\ txn[c].q.p = p

\* A business key reserved by a transaction that has not ended.
HoldsCode(c, k) ==
    codeOwner[k] = None /\ Active(c) /\ txn[c].row # None /\ txn[c].row.code = k
HoldsSid(c, k) ==
    /\ sidOwner[k] = None /\ Active(c) /\ txn[c].row # None
    /\ \E i \in 1..(txn[c].n - 1) : txn[c].q.skus[i].sid = k

\* The primary key of a SKU it inserted, or the row lock of one it updated.
HoldsSku(c, s) == Active(c) /\ txn[c].rows[s] # None

Others(c) == Procs \ {c}

\* Nobody else holds what the next statement of c asks for.
KeyIsFree(c, k) == \A d \in Others(c) : ~HoldsKey(d, k)
ProductIsFree(c, p) == \A d \in Others(c) : ~HoldsProduct(d, p)
CodeIsFree(c, k) == \A d \in Others(c) : ~HoldsCode(d, k)
SidIsFree(c, k) == \A d \in Others(c) : ~HoldsSid(d, k)
SkuIsFree(c, s) == \A d \in Others(c) : ~HoldsSku(d, s)

-----------------------------------------------------------------------------
(* Ends of a transaction.                                                    *)

Ended(c, reply) == [NoTxn EXCEPT !.pc = "done", !.q = txn[c].q, !.reply = reply]

\* Return without having written, or roll back: RaiseError and UniqueViolationError are
\* turned into a rejection, any other exception goes to the caller.
Stop(c, reply) ==
    /\ txn' = [txn EXCEPT ![c] = Ended(c, reply)]
    /\ UNCHANGED <<tables, idem, ran>>

\* The response is saved under the key in the same transaction; the tables are
\* committed with it.
Commit(c) ==
    LET t == txn[c] IN
    /\ t.pc = "commit"
    /\ prod' = [prod EXCEPT ![t.q.p] = t.row]
    /\ sku' = [s \in Skus |-> IF t.rows[s] = None THEN sku[s] ELSE t.rows[s]]
    /\ codeOwner' = [codeOwner EXCEPT ![t.row.code] = t.q.p]
    /\ sidOwner' = [k \in Sids |->
         IF \E i \in DOMAIN t.ents : t.q.skus[i].sid = k
         THEN t.ents[CHOOSE i \in DOMAIN t.ents : t.q.skus[i].sid = k]
         ELSE sidOwner[k]]
    /\ ledger' = [s \in Skus |-> ledger[s] \o t.log[s]]
    /\ idem' = IF t.q.key = None THEN idem
               ELSE [idem EXCEPT ![t.q.key] = [live |-> TRUE, q |-> t.q]]
    /\ ran' = IF t.q.key = None THEN ran ELSE [ran EXCEPT ![t.q.key] = @ + 1]
    /\ txn' = [txn EXCEPT ![c] = Ended(c, "SUCCESS")]

-----------------------------------------------------------------------------
(* The statements.                                                           *)

\* A client's request reaches the service.
Arrive(c, q) ==
    /\ txn[c].pc = "idle"
    /\ txn' = [txn EXCEPT ![c] = [NoTxn EXCEPT !.q = q, !.pc = "begin"]]
    /\ UNCHANGED <<tables, idem, ran>>

\* Begin; the key's lock; its record: replayed when it is of this request, a conflict
\* when it is of another one, and as good as absent once it has expired.  Then the
\* payload is validated.
Begin(c) ==
    LET q == txn[c].q
        cached == IF q.key = None THEN NoRecord ELSE idem[q.key]
    IN
    /\ txn[c].pc = "begin"
    /\ q.key # None => KeyIsFree(c, q.key)
    /\ CASE cached.live /\ cached.q = q -> Stop(c, "UNCHANGED_IDEMPOTENT")
         [] cached.live /\ cached.q # q -> Stop(c, "REJECTED")
         [] ~cached.live /\ q.op = "save" /\ ~ValidPayload(q) -> Stop(c, "REJECTED")
         [] OTHER -> txn' = [txn EXCEPT ![c].pc = "product"]
                     /\ UNCHANGED <<tables, idem, ran>>

\* SELECT the product, without a lock; and the owner of the code asked for.
ReadProduct(c) ==
    LET q == txn[c].q
        seen == IF q.op = "save" /\ q.new THEN None ELSE prod[q.p]
        taken == /\ q.op # "transition"
                 /\ codeOwner[q.code] \notin (IF q.new THEN {None} ELSE {None, q.p})
    IN
    /\ txn[c].pc = "product"
    /\ IF (seen = None /\ ~(q.op = "save" /\ q.new)) \/ taken
       THEN Stop(c, "REJECTED")
       ELSE /\ txn' = [txn EXCEPT ![c].seen = seen,
                         ![c].pc = CASE q.op = "save" -> "keys"
                                     [] q.op = "transition" /\ q.target = "READY" -> "family"
                                     [] OTHER -> "write"]
            /\ UNCHANGED <<tables, idem, ran>>

\* The entity a SKU of the payload stands for, "denied" when the key or the entity is
\* another's: a given entity must be of this family and the owner of a reserved key; a
\* key given alone is adopted if its owner is of this family and still carries it.
Resolve(f, q) ==
    LET owner == sidOwner[f.sid]
        another == f.ent # None /\ sku[f.ent] # None /\ (q.new \/ sku[f.ent].prod # q.p)
        adopted == ~q.new /\ sku[owner].prod = q.p /\ sku[owner].sid = f.sid
    IN
    IF another THEN "denied"
    ELSE IF owner = None \/ owner = f.ent THEN f.ent
    ELSE IF f.ent = None /\ adopted THEN owner ELSE "denied"

CheckKeys(c) ==
    LET t == txn[c]
        ent == Resolve(t.q.skus[t.n], t.q)
    IN
    /\ t.pc = "keys"
    /\ CASE t.n > Len(t.q.skus) ->
              txn' = [txn EXCEPT ![c].pc = "family", ![c].n = 1]
              /\ UNCHANGED <<tables, idem, ran>>
         [] t.n <= Len(t.q.skus) /\ ent = "denied" -> Stop(c, "REJECTED")
         [] OTHER -> txn' = [txn EXCEPT ![c].ents = Append(@, ent), ![c].n = @ + 1]
                     /\ UNCHANGED <<tables, idem, ran>>

\* SELECT the siblings.  A save decides here what it will write, a transition to READY
\* whether it may.
ReadFamily(c) ==
    LET t == txn[c]
        media == IF t.q.op = "save" THEN MergedMedia(t.q.p, t.q) ELSE FamilyMedia(t.q.p)
        full == IF t.q.op = "save" THEN MergedFull(t.seen, t.q) ELSE t.seen.full
    IN
    /\ t.pc = "family"
    /\ IF t.q.op = "transition" /\ ~ReadinessGate(full, media)
       THEN Stop(c, "REJECTED")
       ELSE /\ txn' = [txn EXCEPT ![c].pc = "write",
                 ![c].seen = IF t.q.op = "transition" THEN t.seen
                             ELSE [code |-> t.q.code, full |-> full,
                                   state |-> StateAfterSave(t.seen, full, media)]]
            /\ UNCHANGED <<tables, idem, ran>>

\* What the INSERT or UPDATE of catalog_products leaves in the row.  A save writes every
\* column from what it read; a rename the code and the state; a transition the state.
Written(q, seen) ==
    CASE q.op = "save" -> seen
      [] q.op = "rename" ->
            [prod[q.p] EXCEPT !.code = q.code,
                              !.state = IF seen.state = "PUBLISHED" THEN "READY"
                                        ELSE seen.state]
      [] OTHER -> [prod[q.p] EXCEPT !.state = q.target]

\* The write waits for the row and for the code; then the reservation trigger has its say.
\* Faulty: the trigger does not look at the owner.
MayCarry_Unchecked(owner, ent) == TRUE

MayCarry(owner, ent) == owner \in {None, ent}

WriteProduct(c) ==
    LET q == txn[c].q
        row == Written(q, txn[c].seen)
        insert == q.op = "save" /\ q.new
    IN
    /\ txn[c].pc = "write"
    /\ ProductIsFree(c, q.p) /\ CodeIsFree(c, row.code)
    /\ IF (insert /\ codeOwner[row.code] # None) \/ ~MayCarry(codeOwner[row.code], q.p)
       THEN Stop(c, "REJECTED")
       ELSE /\ txn' = [txn EXCEPT ![c].row = row,
                         ![c].pc = IF q.op = "save" /\ q.skus # <<>> THEN "skus"
                                   ELSE "commit"]
            /\ UNCHANGED <<tables, idem, ran>>

\* SELECT the next SKU, if the save knows its entity: there is no lock but the product's.
ReadSku(c) ==
    LET t == txn[c]
        ent == t.ents[t.n]
    IN
    /\ t.pc = "skus"
    /\ txn' = [txn EXCEPT ![c].pc = "sku",
                 ![c].old = IF ent = None THEN None
                            ELSE IF t.rows[ent] # None THEN t.rows[ent] ELSE sku[ent]]
    /\ UNCHANGED <<tables, idem, ran>>

\* The entity the SKU at hand stands for or, where there is none yet, becomes.
EntityAtHand(t) ==
    IF t.ents[t.n] = None THEN t.q.skus[t.n].fresh ELSE t.ents[t.n]

\* INSERT it with its first price, or UPDATE it, after a row of price history if the
\* payload's price, unrounded, is another than the one read; a list of images replaces
\* the stored one only when it has any.
WriteSku(c) ==
    LET t == txn[c]
        f == t.q.skus[t.n]
        ent == EntityAtHand(t)
        price == Rounded[f.price]
        row == IF t.old # None
               THEN [t.old EXCEPT !.sid = f.sid, !.price = price, !.media = f.media \/ @]
               ELSE [prod |-> t.q.p, sid |-> f.sid, price |-> price, media |-> f.media]
        before == IF t.old = None THEN None ELSE t.old.price
        log == IF before = f.price THEN <<>> ELSE <<[old |-> before, new |-> price]>>
        present == t.old = None /\ (sidOwner[f.sid] # None \/ sku[ent] # None)
    IN
    /\ t.pc = "sku"
    /\ SidIsFree(c, f.sid) /\ SkuIsFree(c, ent)
    /\ IF present \/ ~MayCarry(sidOwner[f.sid], ent)
       THEN Stop(c, "REJECTED")
       ELSE /\ txn' = [txn EXCEPT ![c].rows[ent] = row, ![c].log[ent] = @ \o log,
                         ![c].ents[t.n] = ent, ![c].n = @ + 1, ![c].old = None,
                         ![c].pc = IF t.n = Len(t.q.skus) THEN "commit" ELSE "skus"]
            /\ UNCHANGED <<tables, idem, ran>>

-----------------------------------------------------------------------------
(* PostgreSQL.                                                               *)

\* c waits for a sku_id that d has reserved or a SKU it has written; who waits for a
\* product, a code or a key's lock holds nothing that another of these statements waits for.
WaitsFor(c, d) ==
    /\ d # c /\ txn[c].pc = "sku"
    /\ \/ HoldsSid(d, txn[c].q.skus[txn[c].n].sid)
       \/ HoldsSku(d, EntityAtHand(txn[c]))

Deadlocked(S) == \A c \in S : (\E d \in S : WaitsFor(c, d)) /\ \E d \in S : WaitsFor(d, c)

\* One of the transactions that wait for each other is aborted; DeadlockDetectedError is
\* not caught, the caller gets a 500.
AbortVictim(c) ==
    /\ \E S \in SUBSET Procs : c \in S /\ Deadlocked(S)
    /\ Stop(c, "ERROR")

\* 24 hours pass; cleanup_expired_idempotency_records deletes what has expired.
ExpireRecord(k) ==
    /\ idem[k].live
    /\ idem' = [idem EXCEPT ![k].live = FALSE]
    /\ ran' = [ran EXCEPT ![k] = 0]
    /\ UNCHANGED <<tables, txn>>

DeleteExpired ==
    /\ idem' = [k \in Keys |-> IF idem[k].live THEN idem[k] ELSE NoRecord]
    /\ idem' # idem
    /\ UNCHANGED <<tables, ran, txn>>

-----------------------------------------------------------------------------
Step(c) ==
    \/ Begin(c) \/ ReadProduct(c) \/ CheckKeys(c) \/ ReadFamily(c) \/ WriteProduct(c)
    \/ ReadSku(c) \/ WriteSku(c) \/ Commit(c) \/ AbortVictim(c)

FamilyNext ==
    \/ \E c \in Procs : Step(c) \/ (\E q \in Requests : Arrive(c, q))
    \/ \E k \in Keys : ExpireRecord(k)
    \/ DeleteExpired

FamilySpec == FamilyInit /\ [][FamilyNext]_familyVars

-----------------------------------------------------------------------------
(* Properties.                                                               *)

\* A business key belongs to one entity for good (rules PRD-05 and RET-02): the code of
\* every product and the sku_id of every SKU is reserved for that very entity, whatever
\* the order in which the requests that claim it read, wait and commit.
KeysAreOwned ==
    /\ \A p \in Products : prod[p] # None => codeOwner[prod[p].code] = p
    /\ \A s \in Skus : sku[s] # None => sidOwner[sku[s].sid] = s

\* The requests of an idempotency key are executed once while its record lives, however
\* often clients repeat them and however the repetitions overlap.
KeyRunsOnce == \A k \in Keys : ran[k] <= 1

\* An entry that changes nothing is of a price with more than two decimals: the service
\* compares it before the column has rounded it.
NoChange(e) ==
    \E f \in AllFields : f.price # Rounded[f.price] /\ e = [old |-> Rounded[f.price],
                                                            new |-> Rounded[f.price]]

Chained(l) ==
    \A i \in 2..Len(l) : /\ l[i].old = l[i - 1].new
                         /\ l[i].old # l[i].new \/ NoChange(l[i])

\* The price history of a SKU is its price: it begins with the first price, each entry
\* starts from the price the one before it left, and the last one is the price in the
\* row -- although a save compares with a row it has not locked.  A SKU whose entity a
\* client made up is left out: two families may both find that it is not there, and the
\* one that comes second updates it without the lock of its product.
LedgerIsThePrice ==
    \A s \in Skus \ Invented :
        IF sku[s] = None THEN ledger[s] = <<>>
        ELSE /\ ledger[s] # <<>> /\ ledger[s][1].old = None
             /\ Chained(ledger[s])
             /\ ledger[s][Len(ledger[s])].new = sku[s].price

\* What the tables of reservations implement: a register of product codes and one of
\* sku_ids.
CodeRegistry == INSTANCE KeyRegistry WITH
    BusinessKeys <- Codes, Entities <- Products, owner <- codeOwner,
    carried <- [p \in Products |-> IF prod[p] = None THEN None ELSE prod[p].code]

SidRegistry == INSTANCE KeyRegistry WITH
    BusinessKeys <- Sids, Entities <- Skus, owner <- sidOwner,
    carried <- [s \in Skus |-> IF sku[s] = None THEN None ELSE sku[s].sid]

\* Reservations are for good: no save, rename or rollback, however they overlap, passes a
\* code or a sku_id on to another entity, not even one that its owner has given up, and
\* none leaves an entity with a key that is not its own.
KeysAreKept == CodeRegistry!Spec /\ SidRegistry!Spec

\* A SKU stays in the family it was made in (CROSS_PRODUCT_SKU_MUTATION_DENIED), whatever
\* requests adopt it by its sku_id or name it by its entity.
SkusStay ==
    [][\A s \in Skus : sku[s] # None => sku'[s] # None /\ sku'[s].prod = sku[s].prod]_familyVars

=============================================================================
