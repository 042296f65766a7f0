----------------------- MODULE CatalogPublication_proofs -----------------------
(***************************************************************************)
(* Proofs about the Catalog, for any requests, processes and publications:   *)
(* who owns a business key, what an idempotency key promises, the price      *)
(* history, what a publication leaves, the readiness gate, and waiting.      *)
(***************************************************************************)
EXTENDS CatalogPublication, TLAPS, SequenceTheorems, FiniteSetTheorems, WellFoundedInduction

\* Prices as they are stored.
Stored == {Rounded[price] : price \in Prices}
Entry == [old : Stored \cup {None}, new : Stored]

Stages == {"idle", "begin", "product", "keys", "family", "write", "skus", "sku", "commit", "done"}
Writing == {"skus", "sku", "commit"}
Replies == {"none", "SUCCESS", "UNCHANGED_IDEMPOTENT", "REJECTED", "ERROR"}

TxnRecord ==
    [pc : Stages, q : Requests \cup {None}, seen : ProductRow \cup {None},
     ents : Seq(Skus \cup {None}), n : Nat \ {0}, old : SkuRow \cup {None},
     row : ProductRow \cup {None}, rows : [Skus -> SkuRow \cup {None}],
     log : [Skus -> Seq(Entry)], reply : Replies]

FamilyTypes ==
    /\ prod \in [Products -> ProductRow \cup {None}]
    /\ sku \in [Skus -> SkuRow \cup {None}]
    /\ codeOwner \in [Codes -> Products \cup {None}]
    /\ sidOwner \in [Sids -> Skus \cup {None}]
    /\ ledger \in [Skus -> Seq(Entry)]
    /\ idem \in [Keys -> [live : BOOLEAN, q : Requests \cup {None}]]
    /\ ran \in [Keys -> Nat]
    /\ txn \in [Procs -> TxnRecord]

\* Where a transaction is in its payload.
ShapeOf(t) ==
    /\ t.pc # "idle" => t.q \in Requests
    /\ t.row # None <=> t.pc \in Writing
    /\ t.row = None => \A s \in Skus : t.rows[s] = None /\ t.log[s] = <<>>
    /\ t.n <= Len(t.ents) + 1
    /\ t.pc \notin {"idle", "begin", "done"} =>
         /\ t.q.op = "save" => ValidPayload(t.q) /\ Len(t.ents) <= Len(t.q.skus)
         /\ t.q.op # "save" => t.ents = <<>>
    /\ t.pc \in {"begin", "product"} => t.n = 1 /\ t.ents = <<>>
    /\ t.pc = "keys" => t.q.op = "save" /\ t.n = Len(t.ents) + 1
    /\ t.pc = "family" => t.q.op # "rename"
    /\ t.pc \in {"family", "write"} =>
         t.n = 1 /\ (t.q.op = "save" => Len(t.ents) = Len(t.q.skus))
    /\ t.pc \in {"skus", "sku"} =>
         t.q.op = "save" /\ t.n <= Len(t.ents) /\ Len(t.ents) = Len(t.q.skus)
    /\ t.pc = "commit" => t.n = Len(t.ents) + 1

Shape(c) == ShapeOf(txn[c])

\* The product it read exists, and it never writes that a family is published.
ProductOK(c) ==
    LET t == txn[c] IN
    /\ t.pc \in {"family", "write"} /\ t.q.op # "save" => t.seen # None /\ prod[t.q.p] # None
    /\ t.pc = "write" /\ t.q.op = "save" => t.seen # None /\ t.seen.state # "PUBLISHED"
    /\ t.row # None => t.row.state # "PUBLISHED" /\ codeOwner[t.row.code] \in {None, t.q.p}

\* An entity it found is a SKU of its family; none was found where none is given.
OfFamily(s, p) == sku[s] # None /\ sku[s].prod = p
FoundOK(c) ==
    LET t == txn[c] IN
    \A i \in 1..Len(t.ents) :
        /\ t.ents[i] # None /\ (t.row = None \/ t.n <= i) => OfFamily(t.ents[i], t.q.p)
        /\ t.ents[i] = None => t.q.skus[i].ent = None

\* What it has written: the SKUs before n, each of its family or one that it inserted.
Wrote(t, i, s) == i < t.n /\ t.ents[i] = s
WrittenOK(c) ==
    LET t == txn[c] IN
    /\ t.row # None => \A i \in 1..Len(t.ents) : i < t.n =>
         /\ t.ents[i] # None /\ t.rows[t.ents[i]] # None
         /\ sidOwner[t.q.skus[i].sid] \in {None, t.ents[i]}
    /\ \A s \in Skus : t.rows[s] # None =>
         /\ t.rows[s].prod = t.q.p
         /\ \E i \in 1..Len(t.ents) : Wrote(t, i, s) /\ t.q.skus[i].sid = t.rows[s].sid
         /\ sku[s] # None => sku[s].prod = t.q.p
         /\ sku[s] = None => \E i \in 1..Len(t.ents) :
              Wrote(t, i, s) /\ t.q.skus[i].ent = None /\ t.q.skus[i].fresh = s

\* The price history that is to be committed ends in the price that is to be.
History(l, price) ==
    l # <<>> /\ l[1].old = None /\ Chained(l) /\ l[Len(l)].new = price
PricedOK(c) ==
    LET t == txn[c] IN
    /\ \A s \in Skus : IF t.rows[s] = None THEN t.log[s] = <<>>
                       ELSE History(ledger[s] \o t.log[s], t.rows[s].price)
    /\ t.pc = "sku" => LET s == t.ents[t.n] IN
         t.old = IF s = None THEN None ELSE IF t.rows[s] # None THEN t.rows[s] ELSE sku[s]

TxnOK(c) == Shape(c) /\ ProductOK(c) /\ FoundOK(c) /\ WrittenOK(c) /\ PricedOK(c)

\* Locks and reservations that are not committed have one holder.
Exclusive(c, d) ==
    /\ \A k \in Keys : ~(HoldsKey(c, k) /\ HoldsKey(d, k))
    /\ \A p \in Products : ~(HoldsProduct(c, p) /\ HoldsProduct(d, p))
    /\ \A k \in Codes : ~(HoldsCode(c, k) /\ HoldsCode(d, k))
    /\ \A k \in Sids : ~(HoldsSid(c, k) /\ HoldsSid(d, k))

\* Ledgers begin with the first price and end in the price of the row.
Ledgers ==
    \A s \in Skus : IF sku[s] = None THEN ledger[s] = <<>>
                   ELSE History(ledger[s], sku[s].price)

\* What the clients of the Catalog do: none names an entity that is not there.
NothingInvented == Invented = {}

\* A reserved key is that of an entity there is, and so is that of a fresh entity; an
\* entity that is named is there.
Reserved ==
    /\ KeysAreOwned
    /\ \A k \in Sids : sidOwner[k] # None => sku[sidOwner[k]] # None
    /\ \A f \in NewFields : sku[f.fresh] # None => sidOwner[f.sid] # None
    /\ \A f \in AllFields : f.ent # None => sku[f.ent] # None

\* A key under execution has no record.
KeyOK(k) ==
    /\ ran[k] <= 1
    /\ ~idem[k].live => ran[k] = 0
    /\ \A c \in Procs : HoldsKey(c, k) => ~idem[k].live

FamilyInv ==
    /\ FamilyTypes
    /\ \A c \in Procs : TxnOK(c)
    /\ \A c, d \in Procs : c # d => Exclusive(c, d)
    /\ Reserved
    /\ Ledgers
    /\ \A k \in Keys : KeyOK(k)
USE DEF Active

-----------------------------------------------------------------------------
(* Steps that change no table.                                               *)

LEMMA Frame ==
    ASSUME NEW d \in Procs, UNCHANGED tables, txn'[d] = txn[d], TxnOK(d)
    PROVE  TxnOK(d)'
<1>1. Shape(d)'
  BY DEF TxnOK, Shape
<1>2. ProductOK(d)'
  BY DEF TxnOK, ProductOK, tables
<1>3. FoundOK(d)'
  BY DEF TxnOK, FoundOK, OfFamily, tables
<1>4. WrittenOK(d)'
  BY DEF TxnOK, WrittenOK, Wrote, tables
<1>5. PricedOK(d)'
  BY DEF TxnOK, PricedOK, History, tables
<1>. QED
  BY <1>1, <1>2, <1>3, <1>4, <1>5 DEF TxnOK

\* What a transaction holds after a step of its own it held before, or nobody else does.
Acquired(c) ==
    /\ \A k \in Keys : HoldsKey(c, k)' =>
         ~idem[k].live /\ (HoldsKey(c, k) \/ KeyIsFree(c, k))
    /\ \A p \in Products : HoldsProduct(c, p)' => HoldsProduct(c, p) \/ ProductIsFree(c, p)
    /\ \A k \in Codes : HoldsCode(c, k)' => HoldsCode(c, k) \/ CodeIsFree(c, k)
    /\ \A k \in Sids : HoldsSid(c, k)' => HoldsSid(c, k) \/ SidIsFree(c, k)

LEMMA SameHolds ==
    ASSUME NEW d \in Procs, txn'[d] = txn[d], UNCHANGED tables
    PROVE  /\ \A k : HoldsKey(d, k)' <=> HoldsKey(d, k)
           /\ \A p : HoldsProduct(d, p)' <=> HoldsProduct(d, p)
           /\ \A k : HoldsCode(d, k)' <=> HoldsCode(d, k)
           /\ \A k : HoldsSid(d, k)' <=> HoldsSid(d, k)
BY DEF HoldsKey, HoldsProduct, HoldsCode, HoldsSid, tables

LEMMA LocalStep ==
    ASSUME FamilyInv, NEW c \in Procs, UNCHANGED <<tables, idem, ran>>,
           txn' \in [Procs -> TxnRecord], \A d \in Procs \ {c} : txn'[d] = txn[d],
           TxnOK(c)', Acquired(c)
    PROVE  FamilyInv'
<1>1. FamilyTypes'
  BY DEF FamilyInv, FamilyTypes, tables
<1>2. ASSUME NEW d \in Procs PROVE TxnOK(d)'
  BY Frame DEF FamilyInv, tables
<1>3. ASSUME NEW d \in Procs \ {c} PROVE Exclusive(c, d)' /\ Exclusive(d, c)'
  <2>1. Exclusive(c, d) /\ Exclusive(d, c)
    BY <1>3 DEF FamilyInv
  <2>2. /\ \A k : HoldsKey(d, k)' <=> HoldsKey(d, k)
        /\ \A p : HoldsProduct(d, p)' <=> HoldsProduct(d, p)
        /\ \A k : HoldsCode(d, k)' <=> HoldsCode(d, k)
        /\ \A k : HoldsSid(d, k)' <=> HoldsSid(d, k)
    BY <1>3, SameHolds
  <2>3. d \in Others(c)
    BY <1>3 DEF Others
  <2>4. \A k \in Keys : ~(HoldsKey(c, k)' /\ HoldsKey(d, k)')
    BY <2>1, <2>2, <2>3 DEF Acquired, KeyIsFree, Exclusive
  <2>5. \A p \in Products : ~(HoldsProduct(c, p)' /\ HoldsProduct(d, p)')
    BY <2>1, <2>2, <2>3 DEF Acquired, ProductIsFree, Exclusive
  <2>6. \A k \in Codes : ~(HoldsCode(c, k)' /\ HoldsCode(d, k)')
    BY <2>1, <2>2, <2>3 DEF Acquired, CodeIsFree, Exclusive
  <2>7. \A k \in Sids : ~(HoldsSid(c, k)' /\ HoldsSid(d, k)')
    BY <2>1, <2>2, <2>3 DEF Acquired, SidIsFree, Exclusive
  <2>. QED
    BY <2>4, <2>5, <2>6, <2>7 DEF Exclusive
<1>4. ASSUME NEW d \in Procs, NEW e \in Procs, d # e PROVE Exclusive(d, e)'
  <2>1. CASE d = c \/ e = c
    BY <1>3, <1>4, <2>1
  <2>2. CASE d # c /\ e # c
    <3>1. Exclusive(d, e)
      BY <1>4 DEF FamilyInv
    <3>2. txn'[d] = txn[d] /\ txn'[e] = txn[e]
      BY <1>4, <2>2
    <3>. QED
      BY <3>1, <3>2, SameHolds DEF Exclusive
  <2>. QED
    BY <2>1, <2>2
<1>5. Reserved' /\ Ledgers'
  BY DEF FamilyInv, Reserved, KeysAreOwned, Ledgers, History, tables
<1>6. ASSUME NEW k \in Keys PROVE KeyOK(k)'
  <2>1. KeyOK(k) /\ idem'[k] = idem[k] /\ ran'[k] = ran[k]
    BY DEF FamilyInv
  <2>2. ASSUME NEW d \in Procs, HoldsKey(d, k)' PROVE ~idem[k].live
    <3>1. CASE d = c
      BY <2>2, <3>1 DEF Acquired
    <3>2. CASE d # c
      BY <2>1, <2>2, <3>2, SameHolds DEF KeyOK
    <3>. QED
      BY <3>1, <3>2
  <2>. QED
    BY <2>1, <2>2 DEF KeyOK
<1>. QED
  BY <1>1, <1>2, <1>4, <1>5, <1>6 DEF FamilyInv

-----------------------------------------------------------------------------
(* The reads of a transaction.                                               *)

\* A transaction that has written nothing holds no row and reserves nothing.
LEMMA Unwritten ==
    ASSUME FamilyInv, NEW c \in Procs, txn'[c].row = None,
           \A k \in Keys : HoldsKey(c, k)' => ~idem[k].live /\ (HoldsKey(c, k) \/ KeyIsFree(c, k))
    PROVE  Acquired(c)
BY DEF Acquired, HoldsProduct, HoldsCode, HoldsSid

\* It keeps the lock of its key.
LEMMA SameKey ==
    ASSUME FamilyInv, NEW c \in Procs, Active(c), txn'[c].q = txn[c].q
    PROVE  \A k \in Keys : HoldsKey(c, k)' => ~idem[k].live /\ (HoldsKey(c, k) \/ KeyIsFree(c, k))
BY DEF FamilyInv, KeyOK, HoldsKey

LEMMA Parts ==
    ASSUME FamilyInv, NEW c \in Procs
    PROVE  /\ txn[c] \in TxnRecord /\ txn \in [Procs -> TxnRecord]
           /\ Shape(c) /\ ProductOK(c) /\ FoundOK(c) /\ WrittenOK(c) /\ PricedOK(c)
BY DEF FamilyInv, FamilyTypes, TxnOK

LEMMA NoTxnType == NoTxn \in TxnRecord
<1>1. <<>> \in Seq(Skus \cup {None}) /\ <<>> \in Seq(Entry)
  OBVIOUS
<1>2. [s \in Skus |-> None] \in [Skus -> SkuRow \cup {None}]
  OBVIOUS
<1>3. [s \in Skus |-> <<>>] \in [Skus -> Seq(Entry)]
  BY <1>1
<1>. QED
  BY <1>1, <1>2, <1>3 DEF NoTxn, TxnRecord, Stages, Replies

LEMMA Stopped ==
    ASSUME FamilyInv, NEW c \in Procs, NEW reply \in Replies, txn[c].pc # "idle", Stop(c, reply)
    PROVE  FamilyInv'
<1>1. /\ txn'[c] = [NoTxn EXCEPT !.pc = "done", !.q = txn[c].q, !.reply = reply]
      /\ \A d \in Procs \ {c} : txn'[d] = txn[d]
      /\ UNCHANGED <<tables, idem, ran>>
  BY DEF FamilyInv, FamilyTypes, Stop, Ended
<1>r. txn[c].q \in Requests
  <2>1. Shape(c)
    BY Parts
  <2>. QED
    BY <2>1 DEF Shape, ShapeOf
<1>2. txn'[c] \in TxnRecord
  BY <1>1, <1>r, NoTxnType DEF TxnRecord, Stages
<1>3. txn' \in [Procs -> TxnRecord]
  BY <1>1, <1>2 DEF FamilyInv, FamilyTypes, Stop
<1>4. TxnOK(c)'
  <2>1. /\ txn'[c].pc = "done" /\ txn'[c].q \in Requests /\ txn'[c].row = None /\ txn'[c].ents = <<>>
        /\ txn'[c].n = 1 /\ \A s \in Skus : txn'[c].rows[s] = None /\ txn'[c].log[s] = <<>>
    BY <1>1, <1>r DEF NoTxn
  <2>. QED
    BY <2>1 DEF TxnOK, Shape, ShapeOf, ProductOK, FoundOK, WrittenOK, PricedOK, Writing
<1>5. txn'[c].row = None /\ txn'[c].pc = "done"
  BY <1>1 DEF NoTxn
<1>6. Acquired(c)
  BY <1>5, Unwritten DEF HoldsKey
<1>. QED
  BY <1>1, <1>3, <1>4, <1>6, LocalStep

\* A step that only reads, before anything is written.
LEMMA ReadStep ==
    ASSUME FamilyInv, NEW c \in Procs, NEW t \in TxnRecord, UNCHANGED <<tables, idem, ran>>,
           txn' = [txn EXCEPT ![c] = t], t.row = None,
           \A s \in Skus : t.rows[s] = None /\ t.log[s] = <<>>,
           Shape(c)', ProductOK(c)', FoundOK(c)', t.pc # "sku",
           \A k \in Keys : HoldsKey(c, k)' => ~idem[k].live /\ (HoldsKey(c, k) \/ KeyIsFree(c, k))
    PROVE  FamilyInv'
<1>1. /\ txn' \in [Procs -> TxnRecord] /\ txn'[c] = t
      /\ \A d \in Procs \ {c} : txn'[d] = txn[d]
  BY Parts
<1>2. WrittenOK(c)' /\ PricedOK(c)'
  BY <1>1 DEF WrittenOK, PricedOK
<1>3. TxnOK(c)'
  BY <1>2 DEF TxnOK
<1>4. Acquired(c)
  BY <1>1, Unwritten
<1>. QED
  BY <1>1, <1>3, <1>4, LocalStep

LEMMA ArriveInv ==
    ASSUME FamilyInv, NEW c \in Procs, NEW q \in Requests, Arrive(c, q)
    PROVE  FamilyInv'
<1> DEFINE t == [NoTxn EXCEPT !.q = q, !.pc = "begin"]
<1>1. t \in TxnRecord /\ txn' = [txn EXCEPT ![c] = t] /\ UNCHANGED <<tables, idem, ran>>
  BY NoTxnType DEF Arrive, TxnRecord, Stages
<1>2. /\ t.pc = "begin" /\ t.q = q /\ t.row = None /\ t.n = 1 /\ t.ents = <<>>
      /\ \A s \in Skus : t.rows[s] = None /\ t.log[s] = <<>>
  BY DEF NoTxn
<1>3. txn'[c] = t
  BY <1>1, Parts
<1>4. Shape(c)' /\ ProductOK(c)' /\ FoundOK(c)'
  BY <1>2, <1>3 DEF Shape, ShapeOf, ProductOK, FoundOK, Writing
<1>5. \A k \in Keys : ~HoldsKey(c, k)'
  BY <1>2, <1>3 DEF HoldsKey
<1> HIDE DEF t
<1>. QED
  BY <1>1, <1>2, <1>4, <1>5, ReadStep

LEMMA BeginInv ==
    ASSUME FamilyInv, NEW c \in Procs, Begin(c)
    PROVE  FamilyInv'
<1> DEFINE q == txn[c].q
           cached == IF q.key = None THEN NoRecord ELSE idem[q.key]
           t == [txn[c] EXCEPT !.pc = "product"]
<1>1. Shape(c) /\ txn[c] \in TxnRecord /\ txn[c].pc = "begin" /\ q \in Requests
  <2>1. Shape(c) /\ txn[c] \in TxnRecord /\ txn[c].pc = "begin"
    BY Parts DEF Begin
  <2>. QED
    BY <2>1 DEF Shape, ShapeOf
<1>2. CASE \E r \in {"UNCHANGED_IDEMPOTENT", "REJECTED"} : Stop(c, r)
  BY <1>1, <1>2, Stopped DEF Replies
<1>3. CASE /\ txn' = [txn EXCEPT ![c].pc = "product"] /\ UNCHANGED <<tables, idem, ran>>
           /\ ~cached.live /\ (q.op = "save" => ValidPayload(q))
           /\ q.key # None => KeyIsFree(c, q.key)
  <2>1. t \in TxnRecord /\ txn' = [txn EXCEPT ![c] = t] /\ txn'[c] = t
    BY <1>1, <1>3, Parts DEF TxnRecord, Stages
  <2>2. /\ t.pc = "product" /\ t.q = q /\ t.row = None /\ t.n = 1 /\ t.ents = <<>>
        /\ \A s \in Skus : t.rows[s] = None /\ t.log[s] = <<>>
    BY <1>1 DEF Shape, ShapeOf, Writing, TxnRecord
  <2>3. Shape(c)' /\ ProductOK(c)' /\ FoundOK(c)'
    BY <1>1, <1>3, <2>1, <2>2 DEF Shape, ShapeOf, ProductOK, FoundOK, Writing
  <2>4. ASSUME NEW k \in Keys, HoldsKey(c, k)' PROVE ~idem[k].live /\ KeyIsFree(c, k)
    <3>1. q.key = k /\ k # None
      BY <2>1, <2>2, <2>4, CatalogAssumption DEF HoldsKey
    <3>. QED
      BY <1>3, <3>1
  <2> HIDE DEF t
  <2>. QED
    BY <1>3, <2>1, <2>2, <2>3, <2>4, ReadStep
<1>. QED
  BY <1>2, <1>3 DEF Begin

\* What clients send.
LEMMA RequestFields ==
    ASSUME NEW q \in Requests
    PROVE  /\ q.op \in {"save", "rename", "transition"} /\ q.key \in Keys \cup {None}
           /\ q.p \in Products /\ q.new \in BOOLEAN /\ q.code \in Codes
           /\ q.skus \in Seq(SkuInput) /\ q.target \in {"DRAFT", "READY"}
           /\ \A i \in 1..Len(q.skus) :
                q.skus[i] \in SkuInput /\ q.skus[i] \in AllFields
<1>1. q \in RequestShape
  BY CatalogAssumption
<1>2. q.skus \in Seq(SkuInput)
  BY <1>1 DEF RequestShape
<1>3. ASSUME NEW i \in 1..Len(q.skus)
      PROVE  q.skus[i] \in SkuInput /\ q.skus[i] \in AllFields
  BY <1>2 DEF AllFields, Fields
<1>. QED
  BY <1>1, <1>2, <1>3 DEF RequestShape

LEMMA Nones ==
    /\ None \notin Products /\ None \notin Skus /\ None \notin Prices
    /\ None \notin Keys /\ None \notin Requests
    /\ None \notin ProductRow /\ None \notin SkuRow
BY CatalogAssumption

LEMMA ReadProductInv ==
    ASSUME FamilyInv, NEW c \in Procs, ReadProduct(c)
    PROVE  FamilyInv'
<1> DEFINE q == txn[c].q
           seen == IF q.op = "save" /\ q.new THEN None ELSE prod[q.p]
           next == CASE q.op = "save" -> "keys"
                     [] q.op = "transition" /\ q.target = "READY" -> "family"
                     [] OTHER -> "write"
           t == [txn[c] EXCEPT !.seen = seen, !.pc = next]
<1>1. Shape(c) /\ txn[c] \in TxnRecord /\ txn[c].pc = "product" /\ q \in Requests
  <2>1. Shape(c) /\ txn[c] \in TxnRecord /\ txn[c].pc = "product"
    BY Parts DEF ReadProduct
  <2>. QED
    BY <2>1 DEF Shape, ShapeOf
<1>2. CASE Stop(c, "REJECTED")
  BY <1>1, <1>2, Stopped DEF Replies
<1>3. CASE /\ txn' = [txn EXCEPT ![c].seen = seen, ![c].pc = next]
           /\ UNCHANGED <<tables, idem, ran>>
           /\ ~(seen = None /\ ~(q.op = "save" /\ q.new))
  <2>1. seen \in ProductRow \cup {None}
    BY <1>1, RequestFields DEF FamilyInv, FamilyTypes
  <2>2. next \in {"keys", "family", "write"} /\ (next # "keys" => q.op # "save")
        /\ (next = "keys" => q.op = "save") /\ (next = "family" => q.op # "rename")
    <3>1. q.op \in {"save", "rename", "transition"} /\ q.target \in {"DRAFT", "READY"}
      BY <1>1, RequestFields
    <3>. QED
      BY <3>1
  <2>3. t \in TxnRecord /\ txn' = [txn EXCEPT ![c] = t] /\ txn'[c] = t
    BY <1>1, <1>3, <2>1, <2>2, Parts DEF TxnRecord, Stages
  <2>4. /\ t.pc = next /\ t.q = q /\ t.row = None /\ t.n = 1 /\ t.ents = <<>> /\ t.seen = seen
        /\ \A s \in Skus : t.rows[s] = None /\ t.log[s] = <<>>
        /\ q.op = "save" => ValidPayload(q)
    BY <1>1 DEF Shape, ShapeOf, Writing, TxnRecord
  <2> HIDE DEF next, t
  <2>5. Shape(c)'
    <3>1. Len(q.skus) \in Nat
      BY <1>1, RequestFields
    <3>2. ShapeOf(t)
      BY <1>1, <2>2, <2>4, <3>1 DEF ShapeOf, Writing
    <3>. QED
      BY <2>3, <3>2 DEF Shape
  <2>6. ProductOK(c)' /\ FoundOK(c)'
    <3>1. prod' = prod /\ (q.op # "save" => seen # None /\ prod[q.p] # None)
      BY <1>3 DEF tables
    <3>2. ProductOK(c)'
      BY <2>2, <2>3, <2>4, <3>1 DEF ProductOK
    <3>3. FoundOK(c)'
      BY <2>3, <2>4 DEF FoundOK
    <3>. QED
      BY <3>2, <3>3
  <2>7. \A k \in Keys : HoldsKey(c, k)' => ~idem[k].live /\ (HoldsKey(c, k) \/ KeyIsFree(c, k))
    BY <1>1, <2>3, <2>4, SameKey
  <2>. QED
    BY <1>3, <2>2, <2>3, <2>4, <2>5, <2>6, <2>7, ReadStep
<1>. QED
  BY <1>2, <1>3 DEF ReadProduct

\* An entity that the check of a key finds is a SKU of the family.
LEMMA Resolved ==
    ASSUME FamilyInv, NEW q \in Requests, NEW i \in 1..Len(q.skus),
           Resolve(q.skus[i], q) # "denied"
    PROVE  /\ Resolve(q.skus[i], q) \in Skus \cup {None}
           /\ Resolve(q.skus[i], q) # None => OfFamily(Resolve(q.skus[i], q), q.p)
           /\ Resolve(q.skus[i], q) = None => q.skus[i].ent = None
<1> DEFINE f == q.skus[i]
           owner == sidOwner[f.sid]
<1>1. f \in SkuInput /\ f \in AllFields
  BY RequestFields
<1>2. f.ent \in Skus \cup {None} /\ owner \in Skus \cup {None}
  BY <1>1 DEF SkuInput, FamilyInv, FamilyTypes
<1>3. f.ent # None => sku[f.ent] # None
  BY <1>1 DEF FamilyInv, Reserved
<1>4. owner # None => sku[owner] # None
  BY <1>1 DEF SkuInput, FamilyInv, Reserved
<1>. QED
  BY <1>2, <1>3, <1>4 DEF Resolve, OfFamily

LEMMA CheckKeysInv ==
    ASSUME FamilyInv, NEW c \in Procs, CheckKeys(c)
    PROVE  FamilyInv'
<1> DEFINE q == txn[c].q
           n == txn[c].n
           ents == txn[c].ents
           ent == Resolve(q.skus[n], q)
           u == [txn[c] EXCEPT !.pc = "family", !.n = 1]
           v == [txn[c] EXCEPT !.ents = Append(@, ent), !.n = @ + 1]
<1>1. /\ txn[c] \in TxnRecord /\ txn[c].pc = "keys" /\ q \in Requests
      /\ q.op = "save" /\ ValidPayload(q) /\ txn[c].row = None
      /\ \A s \in Skus : txn[c].rows[s] = None /\ txn[c].log[s] = <<>>
      /\ n = Len(ents) + 1 /\ Len(ents) <= Len(q.skus)
  <2>1. Shape(c) /\ FoundOK(c) /\ txn[c] \in TxnRecord /\ txn[c].pc = "keys"
    BY Parts DEF CheckKeys
  <2>. QED
    BY <2>1 DEF Shape, ShapeOf, Writing, ValidPayload
<1>f. FoundOK(c)
  BY Parts
<1>2. Len(q.skus) \in Nat /\ ents \in Seq(Skus \cup {None}) /\ Len(ents) \in Nat /\ n \in Nat \ {0}
  BY <1>1, RequestFields DEF TxnRecord
<1>3. CASE Stop(c, "REJECTED")
  BY <1>1, <1>3, Stopped DEF Replies
<1>4. CASE /\ n > Len(q.skus)
           /\ txn' = [txn EXCEPT ![c].pc = "family", ![c].n = 1]
           /\ UNCHANGED <<tables, idem, ran>>
  <2>1. u \in TxnRecord
    <3>1. 1 \in Nat \ {0} /\ "family" \in Stages /\ txn[c] \in TxnRecord
      BY <1>1 DEF Stages
    <3>. QED
      BY <3>1 DEF TxnRecord
  <2>a. txn' = [txn EXCEPT ![c] = u] /\ txn'[c] = u
    <3>1. txn \in [Procs -> TxnRecord]
      BY Parts
    <3>. QED
      BY <3>1, <1>4
  <2>2. /\ u.pc = "family" /\ u.q = q /\ u.row = None /\ u.n = 1 /\ u.ents = ents
        /\ \A s \in Skus : u.rows[s] = None /\ u.log[s] = <<>>
    BY <1>1 DEF TxnRecord
  <2> HIDE DEF u
  <2>3. Shape(c)'
    <3>1. ShapeOf(u)
      BY <1>1, <1>2, <1>4, <2>2 DEF ShapeOf, Writing
    <3>. QED
      BY <2>a, <3>1 DEF Shape
  <2>4. ProductOK(c)' /\ FoundOK(c)'
    <3>1. ProductOK(c)'
      BY <1>1, <2>a, <2>2 DEF ProductOK
    <3>2. sku' = sku
      BY <1>4 DEF tables
    <3>3. FoundOK(c)'
      BY <1>1, <1>f, <2>a, <2>2, <3>2 DEF FoundOK, OfFamily
    <3>. QED
      BY <3>1, <3>3
  <2>5. \A k \in Keys : HoldsKey(c, k)' => ~idem[k].live /\ (HoldsKey(c, k) \/ KeyIsFree(c, k))
    BY <1>1, <2>a, <2>2, SameKey
  <2>. QED
    BY <1>4, <2>1, <2>a, <2>2, <2>3, <2>4, <2>5, ReadStep
<1>5. CASE /\ n <= Len(q.skus) /\ ent # "denied"
           /\ txn' = [txn EXCEPT ![c].ents = Append(@, ent), ![c].n = @ + 1]
           /\ UNCHANGED <<tables, idem, ran>>
  <2>0. /\ ent \in Skus \cup {None} /\ (ent # None => OfFamily(ent, q.p))
        /\ ent = None => q.skus[n].ent = None
    <3>1. n \in 1..Len(q.skus) /\ q \in Requests /\ Resolve(q.skus[n], q) # "denied"
      BY <1>1, <1>2, <1>5
    <3>. QED
      BY <3>1, Resolved
  <2> HIDE DEF ent
  <2>1. /\ Append(ents, ent) \in Seq(Skus \cup {None}) /\ Len(Append(ents, ent)) = Len(ents) + 1
        /\ \A i \in 1..Len(ents) : Append(ents, ent)[i] = ents[i]
        /\ Append(ents, ent)[Len(ents) + 1] = ent
    BY <1>2, <2>0
  <2>2. v \in TxnRecord
    <3>1. n + 1 \in Nat \ {0} /\ txn[c] \in TxnRecord
      BY <1>1, <1>2
    <3>. QED
      BY <3>1, <2>1 DEF TxnRecord
  <2>a. txn' = [txn EXCEPT ![c] = v] /\ txn'[c] = v
    <3>1. txn \in [Procs -> TxnRecord]
      BY Parts
    <3>. QED
      BY <3>1, <1>5
  <2>3. /\ v.pc = "keys" /\ v.q = q /\ v.row = None /\ v.n = n + 1 /\ v.ents = Append(ents, ent)
        /\ \A s \in Skus : v.rows[s] = None /\ v.log[s] = <<>>
    BY <1>1 DEF TxnRecord
  <2> HIDE DEF v
  <2>4. Shape(c)'
    <3>1. ShapeOf(v)
      BY <1>1, <1>2, <1>5, <2>1, <2>3 DEF ShapeOf, Writing
    <3>. QED
      BY <2>a, <3>1 DEF Shape
  <2>5. ProductOK(c)'
    BY <2>a, <2>3 DEF ProductOK
  <2>6. FoundOK(c)'
    <3>1. sku' = sku
      BY <1>5 DEF tables
    <3>2. ASSUME NEW i \in 1..Len(v.ents)
          PROVE  /\ v.ents[i] # None => OfFamily(v.ents[i], q.p)
                 /\ v.ents[i] = None => q.skus[i].ent = None
      <4>1. CASE i \in 1..Len(ents)
        BY <1>1, <1>f, <2>1, <2>3, <4>1 DEF FoundOK
      <4>2. CASE i = Len(ents) + 1
        BY <1>1, <2>0, <2>1, <2>3, <4>2
      <4>. QED
        BY <1>2, <2>1, <2>3, <4>1, <4>2
    <3>. QED
      BY <2>a, <2>3, <3>1, <3>2 DEF FoundOK, OfFamily
  <2>7. \A k \in Keys : HoldsKey(c, k)' => ~idem[k].live /\ (HoldsKey(c, k) \/ KeyIsFree(c, k))
    BY <1>1, <2>a, <2>3, SameKey
  <2>. QED
    BY <1>5, <2>2, <2>a, <2>3, <2>4, <2>5, <2>6, <2>7, ReadStep
<1>. QED
  <2>1. n > Len(q.skus) \/ n <= Len(q.skus)
    BY <1>2
  <2>. QED
    BY <1>3, <1>4, <1>5, <2>1 DEF CheckKeys

\* What a save will write of its product is never that it is published.
LEMMA Judged ==
    ASSUME NEW q \in Requests, NEW seen \in ProductRow \cup {None}, NEW media
    PROVE  LET full == MergedFull(seen, q)
               row == [code |-> q.code, full |-> full, state |-> StateAfterSave(seen, full, media)]
           IN row \in ProductRow /\ row.state # "PUBLISHED"
<1>1. q.code \in Codes
  BY RequestFields
<1>2. MergedFull(seen, q) \in BOOLEAN
  BY DEF MergedFull, ProductRow
<1>3. StateAfterSave(seen, MergedFull(seen, q), media) \in {"READY", "DRAFT"}
  BY DEF StateAfterSave
<1>. QED
  BY <1>1, <1>2, <1>3 DEF ProductRow, States

LEMMA ReadFamilyInv ==
    ASSUME FamilyInv, NEW c \in Procs, ReadFamily(c)
    PROVE  FamilyInv'
<1> DEFINE q == txn[c].q
           seen == txn[c].seen
           media == IF q.op = "save" THEN MergedMedia(q.p, q) ELSE FamilyMedia(q.p)
           full == IF q.op = "save" THEN MergedFull(seen, q) ELSE seen.full
           row == IF q.op = "transition" THEN seen
                  ELSE [code |-> q.code, full |-> full,
                        state |-> StateAfterSave(seen, full, media)]
           t == [txn[c] EXCEPT !.pc = "write", !.seen = row]
<1>1. /\ txn[c] \in TxnRecord /\ txn[c].pc = "family" /\ q \in Requests
      /\ q.op # "rename"
      /\ q.op = "save" => ValidPayload(q) /\ Len(txn[c].ents) = Len(q.skus)
      /\ q.op # "save" => txn[c].ents = <<>>
      /\ txn[c].row = None /\ txn[c].n = 1
      /\ \A s \in Skus : txn[c].rows[s] = None /\ txn[c].log[s] = <<>>
  <2>1. Shape(c) /\ txn[c] \in TxnRecord /\ txn[c].pc = "family"
    BY Parts DEF ReadFamily
  <2>. QED
    BY <2>1 DEF Shape, ShapeOf, Writing
<1>2. /\ q.op \in {"save", "rename", "transition"} /\ Len(q.skus) \in Nat
      /\ seen \in ProductRow \cup {None} /\ Len(txn[c].ents) \in Nat
  BY <1>1, RequestFields DEF TxnRecord
<1>3. CASE Stop(c, "REJECTED")
  BY <1>1, <1>3, Stopped DEF Replies
<1>4. CASE /\ txn' = [txn EXCEPT ![c].pc = "write", ![c].seen = row]
           /\ UNCHANGED <<tables, idem, ran>>
  <2>1. row \in ProductRow \cup {None} /\ (q.op = "save" => row # None /\ row.state # "PUBLISHED")
        /\ (q.op # "save" => row = seen)
    <3>1. CASE q.op = "save"
      <4>1. row = [code |-> q.code, full |-> MergedFull(seen, q),
                   state |-> StateAfterSave(seen, MergedFull(seen, q), media)]
        BY <3>1
      <4> HIDE DEF row, media
      <4>2. row \in ProductRow /\ row.state # "PUBLISHED"
        BY <1>1, <1>2, <4>1, Judged
      <4>. QED
        BY <3>1, <4>2, Nones
    <3>2. CASE q.op # "save"
      BY <1>1, <1>2, <3>2
    <3>. QED
      BY <3>1, <3>2
  <2> HIDE DEF row
  <2>2. t \in TxnRecord
    <3>1. "write" \in Stages /\ txn[c] \in TxnRecord
      BY <1>1 DEF Stages
    <3>. QED
      BY <3>1, <2>1 DEF TxnRecord
  <2>3. txn' = [txn EXCEPT ![c] = t] /\ txn'[c] = t
    <3>1. txn \in [Procs -> TxnRecord]
      BY Parts
    <3>. QED
      BY <3>1, <1>4
  <2>4. /\ t.pc = "write" /\ t.q = q /\ t.row = None /\ t.n = 1 /\ t.ents = txn[c].ents
        /\ t.seen = row /\ \A s \in Skus : t.rows[s] = None /\ t.log[s] = <<>>
    BY <1>1 DEF TxnRecord
  <2> HIDE DEF t
  <2>5. Shape(c)'
    <3>1. ShapeOf(t)
      BY <1>1, <1>2, <2>4 DEF ShapeOf, Writing
    <3>. QED
      BY <2>3, <3>1 DEF Shape
  <2>6. ProductOK(c)'
    <3>1. prod' = prod /\ ProductOK(c)
      BY <1>4, Parts DEF tables
    <3>2. q.op # "save" => seen # None /\ prod[q.p] # None
      BY <1>1, <3>1 DEF ProductOK
    <3>. QED
      BY <1>1, <2>1, <2>3, <2>4, <3>1, <3>2 DEF ProductOK
  <2>7. FoundOK(c)'
    <3>1. sku' = sku /\ FoundOK(c)
      BY <1>4, Parts DEF tables
    <3>. QED
      BY <1>1, <2>3, <2>4, <3>1 DEF FoundOK, OfFamily
  <2>8. \A k \in Keys : HoldsKey(c, k)' => ~idem[k].live /\ (HoldsKey(c, k) \/ KeyIsFree(c, k))
    BY <1>1, <2>3, <2>4, SameKey
  <2>. QED
    BY <1>4, <2>2, <2>3, <2>4, <2>5, <2>6, <2>7, <2>8, ReadStep
<1>. QED
  BY <1>3, <1>4 DEF ReadFamily

-----------------------------------------------------------------------------
(* The writes of a transaction.                                              *)

LEMMA WriteProductInv ==
    ASSUME FamilyInv, NEW c \in Procs, WriteProduct(c)
    PROVE  FamilyInv'
<1> DEFINE q == txn[c].q
           row == Written(q, txn[c].seen)
           next == IF q.op = "save" /\ q.skus # <<>> THEN "skus" ELSE "commit"
           t == [txn[c] EXCEPT !.row = row, !.pc = next]
<1>1. /\ txn[c] \in TxnRecord /\ txn[c].pc = "write" /\ q \in Requests
      /\ q.op = "save" => ValidPayload(q) /\ Len(txn[c].ents) = Len(q.skus)
      /\ q.op # "save" => txn[c].ents = <<>>
      /\ txn[c].row = None /\ txn[c].n = 1
      /\ \A s \in Skus : txn[c].rows[s] = None /\ txn[c].log[s] = <<>>
  <2>1. Shape(c) /\ txn[c] \in TxnRecord /\ txn[c].pc = "write"
    BY Parts DEF WriteProduct
  <2>. QED
    BY <2>1 DEF Shape, ShapeOf, Writing
<1>2. CASE Stop(c, "REJECTED")
  BY <1>1, <1>2, Stopped DEF Replies
<1>3. CASE /\ txn' = [txn EXCEPT ![c].row = row, ![c].pc = next]
           /\ UNCHANGED <<tables, idem, ran>>
           /\ ProductIsFree(c, q.p) /\ CodeIsFree(c, row.code) /\ MayCarry(codeOwner[row.code], q.p)
  <2>1. /\ q.op \in {"save", "rename", "transition"} /\ q.skus \in Seq(SkuInput)
        /\ q.p \in Products /\ q.code \in Codes /\ q.target \in {"DRAFT", "READY"}
        /\ txn[c].seen \in ProductRow \cup {None}
        /\ txn[c].ents \in Seq(Skus \cup {None})
    BY <1>1, RequestFields DEF TxnRecord
  <2>2. row \in ProductRow /\ row.state # "PUBLISHED"
    <3>1. ProductOK(c) /\ prod \in [Products -> ProductRow \cup {None}]
      BY Parts DEF FamilyInv, FamilyTypes
    <3>2. CASE q.op = "save"
      BY <1>1, <2>1, <3>1, <3>2, Nones DEF ProductOK, Written
    <3>3. CASE q.op # "save"
      <4>1. txn[c].seen \in ProductRow /\ prod[q.p] \in ProductRow
        BY <1>1, <2>1, <3>1, <3>3 DEF ProductOK
      <4>2. CASE q.op = "rename"
        BY <2>1, <4>1, <4>2 DEF Written, ProductRow, States
      <4>3. CASE q.op = "transition"
        BY <2>1, <4>1, <4>3 DEF Written, ProductRow, States
      <4>. QED
        BY <2>1, <3>3, <4>2, <4>3
    <3>. QED
      BY <3>2, <3>3
  <2>3. codeOwner[row.code] \in {None, q.p}
    BY <1>3 DEF MayCarry
  <2> HIDE DEF row
  <2>4. t \in TxnRecord
    <3>1. next \in Stages
      BY DEF Stages
    <3> HIDE DEF next
    <3>. QED
      BY <1>1, <2>2, <3>1 DEF TxnRecord
  <2>5. txn' = [txn EXCEPT ![c] = t]
    BY <1>3
  <2>6. txn' \in [Procs -> TxnRecord] /\ txn'[c] = t /\ \A d \in Procs \ {c} : txn'[d] = txn[d]
    BY <2>4, <2>5, Parts
  <2>7. /\ t.pc = next /\ t.q = q /\ t.row = row /\ t.n = 1 /\ t.ents = txn[c].ents
        /\ \A s \in Skus : t.rows[s] = None /\ t.log[s] = <<>>
    BY <1>1 DEF TxnRecord
  <2>8. next \in {"skus", "commit"} /\ row # None
    BY <2>2, Nones
  <2>9. Shape(c)'
    <3>1. next = "skus" => q.op = "save" /\ Len(q.skus) >= 1
      BY <2>1
    <3>2. next = "commit" => Len(txn[c].ents) = 0
      BY <1>1, <2>1
    <3>3. Len(txn[c].ents) \in Nat /\ Len(q.skus) \in Nat
      BY <2>1
    <3> HIDE DEF next, t
    <3>4. ShapeOf(t)
      BY <1>1, <2>7, <2>8, <3>1, <3>2, <3>3 DEF ShapeOf, Writing
    <3>. QED
      BY <2>6, <3>4 DEF Shape
  <2> HIDE DEF next, t
  <2>10. ProductOK(c)'
    <3>1. codeOwner' = codeOwner
      BY <1>3 DEF tables
    <3>. QED
      BY <2>2, <2>3, <2>6, <2>7, <2>8, <3>1 DEF ProductOK
  <2>11. FoundOK(c)'
    <3>1. sku' = sku /\ FoundOK(c)
      BY <1>3, Parts DEF tables
    <3>. QED
      BY <1>1, <2>6, <2>7, <3>1 DEF FoundOK, OfFamily
  <2>12. WrittenOK(c)'
    BY <2>6, <2>7 DEF WrittenOK
  <2>13. PricedOK(c)'
    BY <2>6, <2>7, <2>8 DEF PricedOK
  <2>14. Acquired(c)
    <3>1. \A k \in Keys : HoldsKey(c, k)' => ~idem[k].live /\ (HoldsKey(c, k) \/ KeyIsFree(c, k))
      BY <1>1, <2>6, <2>7, SameKey
    <3>2. \A p \in Products : HoldsProduct(c, p)' => ProductIsFree(c, p)
      BY <1>3, <2>6, <2>7 DEF HoldsProduct
    <3>3. \A k \in Codes : HoldsCode(c, k)' => CodeIsFree(c, k)
      BY <1>3, <2>6, <2>7 DEF HoldsCode
    <3>4. \A k \in Sids : ~HoldsSid(c, k)'
      BY <2>6, <2>7 DEF HoldsSid
    <3>. QED
      BY <3>1, <3>2, <3>3, <3>4 DEF Acquired
  <2>. QED
    BY <1>3, <2>6, <2>9, <2>10, <2>11, <2>12, <2>13, <2>14, LocalStep DEF TxnOK
<1>. QED
  BY <1>2, <1>3 DEF WriteProduct

LEMMA ReadSkuInv ==
    ASSUME FamilyInv, NEW c \in Procs, ReadSku(c)
    PROVE  FamilyInv'
<1> DEFINE x == txn[c]
           ent == x.ents[x.n]
           old == IF ent = None THEN None ELSE IF x.rows[ent] # None THEN x.rows[ent] ELSE sku[ent]
           t == [x EXCEPT !.pc = "sku", !.old = old]
<1>1. x \in TxnRecord /\ x.pc = "skus" /\ Shape(c) /\ x.n <= Len(x.ents)
  <2>1. Shape(c) /\ txn[c] \in TxnRecord /\ txn[c].pc = "skus"
    BY Parts DEF ReadSku
  <2>. QED
    BY <2>1 DEF Shape, ShapeOf
<1>2. ent \in Skus \cup {None} /\ x.rows \in [Skus -> SkuRow \cup {None}]
  <2>1. x.ents \in Seq(Skus \cup {None}) /\ x.n \in Nat \ {0} /\ x.rows \in [Skus -> SkuRow \cup {None}]
    BY <1>1 DEF TxnRecord
  <2>. QED
    BY <1>1, <2>1
<1>3. old \in SkuRow \cup {None}
  BY <1>2 DEF FamilyInv, FamilyTypes
<1>4. txn' = [txn EXCEPT ![c] = t] /\ UNCHANGED <<tables, idem, ran>>
  BY DEF ReadSku
<1>5. t.old = IF ent = None THEN None ELSE IF x.rows[ent] # None THEN x.rows[ent] ELSE sku[ent]
  BY <1>1 DEF TxnRecord
<1> HIDE DEF old
<1>6. t \in TxnRecord
  <2>1. "sku" \in Stages
    BY DEF Stages
  <2>. QED
    BY <1>1, <1>3, <2>1 DEF TxnRecord
<1>7. txn' \in [Procs -> TxnRecord] /\ txn'[c] = t /\ \A d \in Procs \ {c} : txn'[d] = txn[d]
  BY <1>4, <1>6, Parts
<1>8. /\ t.pc = "sku" /\ t.q = x.q /\ t.row = x.row /\ t.n = x.n /\ t.ents = x.ents
      /\ t.rows = x.rows /\ t.log = x.log
  BY <1>1 DEF TxnRecord
<1> HIDE DEF t
<1>9. Shape(c)'
  <2>1. ShapeOf(t)
    BY <1>1, <1>8 DEF Shape, ShapeOf, Writing
  <2>. QED
    BY <1>7, <2>1 DEF Shape
<1>10. prod' = prod /\ sku' = sku /\ codeOwner' = codeOwner /\ sidOwner' = sidOwner /\ ledger' = ledger
  BY <1>4 DEF tables
<1>11. ProductOK(c)'
  BY <1>1, <1>7, <1>8, <1>10, Parts DEF ProductOK
<1>12. FoundOK(c)'
  <2>1. FoundOK(c)
    BY Parts
  <2>. QED
    BY <1>7, <1>8, <1>10, <2>1 DEF FoundOK, OfFamily
<1>13. WrittenOK(c)'
  <2>1. WrittenOK(c)
    BY Parts
  <2>. QED
    BY <1>7, <1>8, <1>10, <2>1 DEF WrittenOK, Wrote
<1>14. PricedOK(c)'
  <2>1. PricedOK(c)
    BY Parts
  <2>. QED
    BY <1>5, <1>7, <1>8, <1>10, <2>1 DEF PricedOK, History
<1>15. Acquired(c)
  <2>1. \A k \in Keys : HoldsKey(c, k)' => ~idem[k].live /\ (HoldsKey(c, k) \/ KeyIsFree(c, k))
    BY <1>1, <1>7, <1>8, SameKey
  <2>2. /\ \A p \in Products : HoldsProduct(c, p)' => HoldsProduct(c, p)
        /\ \A k \in Codes : HoldsCode(c, k)' => HoldsCode(c, k)
        /\ \A k \in Sids : HoldsSid(c, k)' => HoldsSid(c, k)
    BY <1>1, <1>7, <1>8, <1>10 DEF HoldsProduct, HoldsCode, HoldsSid
  <2>. QED
    BY <2>1, <2>2 DEF Acquired
<1>. QED
  BY <1>4, <1>7, <1>9, <1>11, <1>12, <1>13, <1>14, <1>15, LocalStep DEF TxnOK

\* A price history grows by a change of its last price.
LEMMA HistoryGrows ==
    ASSUME NEW l \in Seq(Entry), NEW old \in Stored, NEW new \in Stored, History(l, old),
           old # new \/ NoChange([old |-> old, new |-> new])
    PROVE  History(l \o <<[old |-> old, new |-> new]>>, new)
<1> DEFINE e == [old |-> old, new |-> new]
           m == l \o <<e>>
<1>1. e \in Entry /\ e.old = old /\ e.new = new /\ (e.old # e.new \/ NoChange(e))
  BY DEF Entry
<1> HIDE DEF e
<1>2. Len(l) \in Nat \ {0}
  BY DEF History
<1>3. /\ Len(m) = Len(l) + 1 /\ m \in Seq(Entry)
      /\ \A i \in 1..Len(l) : m[i] = l[i]
      /\ m[Len(l) + 1] = e
  BY <1>1
<1> HIDE DEF m
<1>4. m # <<>> /\ m[1].old = None /\ m[Len(m)].new = new
  BY <1>1, <1>2, <1>3 DEF History
<1>5. ASSUME NEW i \in 2..Len(m) PROVE m[i].old = m[i - 1].new /\ (m[i].old # m[i].new \/ NoChange(m[i]))
  <2>1. CASE i \in 2..Len(l)
    <3>1. m[i] = l[i] /\ m[i - 1] = l[i - 1]
      BY <1>2, <1>3, <2>1
    <3>. QED
      BY <2>1, <3>1 DEF History, Chained
  <2>2. CASE i = Len(l) + 1
    <3>1. m[i] = e /\ m[i - 1] = l[Len(l)]
      BY <1>2, <1>3, <2>2
    <3>. QED
      BY <1>1, <3>1 DEF History
  <2>. QED
    BY <1>2, <1>3, <2>1, <2>2
<1>6. History(m, new)
  BY <1>4, <1>5 DEF History, Chained
<1>. QED
  BY <1>6 DEF m, e

LEMMA HistoryStarts ==
    ASSUME NEW new \in Stored
    PROVE  History(<<[old |-> None, new |-> new]>>, new)
BY DEF History, Chained

\* A history ends in a price as it is stored.
LEMMA HistoryEnds ==
    ASSUME NEW l \in Seq(Entry), NEW price, History(l, price)
    PROVE  price \in Stored
<1>1. Len(l) \in 1..Len(l)
  BY DEF History
<1>2. l[Len(l)] \in Entry
  BY <1>1
<1>. QED
  BY <1>2 DEF History, Entry

\* The price history of a SKU after another of its rows was written in a transaction, with
\* the price of a field f: it is compared unrounded and written rounded.
LEMMA Priced ==
    ASSUME NEW l \in Seq(Entry), NEW log \in Seq(Entry), NEW before \in Stored \cup {None},
           NEW f \in AllFields, f.price \in Prices,
           IF before = None THEN l = <<>> /\ log = <<>> ELSE History(l \o log, before)
    PROVE  LET new == Rounded[f.price]
               more == IF before = f.price THEN <<>> ELSE <<[old |-> before, new |-> new]>>
           IN  log \o more \in Seq(Entry) /\ History(l \o (log \o more), new)
<1> DEFINE new == Rounded[f.price]
           e == [old |-> before, new |-> new]
<1>1. new \in Stored /\ e \in Entry
  BY DEF Entry, Stored
<1>2. CASE before = None
  <2>1. before # f.price /\ l = <<>> /\ log = <<>>
    BY <1>2, Nones
  <2>2. History(<<e>>, new)
    BY <1>1, <1>2, HistoryStarts
  <2> HIDE DEF e, new
  <2>3. log \o <<e>> = <<e>> /\ l \o <<e>> = <<e>> /\ <<e>> \in Seq(Entry)
    BY <1>1, <2>1
  <2>4. log \o <<e>> \in Seq(Entry) /\ History(l \o (log \o <<e>>), new)
    BY <2>2, <2>3
  <2>. QED
    BY <2>1, <2>4 DEF e, new
<1>3. CASE before # None /\ before = f.price
  <2>1. log \o <<>> = log
    OBVIOUS
  <2>2. new = before
    BY <1>3, CatalogAssumption DEF Stored
  <2>. QED
    BY <1>3, <2>1, <2>2
<1>4. CASE before # None /\ before # f.price
  <2>1. before \in Stored /\ History(l \o log, before) /\ l \o log \in Seq(Entry)
    BY <1>4
  <2>2. before # new \/ NoChange(e)
    BY <1>4 DEF NoChange
  <2> HIDE DEF new
  <2>3. History((l \o log) \o <<e>>, new)
    BY <1>1, <2>1, <2>2, HistoryGrows
  <2> HIDE DEF e
  <2>4. (l \o log) \o <<e>> = l \o (log \o <<e>>) /\ log \o <<e>> \in Seq(Entry)
    <3>1. <<e>> \in Seq(Entry)
      BY <1>1
    <3>. QED
      BY <3>1, ConcatAssociative, ConcatProperties
  <2>5. log \o <<e>> \in Seq(Entry) /\ History(l \o (log \o <<e>>), new)
    BY <2>3, <2>4
  <2>. QED
    BY <1>4, <2>5 DEF e, new
<1>. QED
  BY <1>2, <1>3, <1>4

\* The SKU at hand, in a transaction whose next statement is its write and may succeed.
LEMMA AtHand ==
    ASSUME FamilyInv, NEW c \in Procs, txn[c].pc = "sku"
    PROVE  LET t == txn[c] IN
           /\ t \in TxnRecord /\ t.q \in Requests /\ t.row # None /\ t.q.op = "save"
           /\ ValidPayload(t.q) /\ Len(t.ents) = Len(t.q.skus) /\ t.n \in 1..Len(t.ents)
           /\ t.ents \in Seq(Skus \cup {None}) /\ t.rows \in [Skus -> SkuRow \cup {None}]
           /\ t.log \in [Skus -> Seq(Entry)] /\ t.ents[t.n] \in Skus \cup {None}
           /\ t.q.p \in Products
           /\ t.q.skus[t.n] \in SkuInput /\ t.q.skus[t.n] \in AllFields
           /\ t.ents[t.n] # None => OfFamily(t.ents[t.n], t.q.p)
           /\ t.ents[t.n] = None => t.q.skus[t.n].ent = None
           /\ t.old = IF t.ents[t.n] = None THEN None
                      ELSE IF t.rows[t.ents[t.n]] # None THEN t.rows[t.ents[t.n]]
                      ELSE sku[t.ents[t.n]]
<1> DEFINE t == txn[c]
<1>1. t \in TxnRecord /\ Shape(c) /\ FoundOK(c) /\ PricedOK(c)
  BY Parts
<1>2. /\ t.q \in Requests /\ t.row # None /\ t.q.op = "save" /\ ValidPayload(t.q)
      /\ Len(t.ents) = Len(t.q.skus) /\ t.n <= Len(t.ents)
  BY <1>1 DEF Shape, ShapeOf, Writing
<1>3. /\ t.ents \in Seq(Skus \cup {None}) /\ t.rows \in [Skus -> SkuRow \cup {None}]
      /\ t.log \in [Skus -> Seq(Entry)] /\ t.n \in Nat \ {0}
  BY <1>1 DEF TxnRecord
<1>4. t.n \in 1..Len(t.ents) /\ t.ents[t.n] \in Skus \cup {None}
  BY <1>2, <1>3
<1>5. t.q.p \in Products /\ t.q.skus[t.n] \in SkuInput /\ t.q.skus[t.n] \in AllFields
  BY <1>2, <1>4, RequestFields
<1>6. /\ t.ents[t.n] # None => OfFamily(t.ents[t.n], t.q.p)
      /\ t.ents[t.n] = None => t.q.skus[t.n].ent = None
  BY <1>1, <1>3, <1>4 DEF FoundOK
<1>7. t.old = IF t.ents[t.n] = None THEN None
              ELSE IF t.rows[t.ents[t.n]] # None THEN t.rows[t.ents[t.n]]
              ELSE sku[t.ents[t.n]]
  BY <1>1 DEF PricedOK
<1>. QED
  BY <1>1, <1>2, <1>3, <1>4, <1>5, <1>6, <1>7

\* A SKU that is inserted is new to the table and to the transaction.
LEMMA Inserted ==
    ASSUME FamilyInv, NEW c \in Procs, txn[c].pc = "sku",
           txn[c].ents[txn[c].n] = None, sidOwner[txn[c].q.skus[txn[c].n].sid] = None
    PROVE  LET s == txn[c].q.skus[txn[c].n].fresh IN
           s \in Skus /\ sku[s] = None /\ txn[c].rows[s] = None
<1> DEFINE t == txn[c]
           f == t.q.skus[t.n]
           s == f.fresh
<1>1. /\ f \in SkuInput /\ f \in AllFields /\ f.ent = None /\ t.q \in Requests
      /\ ValidPayload(t.q) /\ t.n \in 1..Len(t.ents) /\ Len(t.ents) = Len(t.q.skus)
      /\ t.ents \in Seq(Skus \cup {None})
  BY AtHand
<1>2. s \in Skus /\ f \in NewFields
  BY <1>1 DEF SkuInput, NewFields
<1>3. sku[s] = None
  BY <1>2 DEF FamilyInv, Reserved
<1>4. ASSUME t.rows[s] # None PROVE FALSE
  <2>1. WrittenOK(c)
    BY Parts
  <2>2. PICK i \in 1..Len(t.ents) : i < t.n /\ t.q.skus[i].ent = None /\ t.q.skus[i].fresh = s
    BY <1>2, <1>3, <1>4, <2>1 DEF WrittenOK, Wrote
  <2>3. i \in 1..Len(t.q.skus)
    BY <1>1
  <2>4. t.q.skus[i] \in NewFields
    BY <1>1, <2>2, <2>3, RequestFields DEF NewFields
  <2>5. t.q.skus[i].sid = f.sid
    BY <1>2, <2>2, <2>4, EntityAssumption
  <2>6. i = t.n
    <3>1. i \in DOMAIN t.q.skus /\ t.n \in DOMAIN t.q.skus
      <4>1. t.q.skus \in Seq(SkuInput)
        BY <1>1, RequestFields
      <4>. QED
        BY <1>1, <2>3, <4>1
    <3>. QED
      BY <1>1, <2>5, <3>1 DEF ValidPayload
  <2>. QED
    BY <1>1, <2>2, <2>6
<1>. QED
  BY <1>2, <1>3, <1>4

WriteOf(t) ==
    LET f == t.q.skus[t.n] IN
    [ent |-> IF t.ents[t.n] = None THEN f.fresh ELSE t.ents[t.n],
     row |-> IF t.old # None
             THEN [t.old EXCEPT !.sid = f.sid, !.price = Rounded[f.price], !.media = f.media \/ @]
             ELSE [prod |-> t.q.p, sid |-> f.sid, price |-> Rounded[f.price], media |-> f.media],
     before |-> IF t.old = None THEN None ELSE t.old.price]

\* What is written of a SKU: a row of the family, and what its history says so far.
LEMMA RowToWrite ==
    ASSUME FamilyInv, NEW c \in Procs, txn[c].pc = "sku",
           ~(txn[c].ents[txn[c].n] = None /\ sidOwner[txn[c].q.skus[txn[c].n].sid] # None)
    PROVE  LET t == txn[c]
               f == t.q.skus[t.n]
               w == WriteOf(t)
           IN
           /\ w.ent \in Skus
           /\ w.row \in SkuRow /\ w.row.prod = t.q.p /\ w.row.sid = f.sid /\ w.row.price = Rounded[f.price]
           /\ w.before \in Stored \cup {None}
           /\ IF w.before = None THEN ledger[w.ent] = <<>> /\ t.log[w.ent] = <<>>
              ELSE History(ledger[w.ent] \o t.log[w.ent], w.before)
           /\ sku[w.ent] # None => sku[w.ent].prod = t.q.p
           /\ sku[w.ent] = None => f.ent = None /\ f.fresh = w.ent
<1> DEFINE t == txn[c]
           f == t.q.skus[t.n]
           w == WriteOf(t)
<1>1. /\ t.q \in Requests /\ t.row # None /\ f \in SkuInput /\ t.q.p \in Products
      /\ t.ents[t.n] \in Skus \cup {None}
      /\ t.rows \in [Skus -> SkuRow \cup {None}] /\ t.log \in [Skus -> Seq(Entry)]
      /\ t.ents[t.n] # None => OfFamily(t.ents[t.n], t.q.p)
      /\ t.ents[t.n] = None => f.ent = None
      /\ t.old = IF t.ents[t.n] = None THEN None
                 ELSE IF t.rows[t.ents[t.n]] # None THEN t.rows[t.ents[t.n]]
                 ELSE sku[t.ents[t.n]]
  BY AtHand
<1>2. f.sid \in Sids /\ Rounded[f.price] \in Prices /\ f.media \in BOOLEAN
  BY <1>1, CatalogAssumption DEF SkuInput
<1>3. sku \in [Skus -> SkuRow \cup {None}] /\ ledger \in [Skus -> Seq(Entry)] /\ Ledgers
  BY DEF FamilyInv, FamilyTypes
<1>4. WrittenOK(c) /\ PricedOK(c)
  BY Parts
<1>5. CASE t.ents[t.n] = None
  <2>1. f.fresh \in Skus /\ sku[f.fresh] = None /\ t.rows[f.fresh] = None
    BY <1>5, Inserted
  <2>2. w.ent = f.fresh /\ w.before = None
        /\ w.row = [prod |-> t.q.p, sid |-> f.sid, price |-> Rounded[f.price], media |-> f.media]
    BY <1>1, <1>5 DEF WriteOf
  <2>3. w.row \in SkuRow /\ w.row.prod = t.q.p /\ w.row.sid = f.sid /\ w.row.price = Rounded[f.price]
    BY <1>1, <1>2, <2>2 DEF SkuRow
  <2>4. ledger[f.fresh] = <<>> /\ t.log[f.fresh] = <<>>
    BY <1>3, <1>4, <2>1 DEF Ledgers, PricedOK
  <2>. QED
    BY <1>1, <1>5, <2>1, <2>2, <2>3, <2>4
<1>6. CASE t.ents[t.n] # None
  <2> DEFINE s == t.ents[t.n]
  <2>1. s \in Skus /\ OfFamily(s, t.q.p)
    BY <1>1, <1>6
  <2>2. t.old = IF t.rows[s] # None THEN t.rows[s] ELSE sku[s]
    BY <1>1, <1>6
  <2>3. t.old \in SkuRow /\ t.old.prod = t.q.p
    <3>1. CASE t.rows[s] # None
      <4>1. t.rows[s] \in SkuRow
        BY <1>1, <2>1, <3>1
      <4>2. t.rows[s].prod = t.q.p
        BY <1>4, <2>1, <3>1 DEF WrittenOK
      <4>. QED
        BY <2>2, <3>1, <4>1, <4>2
    <3>2. CASE t.rows[s] = None
      BY <1>3, <2>1, <2>2, <3>2 DEF OfFamily
    <3>. QED
      BY <3>1, <3>2
  <2>4. t.old # None
    BY <2>3, Nones
  <2>5. /\ w.ent = s /\ w.before = t.old.price
        /\ w.row = [t.old EXCEPT !.sid = f.sid, !.price = Rounded[f.price], !.media = f.media \/ @]
    BY <1>6, <2>4 DEF WriteOf
  <2>6. w.row \in SkuRow /\ w.row.prod = t.q.p /\ w.row.sid = f.sid /\ w.row.price = Rounded[f.price]
    BY <1>2, <2>3, <2>5 DEF SkuRow
  <2>7. w.before # None
    BY <2>3, <2>5, Nones DEF SkuRow
  <2>8. History(ledger[s] \o t.log[s], t.old.price)
    <3>1. CASE t.rows[s] # None
      BY <1>4, <2>1, <2>2, <3>1 DEF PricedOK
    <3>2. CASE t.rows[s] = None
      <4>1. sku[s] # None /\ t.old = sku[s] /\ t.log[s] = <<>>
        BY <1>4, <2>1, <2>2, <3>2 DEF PricedOK, OfFamily
      <4>2. History(ledger[s], sku[s].price)
        BY <1>3, <2>1, <4>1 DEF Ledgers
      <4>3. ledger[s] \o <<>> = ledger[s]
        BY <1>3, <2>1
      <4>. QED
        BY <4>1, <4>2, <4>3
    <3>. QED
      BY <3>1, <3>2
  <2>9. sku[s] # None /\ sku[s].prod = t.q.p
    BY <2>1 DEF OfFamily
  <2>10. ledger[s] \o t.log[s] \in Seq(Entry)
    <3>1. ledger[s] \in Seq(Entry) /\ t.log[s] \in Seq(Entry)
      BY <1>1, <1>3, <2>1
    <3>. QED
      BY <3>1
  <2> HIDE DEF s
  <2>11. t.old.price \in Stored
    BY <2>8, <2>10, HistoryEnds
  <2>. QED
    BY <2>1, <2>5, <2>6, <2>7, <2>8, <2>9, <2>11
<1>. QED
  BY <1>5, <1>6

\* What a write that is not refused makes of its transaction.
LEMMA SkuWritten ==
    ASSUME FamilyInv, NEW c \in Procs, WriteSku(c), ~Stop(c, "REJECTED")
    PROVE  LET x == txn[c]
               t == txn'[c]
               f == x.q.skus[x.n]
               w == WriteOf(x)
               more == IF w.before = f.price THEN <<>>
                       ELSE <<[old |-> w.before, new |-> Rounded[f.price]]>>
           IN
           /\ ~(x.ents[x.n] = None /\ sidOwner[f.sid] # None)
           /\ sidOwner[f.sid] \in {None, w.ent} /\ SidIsFree(c, f.sid)
           /\ UNCHANGED <<tables, idem, ran>>
           /\ txn' \in [Procs -> TxnRecord] /\ \A d \in Procs \ {c} : txn'[d] = txn[d]
           /\ t.pc = IF x.n = Len(x.q.skus) THEN "commit" ELSE "skus"
           /\ t.q = x.q /\ t.row = x.row /\ t.n = x.n + 1
           /\ Len(t.ents) = Len(x.ents)
           /\ \A i \in 1..Len(x.ents) : t.ents[i] = IF i = x.n THEN w.ent ELSE x.ents[i]
           /\ t.rows[w.ent] = w.row /\ t.log[w.ent] = x.log[w.ent] \o more
           /\ \A e \in Skus \ {w.ent} : t.rows[e] = x.rows[e] /\ t.log[e] = x.log[e]
           /\ x.log[w.ent] \o more \in Seq(Entry)
           /\ History(ledger[w.ent] \o (x.log[w.ent] \o more), Rounded[f.price])
<1> DEFINE x == txn[c]
           n == x.n
           q == x.q
           f == q.skus[n]
           w == WriteOf(x)
           s == w.ent
           more == IF w.before = f.price THEN <<>>
                       ELSE <<[old |-> w.before, new |-> Rounded[f.price]]>>
           next == IF n = Len(q.skus) THEN "commit" ELSE "skus"
           t == [x EXCEPT !.rows[s] = w.row, !.log[s] = @ \o more, !.ents[n] = s,
                          !.n = @ + 1, !.old = None, !.pc = next]
<1>0. x.pc = "sku"
  BY DEF WriteSku
<1>1. /\ x \in TxnRecord /\ q \in Requests /\ x.row # None /\ q.op = "save"
      /\ ValidPayload(q) /\ Len(x.ents) = Len(q.skus) /\ n \in 1..Len(x.ents)
      /\ x.ents \in Seq(Skus \cup {None}) /\ x.rows \in [Skus -> SkuRow \cup {None}]
      /\ x.log \in [Skus -> Seq(Entry)] /\ f \in SkuInput /\ q.p \in Products
      /\ f \in AllFields /\ (x.ents[n] = None => x.old = None)
  BY <1>0, AtHand
<1>3. /\ txn' = [txn EXCEPT ![c].rows[s] = w.row, ![c].log[s] = @ \o more,
                         ![c].ents[n] = s, ![c].n = @ + 1, ![c].old = None, ![c].pc = next]
      /\ UNCHANGED <<tables, idem, ran>>
      /\ SidIsFree(c, f.sid)
      /\ ~(x.ents[n] = None /\ sidOwner[f.sid] # None)
      /\ MayCarry(sidOwner[f.sid], s)
  BY <1>1 DEF WriteSku, WriteOf, EntityAtHand
<1>4. /\ s \in Skus
      /\ w.row \in SkuRow /\ w.row.prod = q.p /\ w.row.sid = f.sid /\ w.row.price = Rounded[f.price]
      /\ w.before \in Stored \cup {None}
      /\ IF w.before = None THEN ledger[s] = <<>> /\ x.log[s] = <<>>
         ELSE History(ledger[s] \o x.log[s], w.before)
      /\ sku[s] # None => sku[s].prod = q.p
      /\ sku[s] = None => f.ent = None /\ f.fresh = s
  BY <1>0, <1>3, RowToWrite
<1>5. w.row # None /\ s # None
  BY <1>4, Nones
<1>6. sidOwner[f.sid] \in {None, s}
  BY <1>3 DEF MayCarry
<1> HIDE DEF w
<1>7. /\ f.price \in Prices /\ ledger[s] \in Seq(Entry) /\ x.log[s] \in Seq(Entry)
      /\ Len(x.ents) \in Nat /\ n \in Nat \ {0} /\ n <= Len(x.ents)
  <2>1. ledger \in [Skus -> Seq(Entry)]
    BY DEF FamilyInv, FamilyTypes
  <2>2. f.price \in Prices
    BY <1>1 DEF SkuInput
  <2>. QED
    BY <1>1, <1>4, <2>1, <2>2
<1>8. x.log[s] \o more \in Seq(Entry) /\ History(ledger[s] \o (x.log[s] \o more), Rounded[f.price])
  <2>1. /\ f \in AllFields /\ w.before \in Stored \cup {None}
        /\ IF w.before = None THEN ledger[s] = <<>> /\ x.log[s] = <<>>
           ELSE History(ledger[s] \o x.log[s], w.before)
    BY <1>1, <1>4
  <2> HIDE DEF f, s
  <2>. QED
    BY <1>7, <2>1, Priced
<1> HIDE DEF more
<1>9. next \in {"commit", "skus"} /\ next \in Stages
  BY DEF Stages
<1>10. /\ t.pc = next /\ t.q = q /\ t.row = x.row /\ t.n = n + 1
       /\ t.ents = [x.ents EXCEPT ![n] = s]
       /\ t.rows = [x.rows EXCEPT ![s] = w.row]
       /\ t.log = [x.log EXCEPT ![s] = x.log[s] \o more]
  BY <1>1, <1>4 DEF TxnRecord
<1>11. /\ t.ents \in Seq(Skus \cup {None}) /\ Len(t.ents) = Len(x.ents)
       /\ \A i \in 1..Len(x.ents) : t.ents[i] = IF i = n THEN s ELSE x.ents[i]
  <2>1. /\ [x.ents EXCEPT ![n] = s] \in Seq(Skus \cup {None})
        /\ Len([x.ents EXCEPT ![n] = s]) = Len(x.ents)
        /\ \A i \in 1..Len(x.ents) : [x.ents EXCEPT ![n] = s][i] = IF i = n THEN s ELSE x.ents[i]
    BY <1>1, <1>4, ExceptSeq
  <2>. QED
    BY <1>10, <2>1
<1>12. /\ t.rows \in [Skus -> SkuRow \cup {None}] /\ t.log \in [Skus -> Seq(Entry)]
       /\ t.rows[s] = w.row /\ t.log[s] = x.log[s] \o more
       /\ \A e \in Skus \ {s} : t.rows[e] = x.rows[e] /\ t.log[e] = x.log[e]
  <2>1. w.row \in SkuRow \cup {None} /\ s \in Skus /\ x.rows \in [Skus -> SkuRow \cup {None}]
    BY <1>1, <1>4
  <2>2. x.log \in [Skus -> Seq(Entry)] /\ x.log[s] \o more \in Seq(Entry)
    BY <1>1, <1>8
  <2>3. t.rows = [x.rows EXCEPT ![s] = w.row] /\ t.log = [x.log EXCEPT ![s] = x.log[s] \o more]
    BY <1>10
  <2> HIDE DEF t, s
  <2>. QED
    BY <2>1, <2>2, <2>3
<1>13. t \in TxnRecord
  <2>1. n + 1 \in Nat \ {0} /\ [x.ents EXCEPT ![n] = s] \in Seq(Skus \cup {None})
        /\ [x.rows EXCEPT ![s] = w.row] \in [Skus -> SkuRow \cup {None}]
        /\ [x.log EXCEPT ![s] = x.log[s] \o more] \in [Skus -> Seq(Entry)]
    BY <1>7, <1>10, <1>11, <1>12
  <2>2. t = [x EXCEPT !.rows = [x.rows EXCEPT ![s] = w.row],
                      !.log = [x.log EXCEPT ![s] = x.log[s] \o more],
                      !.ents = [x.ents EXCEPT ![n] = s],
                      !.n = n + 1, !.old = None, !.pc = next]
    BY <1>1 DEF TxnRecord
  <2> HIDE DEF t, next
  <2>. QED
    BY <1>1, <1>9, <2>1, <2>2 DEF TxnRecord
<1>14. txn' = [txn EXCEPT ![c] = t]
  <2>1. txn \in [Procs -> TxnRecord]
    BY Parts
  <2>2. txn'[c] = t
    BY <1>3, <2>1
  <2>3. \A d \in Procs \ {c} : txn'[d] = txn[d]
    BY <1>3, <2>1
  <2>4. txn' = [d \in Procs |-> txn'[d]]
    BY <1>3, <2>1
  <2> HIDE DEF t
  <2>. QED
    BY <2>1, <2>2, <2>3, <2>4
<1>15. txn' \in [Procs -> TxnRecord] /\ txn'[c] = t /\ \A d \in Procs \ {c} : txn'[d] = txn[d]
  BY <1>13, <1>14, Parts
<1>16. /\ t.pc = IF n = Len(q.skus) THEN "commit" ELSE "skus"
       /\ t.q = q /\ t.row = x.row /\ t.n = n + 1
  BY <1>10
<1> HIDE DEF t
<1>. QED
  BY <1>3, <1>6, <1>8, <1>11, <1>12, <1>15, <1>16 DEF w, more

LEMMA WriteSkuInv ==
    ASSUME FamilyInv, NEW c \in Procs, WriteSku(c)
    PROVE  FamilyInv'
<1> DEFINE x == txn[c]
           n == x.n
           q == x.q
           f == q.skus[n]
           w == WriteOf(x)
           s == w.ent
           more == IF w.before = f.price THEN <<>>
                       ELSE <<[old |-> w.before, new |-> Rounded[f.price]]>>
           next == IF n = Len(q.skus) THEN "commit" ELSE "skus"
           t == txn'[c]
<1>0. x.pc = "sku"
  BY DEF WriteSku
<1>1. /\ x \in TxnRecord /\ q \in Requests /\ x.row # None /\ q.op = "save"
      /\ ValidPayload(q) /\ Len(x.ents) = Len(q.skus) /\ n \in 1..Len(x.ents)
      /\ x.ents \in Seq(Skus \cup {None}) /\ x.rows \in [Skus -> SkuRow \cup {None}]
      /\ x.log \in [Skus -> Seq(Entry)] /\ f \in SkuInput /\ q.p \in Products
  BY <1>0, AtHand
<1>2. CASE Stop(c, "REJECTED")
  BY <1>0, <1>2, Stopped DEF Replies
<1>3. CASE ~Stop(c, "REJECTED")
  <2>0. /\ ~(x.ents[n] = None /\ sidOwner[f.sid] # None)
        /\ SidIsFree(c, f.sid) /\ UNCHANGED <<tables, idem, ran>>
    BY <1>3, SkuWritten
  <2>1. /\ s \in Skus
        /\ w.row \in SkuRow /\ w.row.prod = q.p /\ w.row.sid = f.sid /\ w.row.price = Rounded[f.price]
        /\ sku[s] # None => sku[s].prod = q.p
        /\ sku[s] = None => f.ent = None /\ f.fresh = s
    BY <1>0, <2>0, RowToWrite
  <2>2. w.row # None /\ s # None
    BY <2>1, Nones
  <2>3. sidOwner[f.sid] \in {None, s}
    BY <1>3, SkuWritten
  <2>4. Len(x.ents) \in Nat /\ n \in Nat \ {0} /\ n <= Len(x.ents)
    BY <1>1
  <2>5. History(ledger[s] \o (x.log[s] \o more), Rounded[f.price])
    BY <1>3, SkuWritten
  <2>6. next \in {"commit", "skus"}
    OBVIOUS
  <2>7. t.pc = next /\ t.q = q /\ t.row = x.row /\ t.n = n + 1
    BY <1>3, SkuWritten
  <2>8. /\ Len(t.ents) = Len(x.ents)
        /\ \A i \in 1..Len(x.ents) : t.ents[i] = IF i = n THEN s ELSE x.ents[i]
    BY <1>3, SkuWritten
  <2>9. /\ t.rows[s] = w.row /\ t.log[s] = x.log[s] \o more
        /\ \A e \in Skus \ {s} : t.rows[e] = x.rows[e] /\ t.log[e] = x.log[e]
    BY <1>3, SkuWritten
  <2>10. /\ txn' \in [Procs -> TxnRecord] /\ txn'[c] = t
         /\ \A d \in Procs \ {c} : txn'[d] = txn[d]
    BY <1>3, SkuWritten
  <2> HIDE DEF w, more, t
  <2>11. prod' = prod /\ sku' = sku /\ codeOwner' = codeOwner /\ sidOwner' = sidOwner
         /\ ledger' = ledger
    BY <2>0 DEF tables
  <2>12. Shape(c)'
    <3>1. ShapeOf(t)
      <4>1. /\ t.pc = next /\ t.q = q /\ t.row = x.row /\ t.n = n + 1
            /\ Len(t.ents) = Len(x.ents)
        BY <2>7, <2>8
      <4>2. /\ next = "skus" => n + 1 <= Len(x.ents)
            /\ next = "commit" => n = Len(x.ents)
        BY <1>1, <2>4
      <4>3. /\ q \in Requests /\ x.row # None /\ q.op = "save" /\ ValidPayload(q)
            /\ Len(x.ents) = Len(q.skus) /\ Len(x.ents) \in Nat
            /\ n \in Nat \ {0} /\ n <= Len(x.ents) /\ next \in {"commit", "skus"}
        BY <1>1, <2>4, <2>6
      <4> HIDE DEF next
      <4>. QED
        BY <4>1, <4>2, <4>3 DEF ShapeOf, Writing
    <3>. QED
      BY <2>10, <3>1 DEF Shape
  <2>13. ProductOK(c)'
    <3>1. ProductOK(c)
      BY Parts
    <3>. QED
      BY <1>1, <2>6, <2>7, <2>10, <2>11, <3>1 DEF ProductOK
  <2> HIDE DEF next
  <2>14. FoundOK(c)'
    <3>1. FoundOK(c)
      BY Parts
    <3>2. ASSUME NEW i \in 1..Len(t.ents)
          PROVE  /\ t.ents[i] # None /\ (t.row = None \/ t.n <= i) => OfFamily(t.ents[i], q.p)
                 /\ t.ents[i] = None => q.skus[i].ent = None
      <4>1. CASE i = n
        BY <1>1, <2>2, <2>4, <2>7, <2>8, <4>1
      <4>2. CASE i # n
        <5>1. t.ents[i] = x.ents[i] /\ (t.n <= i => n <= i) /\ i \in 1..Len(x.ents)
          BY <2>4, <2>7, <2>8, <4>2
        <5>. QED
          BY <1>1, <2>7, <3>1, <5>1 DEF FoundOK
      <4>. QED
        BY <4>1, <4>2
    <3>. QED
      BY <2>7, <2>10, <2>11, <3>2 DEF FoundOK, OfFamily
  <2>15. WrittenOK(c)'
    <3>1. WrittenOK(c)
      BY Parts
    <3>2. ASSUME NEW i \in 1..Len(t.ents), i < t.n
          PROVE  /\ t.ents[i] # None /\ t.rows[t.ents[i]] # None
                 /\ sidOwner[q.skus[i].sid] \in {None, t.ents[i]}
      <4>1. CASE i = n
        BY <2>2, <2>3, <2>4, <2>8, <2>9, <4>1
      <4>2. CASE i # n
        <5>1. t.ents[i] = x.ents[i] /\ i < n /\ i \in 1..Len(x.ents)
          BY <2>4, <2>7, <2>8, <3>2, <4>2
        <5>2. /\ x.ents[i] # None /\ x.rows[x.ents[i]] # None
              /\ sidOwner[q.skus[i].sid] \in {None, x.ents[i]}
          BY <1>1, <3>1, <5>1 DEF WrittenOK
        <5>3. x.ents[i] \in Skus
          BY <1>1, <5>1, <5>2
        <5>. QED
          BY <2>2, <2>9, <5>1, <5>2, <5>3
      <4>. QED
        BY <4>1, <4>2
    <3>3. ASSUME NEW e \in Skus, t.rows[e] # None
          PROVE  /\ t.rows[e].prod = q.p
                 /\ \E i \in 1..Len(t.ents) : Wrote(t, i, e) /\ q.skus[i].sid = t.rows[e].sid
                 /\ sku[e] # None => sku[e].prod = q.p
                 /\ sku[e] = None => \E i \in 1..Len(t.ents) :
                      Wrote(t, i, e) /\ q.skus[i].ent = None /\ q.skus[i].fresh = e
      <4>1. CASE e = s
        <5>1. n \in 1..Len(t.ents) /\ Wrote(t, n, e)
          BY <2>4, <2>7, <2>8, <4>1 DEF Wrote
        <5>. QED
          BY <2>1, <2>9, <4>1, <5>1
      <4>2. CASE e # s
        <5>1. t.rows[e] = x.rows[e]
          BY <2>9, <4>2
        <5>2. /\ x.rows[e].prod = q.p
              /\ \E i \in 1..Len(x.ents) : Wrote(x, i, e) /\ q.skus[i].sid = x.rows[e].sid
              /\ sku[e] # None => sku[e].prod = q.p
              /\ sku[e] = None => \E i \in 1..Len(x.ents) :
                   Wrote(x, i, e) /\ q.skus[i].ent = None /\ q.skus[i].fresh = e
          BY <3>1, <3>3, <5>1 DEF WrittenOK
        <5>3. ASSUME NEW i \in 1..Len(x.ents), Wrote(x, i, e)
              PROVE  i \in 1..Len(t.ents) /\ Wrote(t, i, e)
          BY <2>4, <2>7, <2>8, <5>3 DEF Wrote
        <5>. QED
          BY <5>1, <5>2, <5>3
      <4>. QED
        BY <4>1, <4>2
    <3>4. sku' = sku /\ sidOwner' = sidOwner
      BY <2>11
    <3>5. txn'[c] = t /\ t.q = q
      BY <2>7, <2>10
    <3>. QED
      BY <3>2, <3>3, <3>4, <3>5 DEF WrittenOK
  <2>16. PricedOK(c)'
    <3>1. PricedOK(c)
      BY Parts
    <3>2. ASSUME NEW e \in Skus
          PROVE  IF t.rows[e] = None THEN t.log[e] = <<>>
                 ELSE History(ledger[e] \o t.log[e], t.rows[e].price)
      <4>1. CASE e = s
        BY <2>1, <2>2, <2>5, <2>9, <4>1
      <4>2. CASE e # s
        BY <2>9, <3>1, <4>2 DEF PricedOK
      <4>. QED
        BY <4>1, <4>2
    <3>3. t.pc # "sku"
      BY <2>6, <2>7
    <3>. QED
      BY <2>10, <2>11, <3>2, <3>3 DEF PricedOK, History
  <2>17. Acquired(c)
    <3>1. \A k \in Keys : HoldsKey(c, k)' => ~idem[k].live /\ (HoldsKey(c, k) \/ KeyIsFree(c, k))
      BY <1>0, <2>7, <2>10, SameKey
    <3>2. /\ \A p \in Products : HoldsProduct(c, p)' => HoldsProduct(c, p)
          /\ \A k \in Codes : HoldsCode(c, k)' => HoldsCode(c, k)
      BY <1>0, <2>7, <2>10, <2>11 DEF HoldsProduct, HoldsCode
    <3>3. ASSUME NEW k \in Sids, HoldsSid(c, k)' PROVE HoldsSid(c, k) \/ SidIsFree(c, k)
      <4>1. /\ sidOwner[k] = None
            /\ \E i \in 1..(t.n - 1) : q.skus[i].sid = k
        BY <2>7, <2>10, <2>11, <3>3 DEF HoldsSid
      <4>2. PICK i \in 1..n : q.skus[i].sid = k
        BY <2>4, <2>7, <4>1
      <4>3. CASE i = n
        BY <2>0, <4>2, <4>3
      <4>4. CASE i # n
        <5>1. i \in 1..(n - 1)
          BY <2>4, <4>4
        <5>. QED
          BY <1>0, <1>1, <4>1, <4>2, <5>1 DEF HoldsSid
      <4>. QED
        BY <4>3, <4>4
    <3>. QED
      BY <3>1, <3>2, <3>3 DEF Acquired
  <2>. QED
    BY <2>0, <2>10, <2>12, <2>13, <2>14, <2>15, <2>16, <2>17, LocalStep DEF TxnOK
<1>. QED
  BY <1>2, <1>3

LEMMA AbortVictimInv ==
    ASSUME FamilyInv, NEW c \in Procs, AbortVictim(c)
    PROVE  FamilyInv'
<1>1. txn[c].pc = "sku"
  BY DEF AbortVictim, Deadlocked, WaitsFor
<1>2. Stop(c, "ERROR")
  BY DEF AbortVictim
<1>. QED
  BY <1>1, <1>2, Stopped DEF Replies

-----------------------------------------------------------------------------
(* Records that expire.                                                      *)

LEMMA SameTxns ==
    ASSUME FamilyInv, UNCHANGED <<tables, txn>>,
           idem' \in [Keys -> [live : BOOLEAN, q : Requests \cup {None}]],
           ran' \in [Keys -> Nat], \A k \in Keys : KeyOK(k)'
    PROVE  FamilyInv'
<1>1. FamilyTypes'
  BY DEF FamilyInv, FamilyTypes, tables
<1>2. ASSUME NEW d \in Procs PROVE TxnOK(d)'
  <2>1. txn'[d] = txn[d] /\ UNCHANGED tables /\ TxnOK(d)
    BY DEF FamilyInv
  <2>. QED
    BY <2>1, Frame
<1>3. ASSUME NEW d \in Procs, NEW e \in Procs, d # e PROVE Exclusive(d, e)'
  <2>1. Exclusive(d, e) /\ txn'[d] = txn[d] /\ txn'[e] = txn[e] /\ UNCHANGED tables
    BY <1>3 DEF FamilyInv
  <2>. QED
    BY <2>1, SameHolds DEF Exclusive
<1>4. Reserved' /\ Ledgers'
  BY DEF FamilyInv, Reserved, KeysAreOwned, Ledgers, History, tables
<1>. QED
  BY <1>1, <1>2, <1>3, <1>4 DEF FamilyInv

LEMMA ExpireRecordInv ==
    ASSUME FamilyInv, NEW k \in Keys, ExpireRecord(k)
    PROVE  FamilyInv'
<1>1. /\ idem \in [Keys -> [live : BOOLEAN, q : Requests \cup {None}]] /\ ran \in [Keys -> Nat]
      /\ idem' = [idem EXCEPT ![k].live = FALSE] /\ ran' = [ran EXCEPT ![k] = 0]
      /\ UNCHANGED <<tables, txn>>
  BY DEF FamilyInv, FamilyTypes, ExpireRecord
<1>2. /\ idem' \in [Keys -> [live : BOOLEAN, q : Requests \cup {None}]] /\ ran' \in [Keys -> Nat]
      /\ ~idem'[k].live /\ ran'[k] = 0
      /\ \A o \in Keys \ {k} : idem'[o] = idem[o] /\ ran'[o] = ran[o]
  BY <1>1
<1>3. ASSUME NEW o \in Keys PROVE KeyOK(o)'
  <2>1. KeyOK(o) /\ txn' = txn
    BY <1>1 DEF FamilyInv
  <2>. QED
    BY <1>2, <2>1 DEF KeyOK, HoldsKey
<1>. QED
  BY <1>1, <1>2, <1>3, SameTxns

LEMMA DeleteExpiredInv ==
    ASSUME FamilyInv, DeleteExpired
    PROVE  FamilyInv'
<1>1. /\ idem \in [Keys -> [live : BOOLEAN, q : Requests \cup {None}]] /\ ran \in [Keys -> Nat]
      /\ idem' = [k \in Keys |-> IF idem[k].live THEN idem[k] ELSE NoRecord] /\ ran' = ran
      /\ UNCHANGED <<tables, txn>>
  BY DEF FamilyInv, FamilyTypes, DeleteExpired
<1>2. NoRecord \in [live : BOOLEAN, q : Requests \cup {None}] /\ ~NoRecord.live
  BY DEF NoRecord
<1>3. idem' \in [Keys -> [live : BOOLEAN, q : Requests \cup {None}]]
  BY <1>1, <1>2
<1>4. ASSUME NEW k \in Keys PROVE KeyOK(k)'
  <2>1. KeyOK(k) /\ txn' = txn /\ (idem'[k].live <=> idem[k].live)
    BY <1>1, <1>2 DEF FamilyInv
  <2>. QED
    BY <1>1, <2>1 DEF KeyOK, HoldsKey
<1>. QED
  BY <1>1, <1>3, <1>4, SameTxns

-----------------------------------------------------------------------------
(* The commit.                                                               *)

\* What a transaction is when it commits.
LEMMA Committing ==
    ASSUME FamilyInv, NEW c \in Procs, txn[c].pc = "commit"
    PROVE  LET t == txn[c] IN
           /\ t.q \in Requests /\ t.q.p \in Products /\ t.q.key \in Keys \cup {None}
           /\ t.row \in ProductRow /\ t.row # None /\ t.row.state # "PUBLISHED"
           /\ t.row.code \in Codes /\ codeOwner[t.row.code] \in {None, t.q.p}
           /\ DOMAIN t.ents = 1..Len(t.ents) /\ t.n = Len(t.ents) + 1 /\ Len(t.ents) \in Nat
           /\ t.rows \in [Skus -> SkuRow \cup {None}] /\ t.log \in [Skus -> Seq(Entry)]
           /\ \A i \in 1..Len(t.ents) :
                /\ t.ents[i] \in Skus /\ t.ents[i] # None /\ t.rows[t.ents[i]] # None
                /\ t.q.skus[i] \in AllFields /\ t.q.skus[i] \in SkuInput
                /\ sidOwner[t.q.skus[i].sid] \in {None, t.ents[i]}
           /\ \A i, j \in 1..Len(t.ents) : t.q.skus[i].sid = t.q.skus[j].sid => i = j
<1> DEFINE t == txn[c]
<1>1. t \in TxnRecord /\ Shape(c) /\ ProductOK(c) /\ WrittenOK(c)
  BY Parts
<1>2. /\ t.q \in Requests /\ t.row # None /\ t.n = Len(t.ents) + 1
      /\ t.q.op = "save" => ValidPayload(t.q) /\ Len(t.ents) <= Len(t.q.skus)
      /\ t.q.op # "save" => t.ents = <<>>
  BY <1>1 DEF Shape, ShapeOf, Writing
<1>3. /\ t.row \in ProductRow /\ t.ents \in Seq(Skus \cup {None})
      /\ t.rows \in [Skus -> SkuRow \cup {None}] /\ t.log \in [Skus -> Seq(Entry)]
  BY <1>1, <1>2 DEF TxnRecord
<1>4. DOMAIN t.ents = 1..Len(t.ents) /\ Len(t.ents) \in Nat
  BY <1>3
<1>5. /\ t.q.p \in Products /\ t.q.key \in Keys \cup {None} /\ t.q.skus \in Seq(SkuInput)
      /\ \A i \in 1..Len(t.q.skus) : t.q.skus[i] \in SkuInput /\ t.q.skus[i] \in AllFields
  BY <1>2, RequestFields
<1>6. t.row.code \in Codes /\ t.row.state # "PUBLISHED" /\ codeOwner[t.row.code] \in {None, t.q.p}
  BY <1>1, <1>2, <1>3 DEF ProductRow, ProductOK
<1>7. ASSUME NEW i \in 1..Len(t.ents)
      PROVE  /\ t.ents[i] \in Skus /\ t.ents[i] # None /\ t.rows[t.ents[i]] # None
             /\ t.q.skus[i] \in AllFields /\ t.q.skus[i] \in SkuInput
             /\ sidOwner[t.q.skus[i].sid] \in {None, t.ents[i]}
             /\ t.q.op = "save" /\ i \in DOMAIN t.q.skus
  <2>1. t.q.op = "save" /\ i \in 1..Len(t.q.skus)
    <3>1. t.q.op = "save"
      BY <1>2
    <3>2. Len(t.ents) <= Len(t.q.skus) /\ Len(t.q.skus) \in Nat
      BY <1>2, <1>5, <3>1
    <3>. QED
      BY <1>4, <3>1, <3>2
  <2>2. i < t.n
    BY <1>2, <1>4
  <2>3. /\ t.ents[i] # None /\ t.rows[t.ents[i]] # None
        /\ sidOwner[t.q.skus[i].sid] \in {None, t.ents[i]}
    BY <1>1, <1>2, <2>2 DEF WrittenOK
  <2>4. t.ents[i] \in Skus \cup {None}
    BY <1>3
  <2>. QED
    BY <1>5, <2>1, <2>3, <2>4
<1>8. ASSUME NEW i \in 1..Len(t.ents), NEW j \in 1..Len(t.ents), t.q.skus[i].sid = t.q.skus[j].sid
      PROVE  i = j
  <2>1. /\ t.q.op = "save" /\ i \in DOMAIN t.q.skus /\ j \in DOMAIN t.q.skus
        /\ ValidPayload(t.q)
    BY <1>2, <1>7
  <2>. QED
    BY <1>8, <2>1 DEF ValidPayload
<1>. QED
  BY <1>2, <1>3, <1>4, <1>5, <1>6, <1>7, <1>8

\* What the tables are afterwards.
LEMMA Committed ==
    ASSUME FamilyInv, NEW c \in Procs, Commit(c)
    PROVE  LET t == txn[c] IN
           /\ prod' = [prod EXCEPT ![t.q.p] = t.row]
           /\ sku' = [s \in Skus |-> IF t.rows[s] = None THEN sku[s] ELSE t.rows[s]]
           /\ codeOwner' = [codeOwner EXCEPT ![t.row.code] = t.q.p]
           /\ sidOwner' \in [Sids -> Skus \cup {None}]
           /\ \A k \in Sids : sidOwner[k] # None => sidOwner'[k] = sidOwner[k]
           /\ \A i \in 1..Len(t.ents) : sidOwner'[t.q.skus[i].sid] = t.ents[i]
           /\ \A k \in Sids : sidOwner'[k] # sidOwner[k] =>
                \E i \in 1..Len(t.ents) : t.q.skus[i].sid = k
           /\ ledger' = [s \in Skus |-> ledger[s] \o t.log[s]]
           /\ txn' \in [Procs -> TxnRecord] /\ \A d \in Procs \ {c} : txn'[d] = txn[d]
           /\ txn'[c] = Ended(c, "SUCCESS")
<1> DEFINE t == txn[c]
<1>1. t.pc = "commit"
  BY DEF Commit
<1>2. /\ t.q \in Requests /\ DOMAIN t.ents = 1..Len(t.ents)
      /\ \A i \in 1..Len(t.ents) :
           /\ t.ents[i] \in Skus /\ t.q.skus[i] \in SkuInput
           /\ sidOwner[t.q.skus[i].sid] \in {None, t.ents[i]}
      /\ \A i, j \in 1..Len(t.ents) : t.q.skus[i].sid = t.q.skus[j].sid => i = j
  BY <1>1, Committing
<1>3. sidOwner' = [k \in Sids |->
         IF \E i \in 1..Len(t.ents) : t.q.skus[i].sid = k
         THEN t.ents[CHOOSE i \in 1..Len(t.ents) : t.q.skus[i].sid = k]
         ELSE sidOwner[k]]
  BY <1>2 DEF Commit
<1>4. ASSUME NEW i \in 1..Len(t.ents)
      PROVE  t.q.skus[i].sid \in Sids /\ sidOwner'[t.q.skus[i].sid] = t.ents[i]
  <2> DEFINE k == t.q.skus[i].sid
             j == CHOOSE h \in 1..Len(t.ents) : t.q.skus[h].sid = k
  <2>1. k \in Sids
    BY <1>2 DEF SkuInput
  <2>2. j \in 1..Len(t.ents) /\ t.q.skus[j].sid = k
    OBVIOUS
  <2>3. j = i
    BY <1>2, <2>2
  <2>4. sidOwner'[k] = t.ents[j]
    BY <1>3, <2>1
  <2>. QED
    BY <2>1, <2>3, <2>4
<1>5. ASSUME NEW k \in Sids, ~\E i \in 1..Len(t.ents) : t.q.skus[i].sid = k
      PROVE  sidOwner'[k] = sidOwner[k]
  BY <1>3, <1>5
<1>6. sidOwner \in [Sids -> Skus \cup {None}]
  BY DEF FamilyInv, FamilyTypes
<1>7. ASSUME NEW k \in Sids
      PROVE  sidOwner'[k] \in Skus \cup {None} /\ (sidOwner[k] # None => sidOwner'[k] = sidOwner[k])
  <2>1. CASE \E i \in 1..Len(t.ents) : t.q.skus[i].sid = k
    BY <1>2, <1>4, <2>1
  <2>2. CASE ~\E i \in 1..Len(t.ents) : t.q.skus[i].sid = k
    BY <1>5, <1>6, <2>2
  <2>. QED
    BY <2>1, <2>2
<1>8. sidOwner' \in [Sids -> Skus \cup {None}]
  <2>1. sidOwner' = [k \in Sids |-> sidOwner'[k]]
    BY <1>3
  <2>. QED
    BY <1>7, <2>1
<1>9. /\ txn' \in [Procs -> TxnRecord] /\ txn'[c] = Ended(c, "SUCCESS")
      /\ \A d \in Procs \ {c} : txn'[d] = txn[d]
  <2>1. Ended(c, "SUCCESS") \in TxnRecord
    BY <1>2, NoTxnType DEF Ended, TxnRecord, Stages, Replies
  <2>2. txn \in [Procs -> TxnRecord] /\ txn' = [txn EXCEPT ![c] = Ended(c, "SUCCESS")]
    BY Parts DEF Commit
  <2>. QED
    BY <2>1, <2>2
<1>10. /\ prod' = [prod EXCEPT ![t.q.p] = t.row]
       /\ sku' = [s \in Skus |-> IF t.rows[s] = None THEN sku[s] ELSE t.rows[s]]
       /\ codeOwner' = [codeOwner EXCEPT ![t.row.code] = t.q.p]
       /\ ledger' = [s \in Skus |-> ledger[s] \o t.log[s]]
  BY DEF Commit
<1>. QED
  BY <1>4, <1>5, <1>7, <1>8, <1>9, <1>10

\* What has been committed of a SKU keeps its family, what is there stays.
LEMMA Kept ==
    ASSUME FamilyInv, NEW c \in Procs, Commit(c), NEW s \in Skus
    PROVE  /\ sku[s] # None => sku'[s] # None /\ sku'[s].prod = sku[s].prod
           /\ sku'[s] # None /\ sku[s] = None => txn[c].rows[s] # None
           /\ sku'[s] = IF txn[c].rows[s] = None THEN sku[s] ELSE txn[c].rows[s]
<1>1. sku'[s] = IF txn[c].rows[s] = None THEN sku[s] ELSE txn[c].rows[s]
  BY DEF Commit
<1>2. WrittenOK(c)
  BY Parts
<1>3. ASSUME txn[c].rows[s] # None, sku[s] # None PROVE txn[c].rows[s].prod = sku[s].prod
  BY <1>2, <1>3 DEF WrittenOK
<1>. QED
  BY <1>1, <1>3

LEMMA CommittedTypes ==
    ASSUME FamilyInv, NEW c \in Procs, Commit(c)
    PROVE  FamilyTypes'
<1> DEFINE t == txn[c]
<1>1. /\ t.q \in Requests /\ t.q.p \in Products /\ t.q.key \in Keys \cup {None}
      /\ t.row \in ProductRow /\ t.row.code \in Codes
      /\ t.rows \in [Skus -> SkuRow \cup {None}] /\ t.log \in [Skus -> Seq(Entry)]
  BY Committing DEF Commit
<1>2. FamilyTypes
  BY DEF FamilyInv
<1>3. prod' \in [Products -> ProductRow \cup {None}]
  <2>1. prod' = [prod EXCEPT ![t.q.p] = t.row] /\ prod \in [Products -> ProductRow \cup {None}]
    BY <1>2, Committed DEF FamilyTypes
  <2>. QED
    BY <1>1, <2>1
<1>4. sku' \in [Skus -> SkuRow \cup {None}]
  <2>1. /\ sku' = [s \in Skus |-> IF t.rows[s] = None THEN sku[s] ELSE t.rows[s]]
        /\ sku \in [Skus -> SkuRow \cup {None}]
    BY <1>2, Committed DEF FamilyTypes
  <2>. QED
    BY <1>1, <2>1
<1>5. codeOwner' \in [Codes -> Products \cup {None}]
  <2>1. codeOwner' = [codeOwner EXCEPT ![t.row.code] = t.q.p]
        /\ codeOwner \in [Codes -> Products \cup {None}]
    BY <1>2, Committed DEF FamilyTypes
  <2>. QED
    BY <1>1, <2>1
<1>6. ledger' \in [Skus -> Seq(Entry)]
  <2>1. ledger' = [s \in Skus |-> ledger[s] \o t.log[s]] /\ ledger \in [Skus -> Seq(Entry)]
    BY <1>2, Committed DEF FamilyTypes
  <2>2. ASSUME NEW s \in Skus PROVE ledger[s] \o t.log[s] \in Seq(Entry)
    <3>1. ledger[s] \in Seq(Entry) /\ t.log[s] \in Seq(Entry)
      BY <1>1, <2>1
    <3>. QED
      BY <3>1, ConcatProperties
  <2>. QED
    BY <2>1, <2>2
<1>7. /\ idem' \in [Keys -> [live : BOOLEAN, q : Requests \cup {None}]]
      /\ ran' \in [Keys -> Nat]
  <2>1. /\ idem' = IF t.q.key = None THEN idem
                   ELSE [idem EXCEPT ![t.q.key] = [live |-> TRUE, q |-> t.q]]
        /\ ran' = IF t.q.key = None THEN ran ELSE [ran EXCEPT ![t.q.key] = @ + 1]
    BY DEF Commit
  <2>2. /\ idem \in [Keys -> [live : BOOLEAN, q : Requests \cup {None}]]
        /\ ran \in [Keys -> Nat]
    BY <1>2 DEF FamilyTypes
  <2>3. idem' \in [Keys -> [live : BOOLEAN, q : Requests \cup {None}]]
    BY <1>1, <2>1, <2>2
  <2>4. ran' \in [Keys -> Nat]
    BY <1>1, <2>1, <2>2
  <2>. QED
    BY <2>3, <2>4
<1>8. sidOwner' \in [Sids -> Skus \cup {None}] /\ txn' \in [Procs -> TxnRecord]
  BY Committed
<1>. QED
  BY <1>3, <1>4, <1>5, <1>6, <1>7, <1>8 DEF FamilyTypes

LEMMA CommittedKeysOwned ==
    ASSUME FamilyInv, NEW c \in Procs, Commit(c)
    PROVE  KeysAreOwned'
<1> DEFINE t == txn[c]
<1>0. KeysAreOwned /\ FamilyTypes /\ WrittenOK(c)
  BY Parts DEF FamilyInv, Reserved
<1>1. /\ t.q.p \in Products /\ t.row \in ProductRow /\ t.row # None
      /\ t.row.code \in Codes /\ codeOwner[t.row.code] \in {None, t.q.p}
  BY Committing DEF Commit
<1>2. ASSUME NEW p \in Products, prod'[p] # None PROVE codeOwner'[prod'[p].code] = p
  <2>1. /\ prod' = [prod EXCEPT ![t.q.p] = t.row]
        /\ codeOwner' = [codeOwner EXCEPT ![t.row.code] = t.q.p]
    BY Committed
  <2>2. /\ prod \in [Products -> ProductRow \cup {None}]
        /\ codeOwner \in [Codes -> Products \cup {None}]
    BY <1>0 DEF FamilyTypes
  <2>3. CASE p = t.q.p
    BY <1>1, <2>1, <2>2, <2>3
  <2>4. CASE p # t.q.p
    <3>1. prod'[p] = prod[p] /\ prod[p].code \in Codes
      BY <1>1, <1>2, <2>1, <2>2, <2>4 DEF ProductRow
    <3>2. codeOwner[prod[p].code] = p /\ p # None
      BY <1>0, <1>2, <3>1, Nones DEF KeysAreOwned
    <3>3. prod[p].code # t.row.code
      BY <1>1, <2>4, <3>2
    <3>. QED
      BY <2>1, <2>2, <3>1, <3>2, <3>3
  <2>. QED
    BY <2>3, <2>4
<1>3. ASSUME NEW s \in Skus, sku'[s] # None PROVE sidOwner'[sku'[s].sid] = s
  <2>1. CASE t.rows[s] # None
    <3>1. sku'[s] = t.rows[s]
      BY <2>1, Kept
    <3>2. PICK i \in 1..Len(t.ents) : t.ents[i] = s /\ t.q.skus[i].sid = t.rows[s].sid
      BY <1>0, <2>1 DEF WrittenOK, Wrote
    <3>3. sidOwner'[t.q.skus[i].sid] = t.ents[i]
      BY Committed
    <3>. QED
      BY <3>1, <3>2, <3>3
  <2>2. CASE t.rows[s] = None
    <3>1. sku'[s] = sku[s]
      BY <2>2, Kept
    <3>2. sidOwner[sku[s].sid] = s /\ s # None /\ sku[s].sid \in Sids
      BY <1>0, <1>3, <3>1, Nones DEF KeysAreOwned, FamilyTypes, SkuRow
    <3>3. sidOwner'[sku[s].sid] = sidOwner[sku[s].sid]
      BY <3>2, Committed
    <3>. QED
      BY <3>1, <3>2, <3>3
  <2>. QED
    BY <2>1, <2>2
<1>. QED
  BY <1>2, <1>3 DEF KeysAreOwned

LEMMA CommittedReserved ==
    ASSUME FamilyInv, NEW c \in Procs, Commit(c)
    PROVE  Reserved'
<1> DEFINE t == txn[c]
<1>0. Reserved /\ FamilyTypes /\ WrittenOK(c)
  BY Parts DEF FamilyInv
<1>1. \A i \in 1..Len(t.ents) :
        /\ t.ents[i] \in Skus /\ t.ents[i] # None /\ t.rows[t.ents[i]] # None
        /\ t.q.skus[i] \in AllFields /\ t.q.skus[i].sid \in Sids
        /\ sidOwner'[t.q.skus[i].sid] = t.ents[i]
  <2>1. t.pc = "commit"
    BY DEF Commit
  <2>2. \A i \in 1..Len(t.ents) :
          /\ t.ents[i] \in Skus /\ t.ents[i] # None /\ t.rows[t.ents[i]] # None
          /\ t.q.skus[i] \in AllFields /\ t.q.skus[i] \in SkuInput
    BY <2>1, Committing
  <2>3. \A i \in 1..Len(t.ents) : sidOwner'[t.q.skus[i].sid] = t.ents[i]
    BY Committed
  <2>. QED
    BY <2>2, <2>3 DEF SkuInput
<1>2. ASSUME NEW k \in Sids, sidOwner'[k] # None PROVE sku'[sidOwner'[k]] # None
  <2>1. CASE sidOwner'[k] = sidOwner[k]
    <3>1. sidOwner[k] \in Skus /\ sku[sidOwner[k]] # None
      BY <1>0, <1>2, <2>1 DEF Reserved, FamilyTypes
    <3>. QED
      BY <2>1, <3>1, Kept
  <2>2. CASE sidOwner'[k] # sidOwner[k]
    <3>1. PICK i \in 1..Len(t.ents) : t.q.skus[i].sid = k
      BY <2>2, Committed
    <3>2. sidOwner'[k] = t.ents[i] /\ t.ents[i] \in Skus /\ t.rows[t.ents[i]] # None
      BY <1>1, <3>1
    <3>3. sku'[t.ents[i]] = t.rows[t.ents[i]]
      BY <3>2, Kept
    <3>. QED
      BY <3>2, <3>3
  <2>. QED
    BY <2>1, <2>2
<1>3. ASSUME NEW f \in NewFields, sku'[f.fresh] # None PROVE sidOwner'[f.sid] # None
  <2>1. f.fresh \in Skus /\ f.sid \in Sids
    <3>1. f \in SkuInput
      <4>1. PICK q \in Requests : f \in Fields(q)
        BY DEF NewFields, AllFields
      <4>2. q.skus \in Seq(SkuInput)
        BY RequestFields
      <4>. QED
        BY <4>1, <4>2 DEF Fields
    <3>. QED
      BY <3>1 DEF SkuInput
  <2>2. CASE sku[f.fresh] # None
    BY <1>0, <2>1, <2>2, Committed DEF Reserved
  <2>3. CASE sku[f.fresh] = None
    <3>1. t.rows[f.fresh] # None
      BY <1>3, <2>1, <2>3, Kept
    <3>2. PICK i \in 1..Len(t.ents) : t.q.skus[i].ent = None /\ t.q.skus[i].fresh = f.fresh
      BY <1>0, <2>1, <2>3, <3>1 DEF WrittenOK
    <3>3. t.q.skus[i] \in NewFields
      BY <1>1, <3>2 DEF NewFields
    <3>4. t.q.skus[i].sid = f.sid
      BY <3>2, <3>3, EntityAssumption
    <3>. QED
      BY <1>1, <3>4
  <2>. QED
    BY <2>2, <2>3
<1>4. ASSUME NEW f \in AllFields, f.ent # None PROVE sku'[f.ent] # None
  <2>1. PICK q \in Requests : f \in Fields(q)
    BY DEF AllFields
  <2>2. q.skus \in Seq(SkuInput)
    BY RequestFields
  <2>3. f.ent \in Skus
    <3>1. f \in SkuInput
      BY <2>1, <2>2 DEF Fields
    <3>. QED
      BY <1>4, <3>1 DEF SkuInput
  <2>. QED
    BY <1>0, <1>4, <2>3, Kept DEF Reserved
<1>5. KeysAreOwned'
  BY CommittedKeysOwned
<1>. QED
  BY <1>2, <1>3, <1>4, <1>5 DEF Reserved

LEMMA CommittedLedger ==
    ASSUME FamilyInv, NEW c \in Procs, Commit(c)
    PROVE  Ledgers'
<1> DEFINE t == txn[c]
<1>0. Ledgers /\ FamilyTypes /\ PricedOK(c)
  BY Parts DEF FamilyInv
<1>1. ASSUME NEW s \in Skus
      PROVE  IF sku'[s] = None THEN ledger'[s] = <<>>
             ELSE History(ledger'[s], sku'[s].price)
  <2>1. ledger'[s] = ledger[s] \o t.log[s] /\ ledger[s] \in Seq(Entry)
    BY <1>0, Committed DEF FamilyTypes
  <2>2. CASE t.rows[s] # None
    <3>1. sku'[s] = t.rows[s]
      BY <2>2, Kept
    <3>. QED
      BY <1>0, <2>1, <2>2, <3>1 DEF PricedOK
  <2>3. CASE t.rows[s] = None
    <3>1. sku'[s] = sku[s] /\ t.log[s] = <<>>
      BY <1>0, <2>3, Kept DEF PricedOK
    <3>2. ledger'[s] = ledger[s]
      BY <2>1, <3>1
    <3>. QED
      BY <1>0, <3>1, <3>2 DEF Ledgers
  <2>. QED
    BY <2>2, <2>3
<1>. QED
  BY <1>1 DEF Ledgers, History

\* Two transactions write neither the same product nor the same SKU.
LEMMA Apart ==
    ASSUME FamilyInv, NEW c \in Procs, Commit(c), NEW d \in Procs \ {c}, txn[d].row # None
    PROVE  /\ txn[d].q.p # txn[c].q.p
           /\ \A s \in Skus : txn[d].rows[s] # None => txn[c].rows[s] = None
           /\ \A i \in 1..Len(txn[d].ents) : i < txn[d].n =>
                sidOwner'[txn[d].q.skus[i].sid] \in {None, txn[d].ents[i]}
<1> DEFINE t == txn[c]
           u == txn[d]
<1>1. /\ t.pc = "commit" /\ Active(c) /\ t.row # None /\ t.q.p \in Products
      /\ t.n = Len(t.ents) + 1 /\ Len(t.ents) \in Nat
  <2>1. t.pc = "commit"
    BY DEF Commit
  <2>. QED
    BY <2>1, Committing
<1>2. /\ Active(d) /\ u.q \in Requests /\ u.ents \in Seq(Skus \cup {None})
      /\ u.n \in Nat \ {0} /\ u.n <= Len(u.ents) + 1
  <2>1. Shape(d) /\ u \in TxnRecord
    BY Parts
  <2>. QED
    BY <2>1 DEF Shape, ShapeOf, Writing, TxnRecord
<1>3. Exclusive(c, d)
  BY DEF FamilyInv
<1>4. u.q.p # t.q.p
  BY <1>1, <1>2, <1>3 DEF Exclusive, HoldsProduct
<1>5. /\ WrittenOK(c) /\ WrittenOK(d)
      /\ \A k \in Sids : sidOwner[k] # None => sku[sidOwner[k]] # None
  BY Parts DEF FamilyInv, Reserved
<1>6. \A i \in 1..Len(t.ents) :
        /\ t.q.skus[i] \in AllFields /\ t.q.skus[i].sid \in Sids
        /\ HoldsSid(c, t.q.skus[i].sid) \/ sidOwner[t.q.skus[i].sid] # None
  <2>1. \A i \in 1..Len(t.ents) : t.q.skus[i] \in AllFields /\ t.q.skus[i] \in SkuInput
    BY <1>1, Committing
  <2>2. \A i \in 1..Len(t.ents) : i \in 1..(t.n - 1)
    BY <1>1
  <2>. QED
    BY <1>1, <2>1, <2>2 DEF HoldsSid, SkuInput
<1>7. \A i \in 1..Len(u.ents) : i < u.n =>
        /\ u.q.skus[i] \in AllFields /\ u.q.skus[i].sid \in Sids
        /\ HoldsSid(d, u.q.skus[i].sid) \/ sidOwner[u.q.skus[i].sid] # None
        /\ sidOwner[u.q.skus[i].sid] \in {None, u.ents[i]}
  <2>0. u.q.skus \in Seq(SkuInput)
    BY <1>2, RequestFields
  <2>1. ASSUME NEW i \in 1..Len(u.ents) PROVE i \in 1..Len(u.q.skus)
    <3>1. Shape(d)
      BY Parts
    <3>2. u.q.op = "save" => Len(u.ents) <= Len(u.q.skus)
      BY <1>2, <3>1 DEF Shape, ShapeOf
    <3>3. u.q.op # "save" => u.ents = <<>>
      BY <1>2, <3>1 DEF Shape, ShapeOf
    <3>4. Len(u.ents) \in Nat /\ Len(u.q.skus) \in Nat
      BY <1>2, <2>0
    <3>. QED
      BY <3>2, <3>3, <3>4
  <2>2. ASSUME NEW i \in 1..Len(u.ents), i < u.n
        PROVE  /\ i \in 1..(u.n - 1) /\ u.q.skus[i] \in AllFields /\ u.q.skus[i] \in SkuInput
               /\ sidOwner[u.q.skus[i].sid] \in {None, u.ents[i]}
    <3>1. u.q.skus[i] \in AllFields /\ u.q.skus[i] \in SkuInput
      BY <1>2, <2>1, RequestFields
    <3>2. i \in 1..(u.n - 1)
      BY <1>2, <2>2
    <3>3. sidOwner[u.q.skus[i].sid] \in {None, u.ents[i]}
      BY <1>5, <2>2 DEF WrittenOK
    <3>. QED
      BY <3>1, <3>2, <3>3
  <2>. QED
    BY <1>2, <2>2 DEF HoldsSid, SkuInput
<1>8. ASSUME NEW s \in Skus, u.rows[s] # None, t.rows[s] # None PROVE FALSE
  <2>1. sku[s] = None
    BY <1>4, <1>5, <1>8 DEF WrittenOK
  <2>2. PICK i \in 1..Len(t.ents) :
          t.ents[i] = s /\ t.q.skus[i].ent = None /\ t.q.skus[i].fresh = s
    BY <1>5, <1>8, <2>1 DEF WrittenOK, Wrote
  <2>3. PICK j \in 1..Len(u.ents) :
          j < u.n /\ u.ents[j] = s /\ u.q.skus[j].ent = None /\ u.q.skus[j].fresh = s
    BY <1>5, <1>8, <2>1 DEF WrittenOK, Wrote
  <2>4. t.q.skus[i] \in NewFields /\ u.q.skus[j] \in NewFields
    BY <1>6, <1>7, <2>2, <2>3 DEF NewFields
  <2>5. t.q.skus[i].sid = u.q.skus[j].sid
    BY <2>2, <2>3, <2>4, EntityAssumption
  <2> DEFINE k == t.q.skus[i].sid
  <2>6. k \in Sids /\ sidOwner[k] = None
    BY <1>5, <1>6, <1>7, <2>1, <2>3, <2>5
  <2>7. HoldsSid(c, k) /\ HoldsSid(d, k)
    BY <1>6, <1>7, <2>2, <2>3, <2>5, <2>6
  <2>. QED
    BY <1>3, <2>6, <2>7 DEF Exclusive
<1>9. ASSUME NEW i \in 1..Len(u.ents), i < u.n
      PROVE  sidOwner'[u.q.skus[i].sid] \in {None, u.ents[i]}
  <2> DEFINE k == u.q.skus[i].sid
  <2>1. k \in Sids /\ sidOwner[k] \in {None, u.ents[i]}
    BY <1>7, <1>9
  <2>2. CASE sidOwner[k] # None
    BY <2>1, <2>2, Committed
  <2>3. CASE sidOwner[k] = None
    <3>1. HoldsSid(d, k)
      BY <1>7, <1>9, <2>3
    <3>2. ASSUME NEW j \in 1..Len(t.ents), t.q.skus[j].sid = k PROVE FALSE
      <4>1. HoldsSid(c, k)
        BY <1>6, <2>3, <3>2
      <4>. QED
        BY <1>3, <2>1, <3>1, <4>1 DEF Exclusive
    <3>3. sidOwner'[k] = sidOwner[k]
      BY <2>1, <3>2, Committed
    <3>. QED
      BY <2>1, <3>3
  <2>. QED
    BY <2>2, <2>3
<1>. QED
  BY <1>4, <1>8, <1>9

LEMMA CommittedOthers ==
    ASSUME FamilyInv, NEW c \in Procs, Commit(c), NEW d \in Procs \ {c}
    PROVE  TxnOK(d)'
<1> DEFINE t == txn[c]
           u == txn[d]
<1>0. /\ u \in TxnRecord /\ Shape(d) /\ ProductOK(d) /\ FoundOK(d) /\ WrittenOK(d) /\ PricedOK(d)
      /\ FamilyTypes
  BY Parts DEF FamilyInv
<1>1. txn'[d] = u
  BY Committed
<1>2. /\ t.q.p \in Products /\ t.row \in ProductRow /\ t.row # None /\ t.row.code \in Codes
      /\ codeOwner[t.row.code] \in {None, t.q.p}
  BY Committing DEF Commit
<1>3. u.pc # "idle" => u.q \in Requests /\ u.q.p \in Products
  <2>1. u.pc # "idle" => u.q \in Requests
    BY <1>0 DEF Shape, ShapeOf
  <2>. QED
    BY <2>1, RequestFields
<1>4. Shape(d)'
  BY <1>0, <1>1 DEF Shape
<1>5. ProductOK(d)'
  <2>1. ASSUME u.pc \in {"family", "write"}, u.q.op # "save"
        PROVE  u.seen # None /\ prod'[u.q.p] # None
    <3>1. u.seen # None /\ prod[u.q.p] # None /\ u.q.p \in Products
      BY <1>0, <1>3, <2>1 DEF ProductOK
    <3>2. prod' = [prod EXCEPT ![t.q.p] = t.row] /\ prod \in [Products -> ProductRow \cup {None}]
      BY <1>0, Committed DEF FamilyTypes
    <3>. QED
      BY <1>2, <3>1, <3>2
  <2>2. ASSUME u.row # None
        PROVE  u.row.state # "PUBLISHED" /\ codeOwner'[u.row.code] \in {None, u.q.p}
    <3>1. u.row.state # "PUBLISHED" /\ codeOwner[u.row.code] \in {None, u.q.p}
      BY <1>0, <2>2 DEF ProductOK
    <3>2. u.row \in ProductRow /\ u.row.code \in Codes
      BY <1>0, <2>2 DEF TxnRecord, ProductRow
    <3>3. codeOwner' = [codeOwner EXCEPT ![t.row.code] = t.q.p]
          /\ codeOwner \in [Codes -> Products \cup {None}]
      BY <1>0, Committed DEF FamilyTypes
    <3>4. CASE u.row.code = t.row.code
      <4>1. u.q.p # t.q.p
        BY <2>2, Apart
      <4>2. codeOwner[t.row.code] = None
        BY <1>2, <3>1, <3>4, <4>1
      <4>3. HoldsCode(c, t.row.code) /\ HoldsCode(d, t.row.code)
        <5>1. t.pc = "commit"
          BY DEF Commit
        <5>2. Active(d)
          BY <1>0, <2>2 DEF Shape, ShapeOf, Writing
        <5>. QED
          BY <1>2, <2>2, <3>4, <4>2, <5>1, <5>2 DEF HoldsCode
      <4>4. Exclusive(c, d)
        BY DEF FamilyInv
      <4>. QED
        BY <1>2, <4>3, <4>4 DEF Exclusive
    <3>5. CASE u.row.code # t.row.code
      BY <3>1, <3>2, <3>3, <3>5
    <3>. QED
      BY <3>1, <3>4, <3>5
  <2>. QED
    BY <1>0, <1>1, <2>1, <2>2 DEF ProductOK
<1>6. ASSUME NEW s \in Skus, OfFamily(s, u.q.p) PROVE OfFamily(s, u.q.p)'
  <2>1. sku'[s] # None /\ sku'[s].prod = sku[s].prod
    BY <1>6, Kept DEF OfFamily
  <2>. QED
    BY <1>1, <1>6, <2>1 DEF OfFamily
<1>7. FoundOK(d)'
  <2>1. \A i \in 1..Len(u.ents) : u.ents[i] \in Skus \cup {None}
    BY <1>0 DEF TxnRecord
  <2>2. ASSUME NEW i \in 1..Len(u.ents)
        PROVE  /\ u.ents[i] # None /\ (u.row = None \/ u.n <= i)
                    => sku'[u.ents[i]] # None /\ sku'[u.ents[i]].prod = u.q.p
               /\ u.ents[i] = None => u.q.skus[i].ent = None
    <3>1. CASE u.ents[i] # None /\ (u.row = None \/ u.n <= i)
      <4>1. u.ents[i] \in Skus /\ OfFamily(u.ents[i], u.q.p)
        BY <1>0, <2>1, <3>1 DEF FoundOK
      <4>. QED
        BY <3>1, <4>1, Kept DEF OfFamily
    <3>2. u.ents[i] = None => u.q.skus[i].ent = None
      BY <1>0 DEF FoundOK
    <3>. QED
      BY <3>1, <3>2
  <2>. QED
    BY <1>1, <2>2 DEF FoundOK, OfFamily
<1>8. WrittenOK(d)'
  <2>1. ASSUME u.row # None, NEW i \in 1..Len(u.ents), i < u.n
        PROVE  /\ u.ents[i] # None /\ u.rows[u.ents[i]] # None
               /\ sidOwner'[u.q.skus[i].sid] \in {None, u.ents[i]}
    <3>1. u.ents[i] # None /\ u.rows[u.ents[i]] # None
      BY <1>0, <2>1 DEF WrittenOK
    <3>. QED
      BY <2>1, <3>1, Apart
  <2>2. ASSUME NEW s \in Skus, u.rows[s] # None
        PROVE  sku'[s] = sku[s]
    <3>1. u.row # None
      BY <1>0, <2>2 DEF Shape, ShapeOf
    <3>2. t.rows[s] = None
      BY <2>2, <3>1, Apart
    <3>. QED
      BY <3>2, Kept
  <2>. QED
    BY <1>0, <1>1, <2>1, <2>2 DEF WrittenOK
<1>9. PricedOK(d)'
  <2>1. ASSUME NEW s \in Skus
        PROVE  IF u.rows[s] = None THEN u.log[s] = <<>>
               ELSE History(ledger'[s] \o u.log[s], u.rows[s].price)
    <3>1. CASE u.rows[s] = None
      BY <1>0, <3>1 DEF PricedOK
    <3>2. CASE u.rows[s] # None
      <4>1. u.row # None
        BY <1>0, <3>2 DEF Shape, ShapeOf
      <4>2. t.rows[s] = None
        BY <3>2, <4>1, Apart
      <4>3. t.log[s] = <<>>
        BY <4>2, Parts DEF PricedOK
      <4>4. ledger'[s] = ledger[s] \o t.log[s] /\ ledger[s] \in Seq(Entry)
        BY <1>0, Committed DEF FamilyTypes
      <4>5. ledger'[s] = ledger[s]
        BY <4>3, <4>4
      <4>. QED
        BY <1>0, <3>2, <4>5 DEF PricedOK
    <3>. QED
      BY <3>1, <3>2
  <2>2. ASSUME u.pc = "sku"
        PROVE  LET s == u.ents[u.n] IN
               u.old = IF s = None THEN None
                       ELSE IF u.rows[s] # None THEN u.rows[s] ELSE sku'[s]
    <3> DEFINE s == u.ents[u.n]
    <3>1. /\ u.row # None /\ s \in Skus \cup {None} /\ (s # None => OfFamily(s, u.q.p))
          /\ u.old = IF s = None THEN None
                     ELSE IF u.rows[s] # None THEN u.rows[s] ELSE sku[s]
      BY <2>2, AtHand
    <3>2. ASSUME s # None PROVE sku'[s] = sku[s]
      <4>1. s \in Skus /\ sku[s] # None /\ sku[s].prod = u.q.p
        BY <3>1, <3>2 DEF OfFamily
      <4>2. u.q.p # t.q.p
        BY <3>1, Apart
      <4>3. WrittenOK(c)
        BY Parts
      <4>4. t.rows[s] = None
        BY <4>1, <4>2, <4>3 DEF WrittenOK
      <4>. QED
        BY <4>1, <4>4, Kept
    <3>. QED
      BY <3>1, <3>2
  <2>. QED
    BY <1>1, <2>1, <2>2 DEF PricedOK, History
<1>. QED
  BY <1>4, <1>5, <1>7, <1>8, <1>9 DEF TxnOK

LEMMA CommittedExclusive ==
    ASSUME FamilyInv, NEW c \in Procs, Commit(c), NEW d \in Procs, NEW e \in Procs, d # e
    PROVE  Exclusive(d, e)'
<1>1. txn'[c].pc = "done"
  BY Committed DEF Ended, NoTxn
<1>2. ASSUME d # c, e # c PROVE Exclusive(d, e)'
  <2>1. txn'[d] = txn[d] /\ txn'[e] = txn[e] /\ Exclusive(d, e)
    <3>1. Exclusive(d, e)
      BY DEF FamilyInv
    <3>. QED
      BY <1>2, <3>1, Committed
  <2>2. ASSUME NEW k \in Codes, codeOwner'[k] = None PROVE codeOwner[k] = None
    <3>1. /\ codeOwner' = [codeOwner EXCEPT ![txn[c].row.code] = txn[c].q.p]
          /\ codeOwner \in [Codes -> Products \cup {None}]
      BY Committed DEF FamilyInv, FamilyTypes
    <3>2. txn[c].q.p \in Products /\ txn[c].q.p # None
      BY Committing, Nones DEF Commit
    <3>. QED
      BY <2>2, <3>1, <3>2
  <2>3. ASSUME NEW k \in Sids, sidOwner'[k] = None PROVE sidOwner[k] = None
    BY <2>3, Committed
  <2>4. \A k \in Keys : ~(HoldsKey(d, k)' /\ HoldsKey(e, k)')
    BY <2>1 DEF Exclusive, HoldsKey
  <2>5. \A p \in Products : ~(HoldsProduct(d, p)' /\ HoldsProduct(e, p)')
    BY <2>1 DEF Exclusive, HoldsProduct
  <2>6. \A k \in Codes : ~(HoldsCode(d, k)' /\ HoldsCode(e, k)')
    BY <2>1, <2>2 DEF Exclusive, HoldsCode
  <2>7. \A k \in Sids : ~(HoldsSid(d, k)' /\ HoldsSid(e, k)')
    BY <2>1, <2>3 DEF Exclusive, HoldsSid
  <2>. QED
    BY <2>4, <2>5, <2>6, <2>7 DEF Exclusive
<1>3. ASSUME d = c \/ e = c PROVE Exclusive(d, e)'
  BY <1>1, <1>3 DEF Exclusive, HoldsKey, HoldsProduct, HoldsCode, HoldsSid
<1>. QED
  BY <1>2, <1>3

LEMMA CommittedKey ==
    ASSUME FamilyInv, NEW c \in Procs, Commit(c), NEW k \in Keys
    PROVE  KeyOK(k)'
<1> DEFINE t == txn[c]
<1>1. /\ idem' = IF t.q.key = None THEN idem
                 ELSE [idem EXCEPT ![t.q.key] = [live |-> TRUE, q |-> t.q]]
      /\ ran' = IF t.q.key = None THEN ran ELSE [ran EXCEPT ![t.q.key] = @ + 1]
      /\ t.pc = "commit"
  BY DEF Commit
<1>2. /\ idem \in [Keys -> [live : BOOLEAN, q : Requests \cup {None}]]
      /\ ran \in [Keys -> Nat] /\ KeyOK(k)
  BY DEF FamilyInv, FamilyTypes
<1>3. txn'[c].pc = "done" /\ \A d \in Procs \ {c} : txn'[d] = txn[d]
  BY Committed DEF Ended, NoTxn
<1>4. t.q.key \in Keys \cup {None} /\ None \notin Keys
  BY <1>1, Committing, Nones
<1>5. CASE k = t.q.key
  <2>1. HoldsKey(c, k)
    BY <1>1, <1>5 DEF HoldsKey
  <2>2. ran[k] = 0
    BY <1>2, <2>1 DEF KeyOK
  <2>3. idem'[k].live /\ ran'[k] = 1
    BY <1>1, <1>2, <1>4, <1>5, <2>2
  <2>4. ASSUME NEW d \in Procs, HoldsKey(d, k)' PROVE FALSE
    <3>1. d # c
      BY <1>3, <2>4 DEF HoldsKey
    <3>2. HoldsKey(d, k)
      BY <1>3, <2>4, <3>1 DEF HoldsKey
    <3>. QED
      BY <2>1, <3>1, <3>2 DEF FamilyInv, Exclusive
  <2>. QED
    BY <2>3, <2>4 DEF KeyOK
<1>6. CASE k # t.q.key
  <2>1. idem'[k] = idem[k] /\ ran'[k] = ran[k]
    BY <1>1, <1>2, <1>4, <1>6
  <2>2. ASSUME NEW d \in Procs, HoldsKey(d, k)' PROVE HoldsKey(d, k)
    BY <1>3, <2>2 DEF HoldsKey
  <2>. QED
    BY <1>2, <2>1, <2>2 DEF KeyOK
<1>. QED
  BY <1>5, <1>6

LEMMA CommitInv ==
    ASSUME FamilyInv, NEW c \in Procs, Commit(c)
    PROVE  FamilyInv'
<1>1. TxnOK(c)'
  <2>1. txn'[c] = Ended(c, "SUCCESS") /\ txn[c].q \in Requests
    BY Committed, Committing DEF Commit
  <2>2. /\ txn'[c].pc = "done" /\ txn'[c].q \in Requests /\ txn'[c].row = None
        /\ txn'[c].ents = <<>> /\ txn'[c].n = 1
        /\ \A s \in Skus : txn'[c].rows[s] = None /\ txn'[c].log[s] = <<>>
    BY <2>1 DEF Ended, NoTxn
  <2>. QED
    BY <2>2 DEF TxnOK, Shape, ShapeOf, ProductOK, FoundOK, WrittenOK, PricedOK, Writing
<1>2. \A d \in Procs : TxnOK(d)'
  BY <1>1, CommittedOthers
<1>3. \A d, e \in Procs : d # e => Exclusive(d, e)'
  BY CommittedExclusive
<1>4. FamilyTypes' /\ Reserved' /\ Ledgers'
  BY CommittedTypes, CommittedReserved, CommittedLedger
<1>5. \A k \in Keys : KeyOK(k)'
  BY CommittedKey
<1>. QED
  BY <1>2, <1>3, <1>4, <1>5 DEF FamilyInv

-----------------------------------------------------------------------------
(* The start, and the steps of the mutations together.                       *)

LEMMA FamilyStart ==
    ASSUME FamilyInit, NothingInvented
    PROVE  FamilyInv
<1>1. /\ prod = InitProd /\ sku = InitSku
      /\ InitProd \in [Products -> ProductRow \cup {None}]
      /\ InitSku \in [Skus -> SkuRow \cup {None}]
  BY CatalogAssumption DEF FamilyInit
<1>2. ASSUME NEW k \in Codes
      PROVE  /\ codeOwner[k] \in Products \cup {None}
             /\ \A p \in Products : InitProd[p] # None /\ InitProd[p].code = k => codeOwner[k] = p
  <2> DEFINE P(p) == InitProd[p] # None /\ InitProd[p].code = k
  <2>1. codeOwner[k] = IF \E p \in Products : P(p) THEN CHOOSE p \in Products : P(p) ELSE None
    BY DEF FamilyInit
  <2>2. \A p, o \in Products : P(p) /\ P(o) => p = o
    BY CatalogAssumption
  <2> HIDE DEF P
  <2>3. /\ codeOwner[k] \in Products \cup {None}
        /\ \A p \in Products : P(p) => codeOwner[k] = p
    BY <2>1, <2>2
  <2>. QED
    BY <2>3 DEF P
<1>3. ASSUME NEW k \in Sids
      PROVE  /\ sidOwner[k] \in Skus \cup {None}
             /\ \A s \in Skus : InitSku[s] # None /\ InitSku[s].sid = k => sidOwner[k] = s
             /\ sidOwner[k] # None => InitSku[sidOwner[k]] # None
  <2> DEFINE P(s) == InitSku[s] # None /\ InitSku[s].sid = k
  <2>1. sidOwner[k] = IF \E s \in Skus : P(s) THEN CHOOSE s \in Skus : P(s) ELSE None
    BY DEF FamilyInit
  <2>2. \A s, o \in Skus : P(s) /\ P(o) => s = o
    BY CatalogAssumption
  <2> HIDE DEF P
  <2>3. /\ sidOwner[k] \in Skus \cup {None}
        /\ \A s \in Skus : P(s) => sidOwner[k] = s
        /\ sidOwner[k] # None => P(sidOwner[k])
    BY <2>1, <2>2
  <2>. QED
    BY <2>3 DEF P
<1>4. ASSUME NEW s \in Skus
      PROVE  /\ ledger[s] \in Seq(Entry)
             /\ IF InitSku[s] = None THEN ledger[s] = <<>> ELSE History(ledger[s], InitSku[s].price)
  <2>1. ledger[s] = IF InitSku[s] = None THEN <<>>
                    ELSE <<[old |-> None, new |-> InitSku[s].price]>>
    BY DEF FamilyInit
  <2>2. CASE InitSku[s] = None
    BY <2>1, <2>2
  <2>3. CASE InitSku[s] # None
    <3>1. InitSku[s].price \in Stored
      <4>1. /\ InitSku[s].price \in Prices
            /\ InitSku[s].price = Rounded[InitSku[s].price]
        BY <1>1, <2>3, CatalogAssumption DEF SkuRow
      <4>. QED
        BY <4>1 DEF Stored
    <3>2. [old |-> None, new |-> InitSku[s].price] \in Entry
      BY <3>1 DEF Entry
    <3>. QED
      BY <2>1, <2>3, <3>1, <3>2, HistoryStarts
  <2>. QED
    BY <2>2, <2>3
<1>5. \A c \in Procs : txn[c] = NoTxn
  BY DEF FamilyInit
<1>6. FamilyTypes
  <2>1. txn \in [Procs -> TxnRecord]
    BY NoTxnType DEF FamilyInit
  <2>2. codeOwner \in [Codes -> Products \cup {None}]
    <3>1. codeOwner = [k \in Codes |-> codeOwner[k]]
      BY DEF FamilyInit
    <3>. QED
      BY <1>2, <3>1
  <2>3. sidOwner \in [Sids -> Skus \cup {None}]
    <3>1. sidOwner = [k \in Sids |-> sidOwner[k]]
      BY DEF FamilyInit
    <3>. QED
      BY <1>3, <3>1
  <2>4. ledger \in [Skus -> Seq(Entry)]
    <3>1. ledger = [s \in Skus |-> ledger[s]]
      BY DEF FamilyInit
    <3>. QED
      BY <1>4, <3>1
  <2>5. /\ idem \in [Keys -> [live : BOOLEAN, q : Requests \cup {None}]]
        /\ ran \in [Keys -> Nat]
    BY DEF FamilyInit, NoRecord
  <2>. QED
    BY <1>1, <2>1, <2>2, <2>3, <2>4, <2>5 DEF FamilyTypes
<1>7. ASSUME NEW c \in Procs PROVE TxnOK(c)
  <2>1. /\ txn[c].pc = "idle" /\ txn[c].row = None /\ txn[c].ents = <<>> /\ txn[c].n = 1
        /\ \A s \in Skus : txn[c].rows[s] = None /\ txn[c].log[s] = <<>>
    BY <1>5 DEF NoTxn
  <2>. QED
    BY <2>1 DEF TxnOK, Shape, ShapeOf, ProductOK, FoundOK, WrittenOK, PricedOK, Writing
<1>8. \A c \in Procs : ~Active(c)
  BY <1>5 DEF NoTxn
<1>9. \A c, d \in Procs : c # d => Exclusive(c, d)
  BY <1>8 DEF Exclusive, HoldsKey, HoldsProduct, HoldsCode, HoldsSid, Active
<1>10. Reserved
  <2>1. KeysAreOwned
    <3>1. ASSUME NEW p \in Products, prod[p] # None PROVE codeOwner[prod[p].code] = p
      <4>1. prod[p].code \in Codes
        BY <1>1, <3>1 DEF ProductRow
      <4>. QED
        BY <1>1, <1>2, <3>1, <4>1
    <3>2. ASSUME NEW s \in Skus, sku[s] # None PROVE sidOwner[sku[s].sid] = s
      <4>1. sku[s].sid \in Sids
        BY <1>1, <3>2 DEF SkuRow
      <4>. QED
        BY <1>1, <1>3, <3>2, <4>1
    <3>. QED
      BY <3>1, <3>2 DEF KeysAreOwned
  <2>2. ASSUME NEW f \in NewFields, InitSku[f.fresh] # None PROVE sidOwner[f.sid] # None
    <3>1. PICK s \in Skus : InitSku[s] # None /\ InitSku[s].sid = f.sid
      BY <2>2, EntityAssumption
    <3>2. f.sid \in Sids
      BY <1>1, <3>1 DEF SkuRow
    <3>. QED
      BY <1>3, <3>1, <3>2, Nones
  <2>3. ASSUME NEW f \in AllFields, f.ent # None PROVE InitSku[f.ent] # None
    <3>1. PICK q \in Requests : f \in Fields(q)
      BY DEF AllFields
    <3>2. q.skus \in Seq(SkuInput)
      BY RequestFields
    <3>3. f \in SkuInput
      BY <3>1, <3>2 DEF Fields
    <3>4. f.ent \in Skus
      BY <2>3, <3>3 DEF SkuInput
    <3>. QED
      BY <2>3, <3>4 DEF NothingInvented, Invented
  <2>. QED
    BY <1>1, <1>3, <2>1, <2>2, <2>3 DEF Reserved
<1>11. Ledgers
  BY <1>1, <1>4 DEF Ledgers
<1>12. \A k \in Keys : KeyOK(k)
  <2>1. \A k \in Keys : ran[k] = 0 /\ ~idem[k].live
    BY DEF FamilyInit, NoRecord
  <2>. QED
    BY <2>1 DEF KeyOK
<1>. QED
  BY <1>6, <1>7, <1>9, <1>10, <1>11, <1>12 DEF FamilyInv

LEMMA StepInv ==
    ASSUME FamilyInv, NEW c \in Procs, Step(c)
    PROVE  FamilyInv'
BY BeginInv, ReadProductInv, CheckKeysInv, ReadFamilyInv, WriteProductInv, ReadSkuInv,
   WriteSkuInv, CommitInv, AbortVictimInv DEF Step

\* A step of none of them.
LEMMA FamilySame ==
    ASSUME FamilyInv, UNCHANGED familyVars
    PROVE  FamilyInv'
<1>1. UNCHANGED <<tables, txn>> /\ idem' = idem /\ ran' = ran
  BY DEF familyVars, tables
<1>2. ASSUME NEW k \in Keys PROVE KeyOK(k)'
  <2>1. KeyOK(k) /\ txn' = txn
    BY <1>1 DEF FamilyInv
  <2>. QED
    BY <1>1, <2>1 DEF KeyOK, HoldsKey
<1>. QED
  BY <1>1, <1>2, SameTxns DEF FamilyInv, FamilyTypes

\* A publication writes the state of products and nothing else.
LEMMA Relabelled ==
    ASSUME FamilyInv, UNCHANGED <<sku, codeOwner, sidOwner, ledger, idem, ran, txn>>,
           prod' \in [Products -> ProductRow \cup {None}],
           \A p \in Products : /\ prod'[p] = None <=> prod[p] = None
                               /\ prod'[p] # None => prod'[p].code = prod[p].code
    PROVE  FamilyInv'
<1>1. FamilyTypes'
  BY DEF FamilyInv, FamilyTypes
<1>2. ASSUME NEW d \in Procs PROVE TxnOK(d)'
  <2>1. /\ Shape(d) /\ ProductOK(d) /\ FoundOK(d) /\ WrittenOK(d) /\ PricedOK(d)
        /\ txn'[d] = txn[d]
    BY Parts
  <2>2. Shape(d)'
    BY <2>1 DEF Shape
  <2>3. ProductOK(d)'
    <3>1. txn[d].pc \in {"family", "write"} => txn[d].q.p \in Products
      BY <2>1, RequestFields DEF Shape, ShapeOf
    <3>. QED
      BY <2>1, <3>1 DEF ProductOK
  <2>4. FoundOK(d)'
    BY <2>1 DEF FoundOK, OfFamily
  <2>5. WrittenOK(d)'
    BY <2>1 DEF WrittenOK
  <2>6. PricedOK(d)'
    BY <2>1 DEF PricedOK, History
  <2>. QED
    BY <2>2, <2>3, <2>4, <2>5, <2>6 DEF TxnOK
<1>3. ASSUME NEW d \in Procs, NEW e \in Procs, d # e PROVE Exclusive(d, e)'
  <2>1. Exclusive(d, e)
    BY <1>3 DEF FamilyInv
  <2>. QED
    BY <2>1 DEF Exclusive, HoldsKey, HoldsProduct, HoldsCode, HoldsSid
<1>4. Reserved' /\ Ledgers'
  BY DEF FamilyInv, Reserved, KeysAreOwned, Ledgers, History
<1>5. ASSUME NEW k \in Keys PROVE KeyOK(k)'
  <2>1. KeyOK(k)
    BY DEF FamilyInv
  <2>. QED
    BY <2>1 DEF KeyOK, HoldsKey
<1>. QED
  BY <1>1, <1>2, <1>3, <1>4, <1>5 DEF FamilyInv

-----------------------------------------------------------------------------
(* Publications and cleanups.                                                *)

JobStages ==
    {"idle", "intent", "temp", "replace", "commit", "failing", "unlink", "abandon", "prune", "done"}
JobRecord ==
    [pc : JobStages, export : Exports, committed : SUBSET Procs, active : SUBSET Procs,
     abandoned : SUBSET Procs, failed : BOOLEAN]

PubTypes ==
    /\ art \in [Procs -> Artifact \cup {None}]
    /\ job \in [Procs -> JobRecord]
    /\ issued \subseteq Procs

\* What is exported is in the tables.
Sound(export) == \A p \in Products : export[p] # None => prod[p] # None

FileKept(a) ==
    \/ <<"csv", a>> \in files
    \/ \E c \in Cleaners : job[c].pc = "done" /\ a \notin job[c].active \cup job[c].committed
    \/ job[a].failed

JobOK(c) ==
    /\ job[c].pc \in {"temp", "replace", "commit", "failing", "unlink"} => art[c] \in Artifact
    /\ job[c].pc \in {"failing", "unlink"} => job[c].failed
    /\ job[c].pc \in {"abandon", "prune"} => c \in Cleaners
    /\ job[c].pc = "commit" => FileKept(c)
    /\ \A a \in job[c].abandoned : art[a] \in Artifact
    /\ Sound(job[c].export)

IssuedOK ==
    /\ \A a \in issued : art[a] \in Artifact /\ job[a].pc \in {"unlink", "done"}
    /\ \A a \in Procs : art[a] \in Artifact => Sound(art[a].export)

PubInv ==
    /\ FamilyInv
    /\ PubTypes
    /\ \A c \in Procs : JobOK(c)
    /\ IssuedOK
    /\ NoFalsePublished
    /\ IssuedKeepsItsFile

LEMMA Lasting ==
    ASSUME PubTypes, NEW c \in Procs, job' \in [Procs -> JobRecord],
           \A d \in Procs \ {c} : job'[d] = job[d],
           job[c].pc = "done" => job'[c] = job[c],
           job[c].failed => job'[c].failed,
           \A a \in Procs : <<"csv", a>> \in files => FileKept(a)',
           NEW a \in Procs, FileKept(a)
    PROVE  FileKept(a)'
<1>1. CASE <<"csv", a>> \in files
  BY <1>1
<1>2. CASE \E d \in Cleaners : job[d].pc = "done" /\ a \notin job[d].active \cup job[d].committed
  <2>1. PICK d \in Cleaners : job[d].pc = "done" /\ a \notin job[d].active \cup job[d].committed
    BY <1>2
  <2>2. job'[d] = job[d]
    BY <2>1, PublicationAssumption
  <2>. QED
    BY <2>1, <2>2 DEF FileKept
<1>3. CASE job[a].failed
  BY <1>3 DEF FileKept
<1>. QED
  BY <1>1, <1>2, <1>3 DEF FileKept

\* A step of one publication or cleanup that commits nothing.
LEMMA JobStep ==
    ASSUME PubInv, NEW c \in Procs, UNCHANGED familyVars, issued' = issued,
           job' \in [Procs -> JobRecord], \A d \in Procs \ {c} : job'[d] = job[d],
           job[c].pc = "done" => job'[c] = job[c],
           job[c].failed => job'[c].failed,
           c \in issued => job'[c].pc \in {"unlink", "done"},
           art' \in [Procs -> Artifact \cup {None}],
           \A a \in Procs : art[a] \in Artifact => art'[a] \in Artifact,
           \A a \in issued : art'[a].export = art[a].export,
           \A a \in Procs : art'[a] \in Artifact => Sound(art'[a].export),
           \A a \in Procs : <<"csv", a>> \in files => FileKept(a)',
           JobOK(c)'
    PROVE  PubInv'
<1>1. FamilyInv' /\ prod' = prod
  BY FamilySame DEF PubInv, familyVars
<1>2. PubTypes'
  BY DEF PubInv, PubTypes
<1>3. ASSUME NEW a \in Procs, FileKept(a) PROVE FileKept(a)'
  BY <1>3, Lasting DEF PubInv
<1>4. ASSUME NEW d \in Procs PROVE JobOK(d)'
  <2>1. CASE d = c
    BY <2>1
  <2>2. CASE d # c
    <3>1. job'[d] = job[d] /\ JobOK(d) /\ job[d].abandoned \subseteq Procs
      BY <2>2 DEF PubInv, PubTypes, JobRecord
    <3>. QED
      BY <1>1, <1>3, <3>1 DEF JobOK, Sound
  <2>. QED
    BY <2>1, <2>2
<1>5. IssuedOK'
  <2>1. ASSUME NEW a \in issued PROVE art'[a] \in Artifact /\ job'[a].pc \in {"unlink", "done"}
    <3>1. a \in Procs /\ art[a] \in Artifact /\ job[a].pc \in {"unlink", "done"}
      BY DEF PubInv, PubTypes, IssuedOK
    <3>. QED
      BY <3>1
  <2>. QED
    BY <1>1, <2>1 DEF IssuedOK, Sound
<1>6. NoFalsePublished'
  BY <1>1 DEF PubInv, NoFalsePublished
<1>7. IssuedKeepsItsFile'
  BY <1>3 DEF PubInv, PubTypes, IssuedKeepsItsFile, FileKept
<1>. QED
  BY <1>1, <1>2, <1>4, <1>5, <1>6, <1>7 DEF PubInv

LEMMA JobParts ==
    ASSUME PubInv, NEW c \in Procs
    PROVE  /\ job[c] \in JobRecord /\ JobOK(c) /\ job \in [Procs -> JobRecord]
           /\ art \in [Procs -> Artifact \cup {None}] /\ issued \subseteq Procs
           /\ c \in issued => art[c] \in Artifact /\ job[c].pc \in {"unlink", "done"}
           /\ \A a \in Procs : art[a] \in Artifact => Sound(art[a].export)
BY DEF PubInv, PubTypes, IssuedOK

LEMMA ReadCatalogueInv ==
    ASSUME PubInv, NEW c \in Procs, ReadCatalogue(c)
    PROVE  PubInv'
<1> DEFINE found == {p \in Products : Exportable(p)}
           export == [p \in Products |-> IF p \in found THEN Content(p) ELSE None]
<1>1. /\ job[c] \in JobRecord /\ JobOK(c) /\ job \in [Procs -> JobRecord] /\ c \notin issued
      /\ art \in [Procs -> Artifact \cup {None}]
      /\ \A a \in Procs : art[a] \in Artifact => Sound(art[a].export)
  BY JobParts DEF ReadCatalogue
<1>2. /\ job[c].pc = "idle" /\ UNCHANGED familyVars /\ art' = art /\ files' = files
      /\ issued' = issued
      /\ job' = [job EXCEPT ![c].pc = "done"]
         \/ job' = [job EXCEPT ![c].pc = "intent", ![c].export = export]
  BY DEF ReadCatalogue
<1>3. export \in Exports /\ Sound(export)
  <2>1. /\ prod \in [Products -> ProductRow \cup {None}] /\ sku \in [Skus -> SkuRow \cup {None}]
    BY DEF PubInv, FamilyInv, FamilyTypes
  <2>2. ASSUME NEW p \in found
        PROVE  Content(p) \in [code : Codes, full : BOOLEAN, skus : SUBSET SkuRow] /\ prod[p] # None
    <3>1. prod[p] # None /\ prod[p] \in ProductRow
      BY <2>1 DEF Exportable
    <3>2. {sku[s] : s \in Rows(p)} \subseteq SkuRow
      BY <2>1 DEF Rows
    <3>. QED
      BY <3>1, <3>2 DEF Content, ProductRow
  <2>. QED
    BY <2>2 DEF Exports, Sound
<1> HIDE DEF export
<1>4. CASE job' = [job EXCEPT ![c].pc = "done"]
  <2>1. job' \in [Procs -> JobRecord] /\ \A d \in Procs \ {c} : job'[d] = job[d]
    BY <1>1, <1>4 DEF JobRecord, JobStages
  <2>2. /\ job'[c].pc = "done" /\ job'[c].export = job[c].export /\ job'[c].failed = job[c].failed
        /\ job'[c].abandoned = job[c].abandoned
    BY <1>1, <1>4 DEF JobRecord
  <2>3. prod' = prod
    BY <1>2 DEF familyVars
  <2>4. JobOK(c)'
    BY <1>1, <1>2, <2>2, <2>3 DEF JobOK, Sound
  <2>. QED
    BY <1>1, <1>2, <2>1, <2>2, <2>4, JobStep DEF FileKept
<1>5. CASE job' = [job EXCEPT ![c].pc = "intent", ![c].export = export]
  <2>1. job' \in [Procs -> JobRecord] /\ \A d \in Procs \ {c} : job'[d] = job[d]
    BY <1>1, <1>3, <1>5 DEF JobRecord, JobStages
  <2>2. /\ job'[c].pc = "intent" /\ job'[c].export = export /\ job'[c].failed = job[c].failed
        /\ job'[c].abandoned = job[c].abandoned
    BY <1>1, <1>5 DEF JobRecord
  <2>3. prod' = prod
    BY <1>2 DEF familyVars
  <2>4. JobOK(c)'
    BY <1>1, <1>2, <1>3, <2>2, <2>3 DEF JobOK, Sound
  <2>. QED
    BY <1>1, <1>2, <2>1, <2>2, <2>4, JobStep DEF FileKept
<1>. QED
  BY <1>2, <1>4, <1>5

\* A step of one publication that leaves the artifacts' contents and keeps its own data.
LEMMA Moves ==
    ASSUME PubInv, NEW c \in Procs, UNCHANGED familyVars, issued' = issued,
           NEW pc \in JobStages, NEW failed \in BOOLEAN,
           job' = [job EXCEPT ![c].pc = pc, ![c].failed = failed],
           job[c].pc # "done", job[c].failed => failed,
           c \in issued => pc \in {"unlink", "done"},
           art' \in [Procs -> Artifact \cup {None}],
           \A a \in Procs : art[a] \in Artifact => art'[a] \in Artifact,
           \A a \in issued : art'[a].export = art[a].export,
           \A a \in Procs : art'[a] \in Artifact => Sound(art'[a].export),
           \A a \in Procs : <<"csv", a>> \in files => FileKept(a)',
           pc \in {"temp", "replace", "commit", "failing", "unlink"} => art'[c] \in Artifact,
           pc \in {"failing", "unlink"} => failed,
           pc \in {"abandon", "prune"} => c \in Cleaners,
           pc = "commit" => FileKept(c)'
    PROVE  /\ PubInv'
           /\ job'[c].pc = pc /\ job'[c].failed = failed
<1>1. /\ job[c] \in JobRecord /\ JobOK(c) /\ job \in [Procs -> JobRecord]
  BY JobParts
<1>2. job' \in [Procs -> JobRecord] /\ \A d \in Procs \ {c} : job'[d] = job[d]
  BY <1>1 DEF JobRecord
<1>3. /\ job'[c].pc = pc /\ job'[c].export = job[c].export /\ job'[c].failed = failed
      /\ job'[c].abandoned = job[c].abandoned /\ job[c].abandoned \subseteq Procs
  BY <1>1 DEF JobRecord
<1>4. prod' = prod
  BY DEF familyVars
<1>5. JobOK(c)'
  BY <1>1, <1>3, <1>4 DEF JobOK, Sound
<1>. QED
  BY <1>2, <1>3, <1>5, JobStep

LEMMA OnlyMoves ==
    ASSUME PubInv, NEW c \in Procs, NEW pc, job' = [job EXCEPT ![c].pc = pc]
    PROVE  \E failed \in BOOLEAN :
             /\ job' = [job EXCEPT ![c].pc = pc, ![c].failed = failed]
             /\ failed = job[c].failed
<1>1. job[c] \in JobRecord
  BY JobParts
<1>2. job[c].failed \in BOOLEAN /\ [job[c] EXCEPT !.pc = pc] = [job[c] EXCEPT !.pc = pc, !.failed = job[c].failed]
  BY <1>1 DEF JobRecord
<1>. QED
  BY <1>2

\* The same when nothing else changes but files that are added.
LEMMA OnlyWrites ==
    ASSUME PubInv, NEW c \in Procs, UNCHANGED <<familyVars, art, issued>>,
           NEW pc \in JobStages, NEW failed \in BOOLEAN,
           job' = [job EXCEPT ![c].pc = pc, ![c].failed = failed],
           job[c].pc # "done", job[c].failed => failed,
           c \in issued => pc \in {"unlink", "done"},
           \A a \in Procs : <<"csv", a>> \in files => FileKept(a)',
           pc \in {"temp", "replace", "commit", "failing", "unlink"} => art[c] \in Artifact,
           pc \in {"failing", "unlink"} => failed,
           pc \in {"abandon", "prune"} => c \in Cleaners,
           pc = "commit" => FileKept(c)'
    PROVE  PubInv'
<1>1. /\ art \in [Procs -> Artifact \cup {None}]
      /\ \A a \in Procs : art[a] \in Artifact => Sound(art[a].export)
  BY JobParts
<1>. QED
  BY <1>1, Moves

LEMMA RegisterIntentInv ==
    ASSUME PubInv, NEW c \in Procs, RegisterIntent(c)
    PROVE  PubInv'
<1> DEFINE row == [status |-> "IN_PROGRESS", leased |-> TRUE, export |-> job[c].export]
<1>1. /\ job[c].pc = "intent" /\ job' = [job EXCEPT ![c].pc = "temp"]
      /\ art' = [art EXCEPT ![c] = row]
      /\ UNCHANGED familyVars /\ files' = files /\ issued' = issued
  BY DEF RegisterIntent
<1>2. /\ art \in [Procs -> Artifact \cup {None}] /\ c \notin issued /\ issued \subseteq Procs
      /\ Sound(job[c].export) /\ job[c].export \in Exports
      /\ \A a \in Procs : art[a] \in Artifact => Sound(art[a].export)
  BY <1>1, JobParts DEF JobOK, JobRecord
<1>3. row \in Artifact /\ row.export = job[c].export
  BY <1>2 DEF Artifact, Statuses
<1> HIDE DEF row
<1>4. /\ art' \in [Procs -> Artifact \cup {None}] /\ art'[c] = row
      /\ \A a \in Procs \ {c} : art'[a] = art[a]
  BY <1>1, <1>2, <1>3
<1>5. PICK failed \in BOOLEAN : /\ job' = [job EXCEPT ![c].pc = "temp", ![c].failed = failed]
                                /\ failed = job[c].failed
  BY <1>1, OnlyMoves
<1>6. /\ \A a \in Procs : art[a] \in Artifact => art'[a] \in Artifact
      /\ \A a \in Procs : art'[a] \in Artifact => Sound(art'[a].export)
      /\ \A a \in issued : art'[a].export = art[a].export
  BY <1>2, <1>3, <1>4
<1>7. \A a \in Procs : <<"csv", a>> \in files => FileKept(a)'
  BY <1>1 DEF FileKept
<1>8. "temp" \in JobStages
  BY DEF JobStages
<1>. QED
  <2>1. /\ UNCHANGED familyVars /\ issued' = issued /\ job[c].pc # "done" /\ c \notin issued
        /\ job[c].failed => failed
        /\ art'[c] \in Artifact /\ art' \in [Procs -> Artifact \cup {None}]
    BY <1>1, <1>2, <1>3, <1>4, <1>5
  <2>2. job' = [job EXCEPT ![c].pc = "temp", ![c].failed = failed]
    BY <1>5
  <2>. QED
    BY <1>6, <1>7, <1>8, <2>1, <2>2, Moves

LEMMA WriteTempInv ==
    ASSUME PubInv, NEW c \in Procs, WriteTemp(c)
    PROVE  PubInv'
<1>1. /\ job[c].pc = "temp" /\ job' = [job EXCEPT ![c].pc = "replace"]
      /\ UNCHANGED <<familyVars, art, issued>> /\ files \subseteq files'
  BY DEF WriteTemp
<1>2. art[c] \in Artifact /\ c \notin issued
  BY <1>1, JobParts DEF JobOK
<1>3. PICK failed \in BOOLEAN : /\ job' = [job EXCEPT ![c].pc = "replace", ![c].failed = failed]
                                /\ failed = job[c].failed
  BY <1>1, OnlyMoves
<1>4. "replace" \in JobStages
  BY DEF JobStages
<1>5. \A a \in Procs : <<"csv", a>> \in files => FileKept(a)'
  BY <1>1 DEF FileKept
<1>. QED
  <2>1. /\ UNCHANGED <<familyVars, art, issued>> /\ job[c].pc # "done" /\ c \notin issued
        /\ job[c].failed => failed
        /\ art[c] \in Artifact
    BY <1>1, <1>2, <1>3
  <2>2. job' = [job EXCEPT ![c].pc = "replace", ![c].failed = failed]
    BY <1>3
  <2>. QED
    BY <1>4, <1>5, <2>1, <2>2, OnlyWrites

LEMMA ReplaceInv ==
    ASSUME PubInv, NEW c \in Procs, Replace(c)
    PROVE  PubInv'
<1>1. job[c].pc = "replace" /\ UNCHANGED <<familyVars, art, issued>>
  BY DEF Replace
<1>2. art[c] \in Artifact /\ c \notin issued
  BY <1>1, JobParts DEF JobOK
<1>3. CASE /\ files' = (files \ {<<"tmp", c>>}) \cup {<<"csv", c>>}
           /\ job' = [job EXCEPT ![c].pc = "commit"]
  <2>1. PICK failed \in BOOLEAN : /\ job' = [job EXCEPT ![c].pc = "commit", ![c].failed = failed]
                                  /\ failed = job[c].failed
    BY <1>3, OnlyMoves
  <2>2. \A a \in Procs : <<"csv", a>> \in files => <<"csv", a>> \in files'
    BY <1>3
  <2>3. <<"csv", c>> \in files' /\ "commit" \in JobStages
    BY <1>3 DEF JobStages
  <2>. QED
    BY <1>1, <1>2, <2>1, <2>2, <2>3, OnlyWrites DEF FileKept
<1>4. CASE job' = [job EXCEPT ![c].pc = "failing", ![c].failed = TRUE] /\ files' = files
  <2>1. "failing" \in JobStages
    BY DEF JobStages
  <2>. QED
    BY <1>1, <1>2, <1>4, <2>1, OnlyWrites DEF FileKept
<1>. QED
  BY <1>3, <1>4 DEF Replace

LEMMA RaiseInv ==
    ASSUME PubInv, NEW c \in Procs, Raise(c)
    PROVE  PubInv'
<1>1. /\ job[c].pc \in {"temp", "replace", "commit"}
      /\ job' = [job EXCEPT ![c].pc = "failing", ![c].failed = TRUE]
      /\ UNCHANGED <<familyVars, art, issued>> /\ files' = files
  BY DEF Raise
<1>2. art[c] \in Artifact /\ c \notin issued
  BY <1>1, JobParts DEF JobOK
<1>3. "failing" \in JobStages
  BY DEF JobStages
<1>. QED
  BY <1>1, <1>2, <1>3, OnlyWrites DEF FileKept

LEMMA MarkFailedInv ==
    ASSUME PubInv, NEW c \in Procs, MarkFailed(c)
    PROVE  PubInv'
<1>1. /\ job[c].pc = "failing" /\ job' = [job EXCEPT ![c].pc = "unlink"]
      /\ UNCHANGED <<familyVars, issued>> /\ files' = files
      /\ art' = [art EXCEPT ![c].status = "FAILED"] \/ art' = art
  BY DEF MarkFailed
<1>2. /\ art[c] \in Artifact /\ job[c].failed /\ c \notin issued
      /\ art \in [Procs -> Artifact \cup {None}]
      /\ \A a \in Procs : art[a] \in Artifact => Sound(art[a].export)
  BY <1>1, JobParts DEF JobOK
<1>3. PICK failed \in BOOLEAN : /\ job' = [job EXCEPT ![c].pc = "unlink", ![c].failed = failed]
                                /\ failed = job[c].failed
  BY <1>1, OnlyMoves
<1>4. "unlink" \in JobStages /\ "FAILED" \in Statuses
  BY DEF JobStages, Statuses
<1>5. /\ art' \in [Procs -> Artifact \cup {None}] /\ art'[c] \in Artifact
      /\ \A a \in Procs \ {c} : art'[a] = art[a]
      /\ art'[c].export = art[c].export
  BY <1>1, <1>2, <1>4 DEF Artifact
<1>6. /\ \A a \in Procs : art[a] \in Artifact => art'[a] \in Artifact
      /\ \A a \in Procs : art'[a] \in Artifact => Sound(art'[a].export)
      /\ \A a \in issued : art'[a].export = art[a].export
  <2>1. issued \subseteq Procs /\ Sound(art[c].export)
    BY <1>2, JobParts
  <2>. QED
    BY <1>2, <1>5, <2>1
<1>7. \A a \in Procs : <<"csv", a>> \in files => FileKept(a)'
  BY <1>1 DEF FileKept
<1>8. /\ UNCHANGED familyVars /\ issued' = issued
      /\ job[c].pc # "done" /\ c \notin issued /\ job[c].failed
      /\ art'[c] \in Artifact /\ art' \in [Procs -> Artifact \cup {None}]
  BY <1>1, <1>2, <1>5
<1>. QED
  BY <1>3, <1>4, <1>6, <1>7, <1>8, Moves

LEMMA UnlinkInv ==
    ASSUME PubInv, NEW c \in Procs, Unlink(c)
    PROVE  PubInv'
<1>1. /\ job[c].pc = "unlink" /\ job' = [job EXCEPT ![c].pc = "done"]
      /\ UNCHANGED <<familyVars, art, issued>>
      /\ files' = files \ {<<"csv", c>>, <<"tmp", c>>}
  BY DEF Unlink
<1>2. job[c].failed /\ job[c] \in JobRecord /\ job \in [Procs -> JobRecord]
  BY <1>1, JobParts DEF JobOK
<1>3. PICK failed \in BOOLEAN : /\ job' = [job EXCEPT ![c].pc = "done", ![c].failed = failed]
                                /\ failed = job[c].failed
  BY <1>1, OnlyMoves
<1>4. ASSUME NEW a \in Procs, <<"csv", a>> \in files PROVE FileKept(a)'
  <2>1. CASE a = c
    <3>1. job'[c].failed
      BY <1>1, <1>2 DEF JobRecord
    <3>. QED
      BY <2>1, <3>1 DEF FileKept
  <2>2. CASE a # c
    BY <1>1, <1>4, <2>2 DEF FileKept
  <2>. QED
    BY <2>1, <2>2
<1>5. "done" \in JobStages
  BY DEF JobStages
<1>. QED
  <2>1. UNCHANGED <<familyVars, art, issued>> /\ job[c].pc # "done" /\ (job[c].failed => failed)
    BY <1>1, <1>3
  <2>2. job' = [job EXCEPT ![c].pc = "done", ![c].failed = failed]
    BY <1>3
  <2>. QED
    BY <1>4, <1>5, <2>1, <2>2, OnlyWrites

LEMMA CrashInv ==
    ASSUME PubInv, NEW c \in Procs, Crash(c)
    PROVE  PubInv'
<1>1. /\ job[c].pc # "done" /\ job' = [job EXCEPT ![c].pc = "done"]
      /\ UNCHANGED <<familyVars, art, issued>> /\ files' = files
  BY DEF Crash
<1>2. PICK failed \in BOOLEAN : /\ job' = [job EXCEPT ![c].pc = "done", ![c].failed = failed]
                                /\ failed = job[c].failed
  BY <1>1, OnlyMoves
<1>3. \A a \in Procs : <<"csv", a>> \in files => FileKept(a)'
  BY <1>1 DEF FileKept
<1>4. "done" \in JobStages
  BY DEF JobStages
<1>. QED
  <2>1. UNCHANGED <<familyVars, art, issued>> /\ job[c].pc # "done" /\ (job[c].failed => failed)
    BY <1>1, <1>2
  <2>2. job' = [job EXCEPT ![c].pc = "done", ![c].failed = failed]
    BY <1>2
  <2>. QED
    BY <1>3, <1>4, <2>1, <2>2, OnlyWrites

LEMMA PruneInv ==
    ASSUME PubInv, NEW c \in Procs, Prune(c)
    PROVE  PubInv'
<1>1. /\ job[c].pc = "prune" /\ job' = [job EXCEPT ![c].pc = "done"]
      /\ UNCHANGED <<familyVars, art, issued>> /\ files' = {f \in files : Keeps(c, f)}
  BY DEF Prune
<1>2. /\ job[c] \in JobRecord /\ job \in [Procs -> JobRecord] /\ c \in Cleaners /\ c \notin issued
  BY <1>1, JobParts DEF JobOK
<1>3. PICK failed \in BOOLEAN : /\ job' = [job EXCEPT ![c].pc = "done", ![c].failed = failed]
                                /\ failed = job[c].failed
  BY <1>1, OnlyMoves
<1>4. /\ job'[c].pc = "done" /\ job'[c].active = job[c].active
      /\ job'[c].committed = job[c].committed
  BY <1>1, <1>2 DEF JobRecord
<1>5. ASSUME NEW a \in Procs, <<"csv", a>> \in files PROVE FileKept(a)'
  <2>1. CASE a \in job[c].active \cup job[c].committed
    <3>1. Keeps(c, <<"csv", a>>)
      BY <2>1 DEF Keeps
    <3>. QED
      BY <1>1, <1>5, <3>1 DEF FileKept
  <2>2. CASE a \notin job[c].active \cup job[c].committed
    BY <1>2, <1>4, <2>2 DEF FileKept
  <2>. QED
    BY <2>1, <2>2
<1>6. "done" \in JobStages
  BY DEF JobStages
<1>. QED
  <2>1. UNCHANGED <<familyVars, art, issued>> /\ job[c].pc # "done" /\ (job[c].failed => failed)
    BY <1>1, <1>3
  <2>2. job' = [job EXCEPT ![c].pc = "done", ![c].failed = failed]
    BY <1>3
  <2>. QED
    BY <1>5, <1>6, <2>1, <2>2, OnlyWrites

LEMMA AbandonInv ==
    ASSUME PubInv, NEW c \in Procs, Abandon(c)
    PROVE  PubInv'
<1>1. /\ job[c].pc = "abandon" /\ job' = [job EXCEPT ![c].pc = "prune"]
      /\ UNCHANGED familyVars /\ issued' = issued /\ files' = files
      /\ art' = [a \in Procs |-> IF a \in job[c].abandoned
                                 THEN [art[a] EXCEPT !.status = "FAILED"] ELSE art[a]]
  BY DEF Abandon
<1>2. /\ c \in Cleaners /\ c \notin issued /\ issued \subseteq Procs
      /\ \A a \in job[c].abandoned : art[a] \in Artifact
      /\ art \in [Procs -> Artifact \cup {None}]
      /\ \A a \in Procs : art[a] \in Artifact => Sound(art[a].export)
  BY <1>1, JobParts DEF JobOK
<1>3. PICK failed \in BOOLEAN : /\ job' = [job EXCEPT ![c].pc = "prune", ![c].failed = failed]
                                /\ failed = job[c].failed
  BY <1>1, OnlyMoves
<1>4. ASSUME NEW a \in Procs
      PROVE  /\ art'[a] \in Artifact \cup {None}
             /\ art[a] \in Artifact => art'[a] \in Artifact /\ art'[a].export = art[a].export
             /\ art'[a] \in Artifact => Sound(art'[a].export)
  <2>1. CASE a \in job[c].abandoned
    <3>1. art[a] \in Artifact /\ art'[a] = [art[a] EXCEPT !.status = "FAILED"]
      BY <1>1, <1>2, <2>1
    <3>2. art'[a] \in Artifact /\ art'[a].export = art[a].export
      BY <3>1 DEF Artifact, Statuses
    <3>. QED
      BY <1>2, <3>1, <3>2
  <2>2. CASE a \notin job[c].abandoned
    <3>1. art'[a] = art[a]
      BY <1>1, <2>2
    <3>. QED
      BY <1>2, <3>1
  <2>. QED
    BY <2>1, <2>2
<1>5. art' \in [Procs -> Artifact \cup {None}]
  <2>1. art' = [a \in Procs |-> art'[a]]
    BY <1>1
  <2>. QED
    BY <1>4, <2>1
<1>6. \A a \in issued : art'[a].export = art[a].export
  <2>1. \A a \in issued : a \in Procs /\ art[a] \in Artifact
    BY <1>2, JobParts
  <2>. QED
    BY <1>4, <2>1
<1>7. \A a \in Procs : <<"csv", a>> \in files => FileKept(a)'
  BY <1>1 DEF FileKept
<1>8. "prune" \in JobStages
  BY DEF JobStages
<1>. QED
  <2>1. /\ UNCHANGED familyVars /\ issued' = issued /\ job[c].pc # "done" /\ c \notin issued
        /\ job[c].failed => failed
        /\ c \in Cleaners
    BY <1>1, <1>2, <1>3
  <2>2. job' = [job EXCEPT ![c].pc = "prune", ![c].failed = failed]
    BY <1>3
  <2>. QED
    BY <1>4, <1>5, <1>6, <1>7, <1>8, <2>1, <2>2, Moves

LEMMA LeaseExpiresInv ==
    ASSUME PubInv, NEW c \in Procs, LeaseExpires(c)
    PROVE  PubInv'
<1>1. /\ art[c] # None /\ art' = [art EXCEPT ![c].leased = FALSE] /\ job' = job
      /\ UNCHANGED familyVars /\ issued' = issued /\ files' = files
  BY DEF LeaseExpires
<1>2. /\ job[c] \in JobRecord /\ JobOK(c) /\ job \in [Procs -> JobRecord]
      /\ art \in [Procs -> Artifact \cup {None}] /\ issued \subseteq Procs
      /\ c \in issued => job[c].pc \in {"unlink", "done"}
      /\ \A a \in Procs : art[a] \in Artifact => Sound(art[a].export)
  BY JobParts
<1>3. /\ art[c] \in Artifact /\ art'[c] \in Artifact /\ art'[c].export = art[c].export
      /\ art' \in [Procs -> Artifact \cup {None}]
      /\ \A a \in Procs \ {c} : art'[a] = art[a]
  BY <1>1, <1>2 DEF Artifact
<1>4. /\ \A a \in Procs : art[a] \in Artifact => art'[a] \in Artifact
      /\ \A a \in Procs : art'[a] \in Artifact => Sound(art'[a].export)
      /\ \A a \in issued : art'[a].export = art[a].export
  BY <1>2, <1>3
<1>5. \A a \in Procs : <<"csv", a>> \in files => FileKept(a)'
  BY <1>1 DEF FileKept
<1>6. JobOK(c)'
  <2>1. prod' = prod /\ job[c].abandoned \subseteq Procs
    BY <1>1, <1>2 DEF familyVars, JobRecord
  <2>2. job[c].pc = "commit" => FileKept(c)'
    BY <1>1, <1>2 DEF JobOK, FileKept
  <2>. QED
    BY <1>1, <1>2, <1>3, <1>4, <2>1, <2>2 DEF JobOK, Sound
<1>. QED
  BY <1>1, <1>2, <1>3, <1>4, <1>5, <1>6, JobStep

LEMMA ScanInv ==
    ASSUME PubInv, NEW c \in Procs, Scan(c)
    PROVE  PubInv'
<1> DEFINE known == {a \in Procs : art[a] # None}
           open == {a \in known : art[a].status = "IN_PROGRESS"}
           committed == {a \in known : art[a].status = "COMMITTED"}
           active == {a \in open : art[a].leased}
           abandoned == {a \in open : ~art[a].leased}
<1>1. /\ job[c].pc = "idle" /\ c \in Cleaners
      /\ job' = [job EXCEPT ![c].pc = "abandon", ![c].committed = committed,
                            ![c].active = active, ![c].abandoned = abandoned]
      /\ UNCHANGED familyVars /\ art' = art /\ issued' = issued /\ files' = files
  BY DEF Scan
<1>2. /\ job[c] \in JobRecord /\ JobOK(c) /\ job \in [Procs -> JobRecord] /\ c \notin issued
      /\ art \in [Procs -> Artifact \cup {None}]
      /\ \A a \in Procs : art[a] \in Artifact => Sound(art[a].export)
  BY <1>1, JobParts
<1>3. /\ committed \subseteq Procs /\ active \subseteq Procs /\ abandoned \subseteq Procs
      /\ \A a \in abandoned : art[a] \in Artifact
  BY <1>2
<1> HIDE DEF committed, active, abandoned
<1>4. job' \in [Procs -> JobRecord] /\ \A d \in Procs \ {c} : job'[d] = job[d]
  BY <1>1, <1>2, <1>3 DEF JobRecord, JobStages
<1>5. /\ job'[c].pc = "abandon" /\ job'[c].export = job[c].export
      /\ job'[c].failed = job[c].failed /\ job'[c].abandoned = abandoned
  BY <1>1, <1>2 DEF JobRecord
<1>6. prod' = prod
  BY <1>1 DEF familyVars
<1>7. JobOK(c)'
  BY <1>1, <1>2, <1>3, <1>5, <1>6 DEF JobOK, Sound
<1>8. \A a \in Procs : <<"csv", a>> \in files => FileKept(a)'
  BY <1>1 DEF FileKept
<1>. QED
  <2>1. job[c].pc # "done" /\ (job[c].failed => job'[c].failed)
    BY <1>1, <1>5
  <2>2. /\ UNCHANGED familyVars /\ issued' = issued /\ art' = art /\ c \notin issued
    BY <1>1, <1>2
  <2>. QED
    BY <1>2, <1>4, <1>7, <1>8, <2>1, <2>2, JobStep

\* The commit of a publication, whether its answer arrives or not.
LEMMA IssueInv ==
    ASSUME PubInv, NEW c \in Procs, job[c].pc = "commit", Commits(c),
           job' = [job EXCEPT ![c].pc = "done"]
           \/ job' = [job EXCEPT ![c].pc = "unlink", ![c].failed = TRUE]
    PROVE  PubInv'
<1>1. /\ job[c] \in JobRecord /\ JobOK(c) /\ job \in [Procs -> JobRecord]
      /\ art[c] \in Artifact /\ FileKept(c)
      /\ art \in [Procs -> Artifact \cup {None}] /\ issued \subseteq Procs
      /\ \A a \in Procs : art[a] \in Artifact => Sound(art[a].export)
      /\ \A a \in issued : art[a] \in Artifact /\ job[a].pc \in {"unlink", "done"}
  BY JobParts DEF JobOK
<1>2. /\ art' = [art EXCEPT ![c].status = "COMMITTED"] /\ issued' = issued \cup {c}
      /\ prod' = [p \in Products |-> IF art[c].export[p] # None
                                     THEN [prod[p] EXCEPT !.state = "PUBLISHED"] ELSE prod[p]]
      /\ UNCHANGED <<sku, codeOwner, sidOwner, ledger, idem, ran, txn>> /\ files' = files
  BY DEF Commits, Published, Exported
<1>3. prod \in [Products -> ProductRow \cup {None}]
  BY DEF PubInv, FamilyInv, FamilyTypes
<1>4. ASSUME NEW p \in Products
      PROVE  /\ prod'[p] \in ProductRow \cup {None}
             /\ prod'[p] = None <=> prod[p] = None
             /\ prod'[p] # None => prod'[p].code = prod[p].code
             /\ art[c].export[p] = None => prod'[p] = prod[p]
  <2>1. CASE art[c].export[p] # None
    <3>1. prod[p] \in ProductRow
      BY <1>1, <1>3, <2>1 DEF Sound
    <3>2. prod'[p] = [prod[p] EXCEPT !.state = "PUBLISHED"]
      BY <1>2, <2>1
    <3>3. prod'[p] \in ProductRow /\ prod'[p].code = prod[p].code
      BY <3>1, <3>2 DEF ProductRow, States
    <3>. QED
      BY <2>1, <3>1, <3>3, Nones
  <2>2. CASE art[c].export[p] = None
    <3>1. prod'[p] = prod[p]
      BY <1>2, <2>2
    <3>. QED
      BY <1>3, <3>1
  <2>. QED
    BY <2>1, <2>2
<1>5. prod' \in [Products -> ProductRow \cup {None}]
  <2>1. prod' = [p \in Products |-> prod'[p]]
    BY <1>2
  <2>. QED
    BY <1>4, <2>1
<1>6. FamilyInv'
  <2>1. FamilyInv
    BY DEF PubInv
  <2>. QED
    BY <1>2, <1>4, <1>5, <2>1, Relabelled
<1>7. /\ art' \in [Procs -> Artifact \cup {None}] /\ art'[c] \in Artifact
      /\ art'[c].export = art[c].export /\ \A a \in Procs \ {c} : art'[a] = art[a]
  BY <1>1, <1>2 DEF Artifact, Statuses
<1>8. /\ job' \in [Procs -> JobRecord] /\ \A d \in Procs \ {c} : job'[d] = job[d]
      /\ job'[c].pc \in {"unlink", "done"} /\ job'[c].export = job[c].export
      /\ job'[c].abandoned = job[c].abandoned
      /\ job[c].failed => job'[c].failed
      /\ job'[c].pc = "unlink" => job'[c].failed
  <2>1. CASE job' = [job EXCEPT ![c].pc = "done"]
    BY <1>1, <2>1 DEF JobRecord, JobStages
  <2>2. CASE job' = [job EXCEPT ![c].pc = "unlink", ![c].failed = TRUE]
    BY <1>1, <2>2 DEF JobRecord, JobStages
  <2>. QED
    BY <2>1, <2>2
<1>9. ASSUME NEW a \in Procs, FileKept(a) PROVE FileKept(a)'
  <2>1. /\ PubTypes /\ job[c].pc # "done"
        /\ \A d \in Procs : <<"csv", d>> \in files => FileKept(d)'
    BY <1>2 DEF PubInv, FileKept
  <2>. QED
    BY <1>8, <1>9, <2>1, Lasting
<1>10. ASSUME NEW export, Sound(export) PROVE Sound(export)'
  BY <1>4, <1>10 DEF Sound
<1>11. ASSUME NEW d \in Procs PROVE JobOK(d)'
  <2>1. JobOK(d) /\ job[d].abandoned \subseteq Procs
    BY JobParts DEF JobRecord
  <2>2. Sound(job[d].export) /\ \A a \in job[d].abandoned : art'[a] \in Artifact
    BY <1>7, <2>1 DEF JobOK
  <2>3. \A p \in Products : job[d].export[p] # None => prod'[p] # None
    BY <1>4, <2>2 DEF Sound
  <2>4. CASE d = c
    BY <1>7, <1>8, <2>2, <2>3, <2>4 DEF JobOK, Sound
  <2>5. CASE d # c
    <3>1. job'[d] = job[d] /\ art'[d] = art[d]
      BY <1>7, <1>8, <2>5
    <3>2. job[d].pc = "commit" => FileKept(d)'
      BY <1>9, <2>1 DEF JobOK
    <3>. QED
      BY <2>1, <2>2, <2>3, <3>1, <3>2 DEF JobOK, Sound
  <2>. QED
    BY <2>4, <2>5
<1>12. IssuedOK'
  <2>1. ASSUME NEW a \in issued' PROVE art'[a] \in Artifact /\ job'[a].pc \in {"unlink", "done"}
    <3>1. CASE a = c
      BY <1>7, <1>8, <3>1
    <3>2. CASE a # c
      BY <1>1, <1>2, <1>7, <1>8, <3>2
    <3>. QED
      BY <3>1, <3>2
  <2>2. ASSUME NEW a \in Procs, art'[a] \in Artifact
        PROVE  \A p \in Products : art'[a].export[p] # None => prod'[p] # None
    <3>1. art[a] \in Artifact /\ art'[a].export = art[a].export
      BY <1>1, <1>7, <2>2
    <3>2. Sound(art[a].export)
      BY <1>1, <3>1
    <3>. QED
      BY <1>4, <3>1, <3>2 DEF Sound
  <2>. QED
    BY <2>1, <2>2 DEF IssuedOK, Sound
<1>13. NoFalsePublished'
  <2>1. ASSUME NEW p \in Products, prod'[p] # None, prod'[p].state = "PUBLISHED"
        PROVE  \E a \in issued' : art'[a].export[p] # None
    <3>1. CASE art[c].export[p] # None
      BY <1>2, <1>7, <3>1
    <3>2. CASE art[c].export[p] = None
      <4>1. prod[p] # None /\ prod[p].state = "PUBLISHED"
        BY <1>4, <2>1, <3>2
      <4>2. PICK a \in issued : art[a].export[p] # None
        BY <4>1 DEF PubInv, NoFalsePublished
      <4>3. a \in issued' /\ art'[a].export = art[a].export
        BY <1>1, <1>2, <1>7
      <4>. QED
        BY <4>2, <4>3
    <3>. QED
      BY <3>1, <3>2
  <2>. QED
    BY <2>1 DEF NoFalsePublished
<1>14. IssuedKeepsItsFile'
  <2>1. \A a \in issued : a \in Procs /\ FileKept(a)
    BY <1>1 DEF PubInv, IssuedKeepsItsFile, FileKept
  <2>2. \A a \in issued' : FileKept(a)'
    BY <1>1, <1>2, <1>9, <2>1
  <2>. QED
    BY <2>2 DEF IssuedKeepsItsFile, FileKept
<1>15. PubTypes'
  BY <1>1, <1>2, <1>7, <1>8 DEF PubTypes
<1>. QED
  BY <1>6, <1>11, <1>12, <1>13, <1>14, <1>15 DEF PubInv

\* A mutation publishes nothing and removes no product.
LEMMA Unpublished ==
    ASSUME FamilyInv, NEW c \in Procs, Step(c), NEW p \in Products
    PROVE  /\ prod[p] # None => prod'[p] # None
           /\ prod'[p] # None /\ prod'[p].state = "PUBLISHED"
                => prod[p] # None /\ prod[p].state = "PUBLISHED"
<1>1. CASE Commit(c)
  <2>1. /\ prod' = [prod EXCEPT ![txn[c].q.p] = txn[c].row]
        /\ prod \in [Products -> ProductRow \cup {None}]
    BY <1>1, Committed DEF FamilyInv, FamilyTypes
  <2>2. txn[c].row # None /\ txn[c].row.state # "PUBLISHED"
    BY <1>1, Committing DEF Commit
  <2>. QED
    BY <2>1, <2>2
<1>2. CASE ~Commit(c)
  <2>1. prod' = prod
    BY <1>2 DEF Step, Begin, ReadProduct, CheckKeys, ReadFamily, WriteProduct, ReadSku,
       WriteSku, AbortVictim, Stop, tables
  <2>. QED
    BY <2>1
<1>. QED
  BY <1>1, <1>2

LEMMA MutateInv ==
    ASSUME PubInv, Mutate
    PROVE  PubInv'
<1>1. FamilyInv /\ UNCHANGED <<art, files, job, issued>>
  BY DEF PubInv, Mutate, pubVars
<1>2. FamilyInv' /\ \A p \in Products :
        /\ prod[p] # None => prod'[p] # None
        /\ prod'[p] # None /\ prod'[p].state = "PUBLISHED"
             => prod[p] # None /\ prod[p].state = "PUBLISHED"
  <2>1. CASE \E c \in Procs : Step(c)
    BY <1>1, <2>1, StepInv, Unpublished
  <2>2. CASE \E c \in Procs, q \in Requests : Arrive(c, q)
    BY <1>1, <2>2, ArriveInv DEF Arrive, tables
  <2>3. CASE \E k \in Keys : ExpireRecord(k)
    BY <1>1, <2>3, ExpireRecordInv DEF ExpireRecord, tables
  <2>4. CASE DeleteExpired
    BY <1>1, <2>4, DeleteExpiredInv DEF DeleteExpired, tables
  <2>. QED
    BY <2>1, <2>2, <2>3, <2>4 DEF Mutate
<1>3. ASSUME NEW c \in Procs PROVE JobOK(c)'
  <2>1. JobOK(c)
    BY DEF PubInv
  <2>. QED
    BY <1>1, <1>2, <2>1 DEF JobOK, Sound, FileKept
<1>4. IssuedOK'
  BY <1>1, <1>2 DEF PubInv, IssuedOK, Sound
<1>5. NoFalsePublished' /\ IssuedKeepsItsFile' /\ PubTypes'
  BY <1>1, <1>2 DEF PubInv, NoFalsePublished, IssuedKeepsItsFile, PubTypes
<1>. QED
  BY <1>2, <1>3, <1>4, <1>5 DEF PubInv

LEMMA PubStart == NothingInvented /\ Init => PubInv
<1> SUFFICES ASSUME NothingInvented, Init PROVE PubInv
  OBVIOUS
<1>1. FamilyInv
  BY FamilyStart DEF Init
<1>2. NoExport \in Exports /\ Sound(NoExport)
  BY DEF NoExport, Exports, Sound
<1>3. NoJob \in JobRecord
  BY <1>2 DEF NoJob, JobRecord, JobStages
<1>4. PubTypes
  BY <1>3 DEF Init, PubTypes
<1>5. ASSUME NEW c \in Procs PROVE JobOK(c)
  <2>1. job[c].pc = "idle" /\ job[c].abandoned = {} /\ job[c].export = NoExport
    BY DEF Init, NoJob
  <2>. QED
    BY <1>2, <2>1 DEF JobOK
<1>6. \A a \in Procs : art[a] = None
  BY DEF Init
<1>7. IssuedOK
  BY <1>6, PublicationAssumption DEF Init, IssuedOK
<1>8. NoFalsePublished /\ IssuedKeepsItsFile
  <2>1. prod = InitProd /\ issued = {}
    BY DEF Init, FamilyInit
  <2>. QED
    BY <2>1, PublicationAssumption DEF NoFalsePublished, IssuedKeepsItsFile
<1>. QED
  BY <1>1, <1>4, <1>5, <1>7, <1>8 DEF PubInv

-----------------------------------------------------------------------------
(* Every step, and the theorems.                                             *)

LEMMA PubStep == PubInv /\ [Next]_vars => PubInv'
<1> SUFFICES ASSUME PubInv, [Next]_vars PROVE PubInv'
  OBVIOUS
<1>1. CASE Mutate
  BY <1>1, MutateInv
<1>2. ASSUME NEW c \in Procs, ReadCatalogue(c) \/ Scan(c) PROVE PubInv'
  BY <1>2, ReadCatalogueInv, ScanInv
<1>3. ASSUME NEW c \in Procs, Publish(c) PROVE PubInv'
  <2>1. CASE CommitArtifact(c)
    BY <2>1, IssueInv DEF CommitArtifact
  <2>. QED
    BY <1>3, <2>1, RegisterIntentInv, WriteTempInv, ReplaceInv, MarkFailedInv, UnlinkInv
    DEF Publish
<1>4. ASSUME NEW c \in Procs, Clean(c) PROVE PubInv'
  BY <1>4, AbandonInv, PruneInv DEF Clean
<1>5. ASSUME NEW c \in Procs, Fault(c) PROVE PubInv'
  <2>1. CASE AnswerLost(c)
    BY <2>1, IssueInv DEF AnswerLost
  <2>. QED
    BY <1>5, <2>1, RaiseInv, CrashInv DEF Fault
<1>6. ASSUME NEW a \in Procs, LeaseExpires(a) PROVE PubInv'
  BY <1>6, LeaseExpiresInv
<1>7. CASE UNCHANGED vars
  <2>1. FamilyInv'
    BY <1>7, FamilySame DEF PubInv, vars
  <2>2. UNCHANGED <<art, files, job, issued>> /\ prod' = prod
    BY <1>7 DEF vars, pubVars, familyVars
  <2>3. ASSUME NEW c \in Procs PROVE JobOK(c)'
    <3>1. JobOK(c)
      BY DEF PubInv
    <3>. QED
      BY <2>2, <3>1 DEF JobOK, Sound, FileKept
  <2>. QED
    BY <2>1, <2>2, <2>3
    DEF PubInv, PubTypes, IssuedOK, Sound, NoFalsePublished, IssuedKeepsItsFile
<1>. QED
  BY <1>1, <1>2, <1>3, <1>4, <1>5, <1>6, <1>7 DEF Next

\* Everything above, of every reachable state.
THEOREM Invariance == NothingInvented => (Spec => []PubInv)
<1>1. NothingInvented /\ Init => PubInv
  BY PubStart
<1>2. PubInv /\ [Next]_vars => PubInv'
  BY PubStep
<1>. QED
  BY <1>1, <1>2, PTL DEF Spec

\* A business key belongs to one entity for good: save_product_family's checks, its waits
\* and the reservation triggers of schema.sql never let a product code or a sku_id go to
\* two entities, for any requests and however many overlap.
THEOREM KeysStayOwned == NothingInvented => (Spec => []KeysAreOwned)
<1>1. PubInv => KeysAreOwned
  BY DEF PubInv, FamilyInv, Reserved
<1>. QED
  BY <1>1, Invariance, PTL

\* The advisory lock and the record written in the same transaction let the requests of
\* an idempotency key be executed once while the record lives.
THEOREM KeysRunOnce == NothingInvented => (Spec => []KeyRunsOnce)
<1>1. PubInv => KeyRunsOnce
  BY DEF PubInv, FamilyInv, KeyOK, KeyRunsOnce
<1>. QED
  BY <1>1, Invariance, PTL

\* catalog_price_history is the history of the price in the row, whatever saves overlap.
THEOREM LedgerFollowsThePrice == NothingInvented => (Spec => []LedgerIsThePrice)
<1>1. PubInv => LedgerIsThePrice
  BY DEF PubInv, FamilyInv, Ledgers, History, LedgerIsThePrice
<1>. QED
  BY <1>1, Invariance, PTL

\* A product is PUBLISHED only if an artifact that contains it was committed, wherever a
\* publication of ShopDeckAdapter dies.
THEOREM PublishedWasIssued == NothingInvented => (Spec => []NoFalsePublished)
<1>1. PubInv => NoFalsePublished
  BY DEF PubInv
<1>. QED
  BY <1>1, Invariance, PTL

\* A cleanup that saw an artifact leased or committed leaves its file alone.
THEOREM IssuedFilesStay == NothingInvented => (Spec => []IssuedKeepsItsFile)
<1>1. PubInv => IssuedKeepsItsFile
  BY DEF PubInv
<1>. QED
  BY <1>1, Invariance, PTL

-----------------------------------------------------------------------------
(* Files and records.                                                        *)

\* A file is that of a registered artifact; a record that counts is of a request.
FilesOK ==
    /\ files \subseteq {"tmp", "csv"} \X Procs
    /\ \A f \in files : art[f[2]] # None
    /\ raced \subseteq Products
RecordsOK == \A k \in Keys : idem[k].live => idem[k].q \in Requests

LEMMA FilesStep ==
    ASSUME PubInv, FilesOK, [Next]_vars
    PROVE  FilesOK'
<1>1. /\ art \in [Procs -> Artifact \cup {None}]
      /\ \A c \in Procs : /\ job[c].pc \in {"temp", "replace", "commit", "failing", "unlink"}
                                => art[c] # None
                          /\ \A a \in job[c].abandoned : art[a] # None
  BY PublicationAssumption DEF PubInv, PubTypes, JobOK
<1>2. CASE Mutate
  BY <1>2 DEF Mutate, pubVars, Races, FilesOK
<1>3. ASSUME NEW c \in Procs, ReadCatalogue(c) \/ Scan(c) \/ Raise(c) \/ Crash(c)
      PROVE  FilesOK'
  BY <1>3 DEF ReadCatalogue, Scan, Raise, Crash, FilesOK
<1>4. ASSUME NEW c \in Procs, RegisterIntent(c)
      PROVE  FilesOK'
  <2>1. art'[c] # None /\ \A a \in Procs \ {c} : art'[a] = art[a]
    <3>1. job[c].export \in Exports
      BY DEF PubInv, PubTypes, JobRecord
    <3>2. [status |-> "IN_PROGRESS", leased |-> TRUE, export |-> job[c].export] \in Artifact
      BY <3>1 DEF Artifact, Statuses
    <3>3. [status |-> "IN_PROGRESS", leased |-> TRUE, export |-> job[c].export] # None
      BY <3>2, PublicationAssumption
    <3>. QED
      BY <1>1, <1>4, <3>3 DEF RegisterIntent
  <2>. QED
    BY <1>4, <2>1 DEF RegisterIntent, FilesOK
<1>5. ASSUME NEW c \in Procs, WriteTemp(c) \/ Replace(c) \/ Unlink(c) \/ Prune(c)
      PROVE  FilesOK'
  <2>1. art' = art /\ raced' = raced /\ \A f \in files' : f \in files \/ f \in {<<"tmp", c>>, <<"csv", c>>}
    BY <1>5 DEF WriteTemp, Replace, Unlink, Prune
  <2>2. \A f \in files' : f \in files \/ (f \in {<<"tmp", c>>, <<"csv", c>>} /\ art[c] # None)
    BY <1>1, <1>5 DEF WriteTemp, Replace, Unlink, Prune
  <2>. QED
    BY <2>1, <2>2 DEF FilesOK
<1>6. ASSUME NEW c \in Procs, CommitArtifact(c) \/ AnswerLost(c) \/ MarkFailed(c) \/ Abandon(c)
      PROVE  FilesOK'
  <2>1. files' = files /\ raced' \subseteq Products
    BY <1>6 DEF CommitArtifact, AnswerLost, Commits, MarkFailed, Abandon, Races, FilesOK
  <2>2. \A f \in files : f[2] \in Procs
    BY DEF FilesOK
  <2>3. \A a \in Procs : art[a] # None => art'[a] # None
    <3>1. \A b \in Artifact, t \in Statuses : [b EXCEPT !.status = t] # None
      <4>1. \A b \in Artifact, t \in Statuses : [b EXCEPT !.status = t] \in Artifact
        BY DEF Artifact
      <4>. QED
        BY <4>1, PublicationAssumption
    <3>2. "COMMITTED" \in Statuses /\ "FAILED" \in Statuses
      BY DEF Statuses
    <3>3. CASE MarkFailed(c) \/ Abandon(c)
      BY <1>1, <3>1, <3>2, <3>3 DEF MarkFailed, Abandon
    <3>4. CASE CommitArtifact(c) \/ AnswerLost(c)
      BY <1>1, <3>1, <3>2, <3>4 DEF CommitArtifact, AnswerLost, Commits
    <3>. QED
      BY <1>6, <3>3, <3>4
  <2>. QED
    BY <2>1, <2>2, <2>3 DEF FilesOK
<1>7. ASSUME NEW a \in Procs, LeaseExpires(a) PROVE FilesOK'
  <2>1. \A b \in Procs : art[b] # None => art'[b] # None
    BY <1>1, <1>7, PublicationAssumption DEF LeaseExpires, Artifact
  <2>. QED
    BY <1>7, <2>1 DEF LeaseExpires, FilesOK
<1>8. CASE UNCHANGED vars
  BY <1>8 DEF vars, pubVars, FilesOK
<1>. QED
  BY <1>2, <1>3, <1>4, <1>5, <1>6, <1>7, <1>8 DEF Next, Publish, Clean, Fault

LEMMA RecordsStep ==
    ASSUME PubInv, RecordsOK, [Next]_vars
    PROVE  RecordsOK'
<1>1. idem \in [Keys -> [live : BOOLEAN, q : Requests \cup {None}]]
  BY DEF PubInv, FamilyInv, FamilyTypes
<1>2. ASSUME NEW c \in Procs, Commit(c) PROVE RecordsOK'
  <2>1. txn[c].q \in Requests
    BY <1>2 DEF PubInv, FamilyInv, TxnOK, Shape, ShapeOf, Commit
  <2>2. CASE txn[c].q.key = None
    BY <1>2, <2>2 DEF Commit, RecordsOK
  <2>3. CASE txn[c].q.key # None
    <3>1. idem' = [idem EXCEPT ![txn[c].q.key] = [live |-> TRUE, q |-> txn[c].q]]
      BY <1>2, <2>3 DEF Commit
    <3>. QED
      BY <1>1, <2>1, <3>1 DEF RecordsOK
  <2>. QED
    BY <2>2, <2>3
<1>3. ASSUME NEW c \in Procs, Step(c), ~Commit(c) PROVE idem' = idem
  BY <1>3 DEF Step, Begin, ReadProduct, CheckKeys, ReadFamily, WriteProduct, ReadSku,
              WriteSku, AbortVictim, Stop
<1>4. ASSUME NEW c \in Procs, NEW q \in Requests, Arrive(c, q) PROVE idem' = idem
  BY <1>4 DEF Arrive
<1>5. ASSUME NEW k \in Keys, ExpireRecord(k) PROVE RecordsOK'
  BY <1>1, <1>5 DEF ExpireRecord, RecordsOK
<1>6. CASE DeleteExpired
  BY <1>1, <1>6 DEF DeleteExpired, RecordsOK, NoRecord
<1>7. CASE Mutate
  BY <1>2, <1>3, <1>4, <1>5, <1>6, <1>7 DEF Mutate, RecordsOK
<1>8. CASE ~Mutate
  <2>1. idem' = idem
    BY <1>8 DEF Next, ReadCatalogue, Scan, Publish, Clean, Fault, RegisterIntent, WriteTemp,
      Replace, CommitArtifact, AnswerLost, Commits, MarkFailed, Unlink, Abandon, Prune, Raise,
      Crash, LeaseExpires, vars, familyVars
  <2>. QED
    BY <2>1 DEF RecordsOK
<1>. QED
  BY <1>7, <1>8

\* Tables, artifacts and files keep their types, and there is no file without the row of
\* an artifact: _generate registers its intent before it writes, and no row is deleted.
THEOREM TypeCorrect == NothingInvented => (Spec => []TypeOK)
<1>1. Init => FilesOK /\ RecordsOK
  BY DEF Init, FamilyInit, NoRecord, FilesOK, RecordsOK
<1>2. PubInv /\ FilesOK /\ RecordsOK /\ [Next]_vars => FilesOK' /\ RecordsOK'
  BY FilesStep, RecordsStep
<1>3. PubInv /\ FilesOK /\ RecordsOK => TypeOK
  <2> SUFFICES ASSUME PubInv, FilesOK, RecordsOK PROVE TypeOK
    OBVIOUS
  <2>1. /\ FamilyTypes /\ PubTypes
    BY DEF PubInv, FamilyInv
  <2>. QED
    BY <2>1 DEF TypeOK, FamilyTypes, PubTypes, FilesOK, RecordsOK
<1>. QED
  BY <1>1, <1>2, <1>3, Invariance, PTL DEF Spec

-----------------------------------------------------------------------------
(* Families that are READY or PUBLISHED.                                      *)

\* The gate over the rows themselves: the stored images of a family with those of a payload.
Covers(p, fields) ==
    /\ fields # {} \/ \E s \in Skus : OfFamily(s, p)
    /\ \A s \in Skus : OfFamily(s, p) =>
         sku[s].media \/ \E f \in fields : f.sid = sku[s].sid /\ f.media
    /\ \A f \in fields :
         f.media \/ \E s \in Skus : OfFamily(s, p) /\ sku[s].sid = f.sid /\ sku[s].media

Payload(q) == IF q.op = "save" THEN Fields(q) ELSE {}

\* What a request is going to write of its product is what the gate says of it.
Promised(q, row) == row.state # "DRAFT" => row.full /\ Covers(q.p, Payload(q))

CompleteOK ==
    \A p \in Products \ raced :
        prod[p] # None /\ prod[p].state # "DRAFT" => prod[p].full /\ Covers(p, {})

\* A write of a SKU leaves the image it finds and the one its payload brings.
ImagesOK(c) ==
    LET t == txn[c] IN
    /\ \A s \in Skus : t.rows[s] # None /\ sku[s] # None /\ sku[s].media => t.rows[s].media
    /\ \A i \in 1..Len(t.ents) :
         t.row # None /\ i < t.n /\ t.q.skus[i].media => t.rows[t.ents[i]].media
    /\ t.pc = "commit" /\ t.q.op = "save" => Len(t.ents) = Len(t.q.skus)

\* What a request has read of a family still holds, unless another one has changed it.
CurrentOK(c) ==
    LET t == txn[c]
        q == t.q
    IN
    (\E p \in Products \ raced : InMutation(c, p)) =>
        /\ t.pc = "family" /\ q.op = "transition" => t.seen = prod[q.p]
        /\ t.pc = "write" => Promised(q, Written(q, t.seen))
        /\ t.row # None => Promised(q, t.row)

ExportOK(c) ==
    /\ \A p \in Products \ raced :
         InPublication(c, p) => prod[p] # None /\ prod[p].state # "DRAFT"
    /\ job[c].pc = "idle" => \A p \in Products : job[c].export[p] = None
    /\ job[c].pc \in {"temp", "replace", "commit"} => art[c].export = job[c].export

ReadyInv ==
    /\ PubInv
    /\ CompleteOK
    /\ \A c \in Procs : ImagesOK(c) /\ CurrentOK(c) /\ ExportOK(c)

\* The gate, of a family as it is stored.
LEMMA StoredGate ==
    ASSUME FamilyInv, NEW p \in Products, NEW full \in BOOLEAN
    PROVE  ReadinessGate(full, FamilyMedia(p)) <=> full /\ Covers(p, {})
<1> DEFINE rows == {s \in Skus : sku[s] # None /\ sku[s].prod = p}
           media == FamilyMedia(p)
<1>1. /\ DOMAIN media = {sku[s].sid : s \in rows}
      /\ \A k \in DOMAIN media : media[k] <=> \E s \in rows : sku[s].sid = k /\ sku[s].media
  BY DEF FamilyMedia
<1>2. \A s \in Skus : sku[s] # None => sidOwner[sku[s].sid] = s
  BY DEF FamilyInv, Reserved, KeysAreOwned
<1>3. \A s \in rows : sku[s].sid \in DOMAIN media /\ (media[sku[s].sid] <=> sku[s].media)
  BY <1>1, <1>2
<1> HIDE DEF media
<1>4. DOMAIN media # {} <=> rows # {}
  <2>1. \A k \in DOMAIN media : \E s \in rows : k = sku[s].sid
    BY <1>1
  <2>. QED
    BY <1>3, <2>1
<1>5. (\A k \in DOMAIN media : media[k]) <=> \A s \in rows : sku[s].media
  <2>1. \A k \in DOMAIN media : \E s \in rows : k = sku[s].sid
    BY <1>1
  <2>. QED
    BY <1>3, <2>1
<1>. QED
  BY <1>4, <1>5 DEF ReadinessGate, Covers, OfFamily, media

\* The gate, of a family with what a save brings.
LEMMA MergedGate ==
    ASSUME FamilyInv, NEW q \in Requests, ValidPayload(q), NEW full \in BOOLEAN,
           ReadinessGate(full, MergedMedia(q.p, q))
    PROVE  full /\ Covers(q.p, Fields(q))
<1> DEFINE rows == {s \in Skus : sku[s] # None /\ sku[s].prod = q.p}
           stored == FamilyMedia(q.p)
           media == MergedMedia(q.p, q)
<1>1. /\ DOMAIN stored = {sku[s].sid : s \in rows}
      /\ \A k \in DOMAIN stored : stored[k] <=> \E s \in rows : sku[s].sid = k /\ sku[s].media
  BY DEF FamilyMedia
<1> HIDE DEF stored
<1>2. /\ DOMAIN media = DOMAIN stored \cup {f.sid : f \in Fields(q)}
      /\ \A k \in DOMAIN media : media[k] <=> \/ \E f \in Fields(q) : f.sid = k /\ f.media
                                              \/ k \in DOMAIN stored /\ stored[k]
  BY DEF MergedMedia, stored
<1> HIDE DEF media
<1>3. full /\ DOMAIN media # {} /\ \A k \in DOMAIN media : media[k]
  BY DEF ReadinessGate, media
<1>4. \A s \in Skus : sku[s] # None => sidOwner[sku[s].sid] = s
  BY DEF FamilyInv, Reserved, KeysAreOwned
<1>5. \A f, g \in Fields(q) : f.sid = g.sid => f = g
  BY DEF Fields, ValidPayload
<1>6. ASSUME NEW s \in rows
      PROVE  sku[s].media \/ \E f \in Fields(q) : f.sid = sku[s].sid /\ f.media
  <2>1. sku[s].sid \in DOMAIN media
    BY <1>1, <1>2
  <2>2. CASE \E f \in Fields(q) : f.sid = sku[s].sid /\ f.media
    BY <2>2
  <2>3. CASE sku[s].sid \in DOMAIN stored /\ stored[sku[s].sid]
    <3>1. PICK o \in rows : sku[o].sid = sku[s].sid /\ sku[o].media
      BY <1>1, <2>3
    <3>. QED
      BY <1>4, <3>1
  <2>. QED
    BY <1>2, <1>3, <2>1, <2>2, <2>3
<1>7. ASSUME NEW f \in Fields(q)
      PROVE  f.media \/ \E s \in rows : sku[s].sid = f.sid /\ sku[s].media
  <2>1. f.sid \in DOMAIN media
    BY <1>2
  <2>2. CASE \E g \in Fields(q) : g.sid = f.sid /\ g.media
    BY <1>5, <2>2
  <2>3. CASE f.sid \in DOMAIN stored /\ stored[f.sid]
    BY <1>1, <2>3
  <2>. QED
    BY <1>2, <1>3, <2>1, <2>2, <2>3
<1>8. Fields(q) # {} \/ rows # {}
  BY <1>1, <1>2, <1>3
<1>. QED
  BY <1>3, <1>6, <1>7, <1>8 DEF Covers, OfFamily

-----------------------------------------------------------------------------
(* Families that others change.                                              *)

\* Of a family with a reader that goes on, a step that is no race changes nothing.
LEMMA Undisturbed ==
    ASSUME NEW p \in Products \ raced', Races, NEW d \in Procs,
           InMutation(d, p) \/ InPublication(d, p), InMutation(d, p)' \/ InPublication(d, p)',
           \A s \in Skus : sku[s] # None => sku'[s] # None /\ sku'[s].prod = sku[s].prod
    PROVE  /\ prod'[p] = prod[p]
           /\ \A s \in Skus : OfFamily(s, p) \/ OfFamily(s, p)' => sku'[s] = sku[s]
<1>1. d \in Readers(p) \cap Readers(p)'
  BY DEF Readers
<1>2. ~Changes(p)
  BY <1>1 DEF Races
<1>. QED
  BY <1>2 DEF Changes, OfFamily

LEMMA SameCover ==
    ASSUME NEW p, NEW fields,
           \A s \in Skus : OfFamily(s, p) \/ OfFamily(s, p)' => sku'[s] = sku[s]
    PROVE  Covers(p, fields)' <=> Covers(p, fields)
<1>1. \A s \in Skus : OfFamily(s, p)' <=> OfFamily(s, p)
  BY DEF OfFamily
<1>2. \A s \in Skus : OfFamily(s, p) => sku'[s] = sku[s]
  OBVIOUS
<1>. QED
  BY <1>1, <1>2 DEF Covers

\* What others have read of a family that no race has changed holds after a commit.
LEMMA OthersCurrent ==
    ASSUME ReadyInv, Races, NEW d \in Procs, txn'[d] = txn[d],
           \A s \in Skus : sku[s] # None => sku'[s] # None /\ sku'[s].prod = sku[s].prod
    PROVE  CurrentOK(d)'
<1> DEFINE t == txn[d]
           q == t.q
<1>1. SUFFICES ASSUME NEW p \in Products \ raced', InMutation(d, p)'
               PROVE  /\ t.pc = "family" /\ q.op = "transition" => t.seen = prod'[q.p]
                      /\ t.pc = "write" => Promised(q, Written(q, t.seen))'
                      /\ t.row # None => Promised(q, t.row)'
  BY DEF CurrentOK
<1>2. InMutation(d, p) /\ q.p = p /\ p \in Products \ raced
  BY <1>1 DEF InMutation, Races
<1>3. /\ prod'[p] = prod[p]
      /\ \A s \in Skus : OfFamily(s, p) \/ OfFamily(s, p)' => sku'[s] = sku[s]
  BY <1>1, <1>2, Undisturbed
<1>4. CurrentOK(d)
  BY DEF ReadyInv
<1>5. Covers(p, Payload(q))' <=> Covers(p, Payload(q))
  BY <1>3, SameCover
<1>. QED
  BY <1>2, <1>3, <1>4, <1>5 DEF CurrentOK, Promised, Written

-----------------------------------------------------------------------------
(* Steps of a request that change no table.                                  *)

LEMMA NoRace ==
    ASSUME Races, prod' = prod, sku' = sku
    PROVE  raced' = raced
<1>1. \A p \in Products : ~Changes(p)
  BY DEF Changes
<1>. QED
  BY <1>1 DEF Races

LEMMA LocalReady ==
    ASSUME ReadyInv, PubInv', NEW c \in Procs, UNCHANGED <<prod, sku, art, job, raced>>,
           \A d \in Procs \ {c} : txn'[d] = txn[d], ImagesOK(c)', CurrentOK(c)'
    PROVE  ReadyInv'
<1>1. CompleteOK'
  BY DEF ReadyInv, CompleteOK, Covers, OfFamily
<1>2. ASSUME NEW d \in Procs PROVE ImagesOK(d)' /\ CurrentOK(d)' /\ ExportOK(d)'
  <2>1. ImagesOK(d) /\ CurrentOK(d) /\ ExportOK(d)
    BY DEF ReadyInv
  <2>2. ExportOK(d)'
    BY <2>1 DEF ExportOK, InPublication
  <2>3. CASE d # c
    <3>1. txn'[d] = txn[d]
      BY <2>3
    <3>2. ImagesOK(d)'
      BY <2>1, <3>1 DEF ImagesOK
    <3>3. CurrentOK(d)'
      BY <2>1, <3>1 DEF CurrentOK, InMutation, Promised, Written, Covers, OfFamily
    <3>. QED
      BY <2>2, <3>2, <3>3
  <2>. QED
    BY <2>2, <2>3
<1>. QED
  BY <1>1, <1>2 DEF ReadyInv

\* Who has written nothing has no image to keep, and who has not decided no promise.
LEMMA Undecided ==
    ASSUME PubInv', NEW c \in Procs, txn'[c].row = None
    PROVE  /\ ImagesOK(c)'
           /\ txn'[c].pc \notin {"family", "write"} => CurrentOK(c)'
<1>1. Shape(c)'
  BY DEF PubInv, FamilyInv, TxnOK
<1>2. \A s \in Skus : txn'[c].rows[s] = None
  BY <1>1 DEF Shape, ShapeOf
<1>3. txn'[c].pc # "commit"
  BY <1>1 DEF Shape, ShapeOf, Writing
<1>. QED
  BY <1>2, <1>3 DEF ImagesOK, CurrentOK

LEMMA StopReady ==
    ASSUME ReadyInv, PubInv', Races, UNCHANGED <<art, job>>, NEW c \in Procs, NEW reply,
           Stop(c, reply)
    PROVE  ReadyInv'
<1>1. txn \in [Procs -> TxnRecord]
  BY DEF ReadyInv, PubInv, FamilyInv, FamilyTypes
<1>2. /\ txn'[c].row = None /\ txn'[c].pc = "done" /\ prod' = prod /\ sku' = sku
      /\ \A d \in Procs \ {c} : txn'[d] = txn[d]
  BY <1>1 DEF Stop, Ended, NoTxn, tables
<1>. QED
  BY <1>2, Undecided, NoRace, LocalReady

LEMMA ArriveReady ==
    ASSUME ReadyInv, PubInv', Races, UNCHANGED <<art, job>>, NEW c \in Procs, NEW q,
           Arrive(c, q)
    PROVE  ReadyInv'
<1>1. txn \in [Procs -> TxnRecord]
  BY DEF ReadyInv, PubInv, FamilyInv, FamilyTypes
<1>2. /\ txn'[c].row = None /\ txn'[c].pc = "begin" /\ prod' = prod /\ sku' = sku
      /\ \A d \in Procs \ {c} : txn'[d] = txn[d]
  BY <1>1 DEF Arrive, NoTxn, tables
<1>. QED
  BY <1>2, Undecided, NoRace, LocalReady

LEMMA BeginReady ==
    ASSUME ReadyInv, PubInv', Races, UNCHANGED <<art, job>>, NEW c \in Procs, Begin(c)
    PROVE  ReadyInv'
<1>1. txn \in [Procs -> TxnRecord] /\ txn[c] \in TxnRecord /\ Shape(c)
  BY Parts DEF ReadyInv, PubInv
<1>2. CASE \E r : Stop(c, r)
  BY <1>2, StopReady
<1>3. CASE txn' = [txn EXCEPT ![c].pc = "product"] /\ UNCHANGED <<tables, idem, ran>>
  <2>1. txn[c].row = None
    BY <1>1 DEF Begin, Shape, ShapeOf, Writing
  <2>2. /\ txn'[c].row = None /\ txn'[c].pc = "product" /\ prod' = prod /\ sku' = sku
        /\ \A d \in Procs \ {c} : txn'[d] = txn[d]
    BY <1>1, <1>3, <2>1 DEF TxnRecord, tables
  <2>. QED
    BY <2>2, Undecided, NoRace, LocalReady
<1>. QED
  BY <1>2, <1>3 DEF Begin

\* A rename or a transition reads a family that is complete, or promises nothing.
LEMMA ReadProductReady ==
    ASSUME ReadyInv, PubInv', Races, UNCHANGED <<art, job>>, NEW c \in Procs, ReadProduct(c)
    PROVE  ReadyInv'
<1> DEFINE q == txn[c].q
           seen == IF q.op = "save" /\ q.new THEN None ELSE prod[q.p]
           next == CASE q.op = "save" -> "keys"
                     [] q.op = "transition" /\ q.target = "READY" -> "family"
                     [] OTHER -> "write"
           t == [txn[c] EXCEPT !.seen = seen, !.pc = next]
<1>1. /\ txn \in [Procs -> TxnRecord] /\ txn[c] \in TxnRecord
      /\ txn[c].row = None /\ q \in Requests
  <2>1. txn \in [Procs -> TxnRecord] /\ txn[c] \in TxnRecord /\ Shape(c) /\ txn[c].pc = "product"
    BY Parts DEF ReadyInv, PubInv, ReadProduct
  <2>. QED
    BY <2>1 DEF Shape, ShapeOf, Writing
<1>2. CASE Stop(c, "REJECTED")
  BY <1>2, StopReady
<1>3. CASE /\ txn' = [txn EXCEPT ![c].seen = seen, ![c].pc = next]
           /\ UNCHANGED <<tables, idem, ran>>
           /\ seen = None => q.op = "save"
  <2>1. txn'[c] = t /\ \A d \in Procs \ {c} : txn'[d] = txn[d]
    BY <1>1, <1>3
  <2>2. t.pc = next /\ t.q = q /\ t.row = None /\ t.seen = seen
    BY <1>1 DEF TxnRecord
  <2>3. prod' = prod /\ sku' = sku /\ raced' = raced
    BY <1>3, NoRace DEF tables
  <2>4. q.op \in {"save", "rename", "transition"} /\ q.p \in Products /\ q.target \in {"DRAFT", "READY"}
    BY <1>1, RequestFields
  <2>5. next = "write" => q.op = "rename" \/ (q.op = "transition" /\ q.target = "DRAFT")
    BY <2>4
  <2>6. q.op # "save" => seen = prod[q.p]
    OBVIOUS
  <2> HIDE DEF t, next
  <2>7. ASSUME next = "write", q.p \notin raced PROVE Promised(q, Written(q, seen))
    <3>1. prod[q.p] # None /\ seen = prod[q.p] /\ Payload(q) = {}
      BY <1>3, <2>5, <2>6, <2>7 DEF Payload
    <3>2. prod[q.p] \in ProductRow
      BY <2>4, <3>1 DEF ReadyInv, PubInv, FamilyInv, FamilyTypes
    <3>3. prod[q.p].state # "DRAFT" => prod[q.p].full /\ Covers(q.p, {})
      BY <2>4, <2>7, <3>1 DEF ReadyInv, CompleteOK
    <3>4. CASE q.op = "rename"
      <4>1. /\ Written(q, seen).full = prod[q.p].full
            /\ Written(q, seen).state # "DRAFT" => prod[q.p].state # "DRAFT"
        BY <3>1, <3>2, <3>4 DEF Written, ProductRow
      <4>. QED
        BY <3>1, <3>3, <4>1 DEF Promised
    <3>5. CASE q.op = "transition" /\ q.target = "DRAFT"
      <4>1. Written(q, seen).state = "DRAFT"
        BY <3>2, <3>5 DEF Written, ProductRow
      <4>. QED
        BY <4>1 DEF Promised
    <3>. QED
      BY <2>5, <2>7, <3>4, <3>5
  <2>8. CurrentOK(c)'
    <3>1. txn'[c].q = q
      BY <2>1, <2>2
    <3>. QED
      BY <2>1, <2>2, <2>3, <2>6, <2>7 DEF CurrentOK, InMutation, Promised, Written, Covers, OfFamily
  <2>. QED
    BY <2>1, <2>2, <2>3, <2>8, Undecided, LocalReady
<1>. QED
  BY <1>2, <1>3 DEF ReadProduct

LEMMA CheckKeysReady ==
    ASSUME ReadyInv, PubInv', Races, UNCHANGED <<art, job>>, NEW c \in Procs, CheckKeys(c)
    PROVE  ReadyInv'
<1> DEFINE t == txn[c]
<1>1. /\ txn \in [Procs -> TxnRecord] /\ t \in TxnRecord /\ t.row = None /\ t.pc = "keys"
      /\ t.q.op = "save"
  <2>1. txn \in [Procs -> TxnRecord] /\ t \in TxnRecord /\ Shape(c) /\ t.pc = "keys"
    BY Parts DEF ReadyInv, PubInv, CheckKeys
  <2>. QED
    BY <2>1 DEF Shape, ShapeOf, Writing
<1>2. CASE Stop(c, "REJECTED")
  BY <1>2, StopReady
<1>3. CASE /\ \/ txn' = [txn EXCEPT ![c].pc = "family", ![c].n = 1]
              \/ \E ent : txn' = [txn EXCEPT ![c].ents = Append(@, ent), ![c].n = @ + 1]
           /\ UNCHANGED <<tables, idem, ran>>
  <2>1. /\ txn'[c].row = None /\ txn'[c].pc \in {"keys", "family"} /\ txn'[c].q = t.q
        /\ \A d \in Procs \ {c} : txn'[d] = txn[d]
    <3>1. CASE txn' = [txn EXCEPT ![c].pc = "family", ![c].n = 1]
      BY <1>1, <3>1 DEF TxnRecord
    <3>2. CASE \E ent : txn' = [txn EXCEPT ![c].ents = Append(@, ent), ![c].n = @ + 1]
      <4>1. PICK ent : txn' = [txn EXCEPT ![c].ents = Append(@, ent), ![c].n = @ + 1]
        BY <3>2
      <4> DEFINE ents == Append(t.ents, ent)
                 n == t.n + 1
      <4>2. txn' = [txn EXCEPT ![c] = [t EXCEPT !.ents = ents, !.n = n]]
        BY <1>1, <4>1
      <4> HIDE DEF ents, n
      <4>. QED
        BY <1>1, <4>2 DEF TxnRecord
    <3>. QED
      BY <1>3, <3>1, <3>2
  <2>2. prod' = prod /\ sku' = sku /\ raced' = raced
    BY <1>3, NoRace DEF tables
  <2>3. CurrentOK(c)'
    BY <1>1, <2>1 DEF CurrentOK
  <2>. QED
    BY <2>1, <2>2, <2>3, Undecided, LocalReady
<1>. QED
  BY <1>2, <1>3 DEF CheckKeys

\* A save decides by the gate what it will call its family, a transition whether it may.
LEMMA ReadFamilyReady ==
    ASSUME ReadyInv, PubInv', Races, UNCHANGED <<art, job>>, NEW c \in Procs, ReadFamily(c)
    PROVE  ReadyInv'
<1> DEFINE q == txn[c].q
           seen == txn[c].seen
           media == IF q.op = "save" THEN MergedMedia(q.p, q) ELSE FamilyMedia(q.p)
           full == IF q.op = "save" THEN MergedFull(seen, q) ELSE seen.full
           row == IF q.op = "transition" THEN seen
                  ELSE [code |-> q.code, full |-> full,
                        state |-> StateAfterSave(seen, full, media)]
           t == [txn[c] EXCEPT !.pc = "write", !.seen = row]
<1>1. /\ txn \in [Procs -> TxnRecord] /\ txn[c] \in TxnRecord /\ txn[c].row = None
      /\ txn[c].pc = "family" /\ q \in Requests /\ q.op # "rename"
      /\ q.op = "save" => ValidPayload(q)
      /\ q.op # "save" => seen # None /\ prod[q.p] # None
  <2>1. /\ txn \in [Procs -> TxnRecord] /\ txn[c] \in TxnRecord /\ Shape(c) /\ ProductOK(c)
        /\ txn[c].pc = "family"
    BY Parts DEF ReadyInv, PubInv, ReadFamily
  <2>. QED
    BY <2>1 DEF Shape, ShapeOf, Writing, ProductOK
<1>2. FamilyInv /\ q.p \in Products /\ q.op \in {"save", "transition"} /\ q.target \in {"DRAFT", "READY"}
  BY <1>1, RequestFields DEF ReadyInv, PubInv
<1>3. CASE Stop(c, "REJECTED")
  BY <1>3, StopReady
<1>4. CASE /\ txn' = [txn EXCEPT ![c].pc = "write", ![c].seen = row]
           /\ UNCHANGED <<tables, idem, ran>>
           /\ ~(q.op = "transition" /\ ~ReadinessGate(full, media))
  <2>1. txn'[c] = t /\ \A d \in Procs \ {c} : txn'[d] = txn[d]
    BY <1>1, <1>4
  <2>2. t.pc = "write" /\ t.q = q /\ t.row = None /\ t.seen = row
    BY <1>1 DEF TxnRecord
  <2>3. prod' = prod /\ sku' = sku /\ raced' = raced
    BY <1>4, NoRace DEF tables
  <2> HIDE DEF t
  <2>4. ASSUME q.p \notin raced PROVE Promised(q, Written(q, row))
    <3>1. CASE q.op = "save"
      <4>1. row = [code |-> q.code, full |-> MergedFull(seen, q),
                   state |-> StateAfterSave(seen, MergedFull(seen, q), MergedMedia(q.p, q))]
        BY <3>1
      <4>2. MergedFull(seen, q) \in BOOLEAN
        BY <1>1 DEF MergedFull, TxnRecord, ProductRow
      <4>3. Written(q, row) = row /\ Payload(q) = Fields(q)
        BY <3>1 DEF Written, Payload
      <4> HIDE DEF row
      <4>4. row.state # "DRAFT" => ReadinessGate(MergedFull(seen, q), MergedMedia(q.p, q))
        BY <4>1 DEF StateAfterSave
      <4>5. row.state # "DRAFT" => MergedFull(seen, q) /\ Covers(q.p, Fields(q))
        BY <1>1, <1>2, <3>1, <4>2, <4>4, MergedGate
      <4>. QED
        BY <4>1, <4>3, <4>5 DEF Promised
    <3>2. CASE q.op = "transition"
      <4>1. InMutation(c, q.p)
        BY <1>1 DEF InMutation
      <4>2. seen = prod[q.p]
        BY <1>1, <1>2, <2>4, <3>2, <4>1 DEF ReadyInv, CurrentOK
      <4>3. prod[q.p] \in ProductRow /\ prod[q.p].full \in BOOLEAN
        BY <1>1, <1>2, <3>2 DEF FamilyInv, FamilyTypes, ProductRow
      <4>4. ReadinessGate(seen.full, FamilyMedia(q.p))
        BY <1>4, <3>2
      <4>5. seen.full /\ Covers(q.p, {})
        BY <1>2, <4>2, <4>3, <4>4, StoredGate
      <4>6. Written(q, row).full = prod[q.p].full
        BY <3>2, <4>3 DEF Written, ProductRow
      <4>7. Payload(q) = {}
        BY <3>2 DEF Payload
      <4>. QED
        BY <4>2, <4>5, <4>6, <4>7 DEF Promised
    <3>. QED
      BY <1>2, <3>1, <3>2
  <2> HIDE DEF row
  <2>5. CurrentOK(c)'
    BY <2>1, <2>2, <2>3, <2>4 DEF CurrentOK, InMutation, Promised, Written, Covers, OfFamily
  <2>. QED
    BY <2>1, <2>2, <2>3, <2>5, Undecided, LocalReady
<1>. QED
  BY <1>3, <1>4 DEF ReadFamily

\* What the product's row will be is what was promised.
LEMMA WriteProductReady ==
    ASSUME ReadyInv, PubInv', Races, UNCHANGED <<art, job>>, NEW c \in Procs, WriteProduct(c)
    PROVE  ReadyInv'
<1> DEFINE q == txn[c].q
           row == Written(q, txn[c].seen)
           next == IF q.op = "save" /\ q.skus # <<>> THEN "skus" ELSE "commit"
           t == [txn[c] EXCEPT !.row = row, !.pc = next]
<1>1. /\ txn \in [Procs -> TxnRecord] /\ txn[c] \in TxnRecord /\ txn[c].pc = "write"
      /\ q \in Requests /\ txn[c].n = 1
      /\ q.op = "save" => Len(txn[c].ents) = Len(q.skus)
      /\ \A s \in Skus : txn[c].rows[s] = None
  <2>1. /\ txn \in [Procs -> TxnRecord] /\ txn[c] \in TxnRecord /\ Shape(c)
        /\ txn[c].pc = "write"
    BY Parts DEF ReadyInv, PubInv, WriteProduct
  <2>. QED
    BY <2>1 DEF Shape, ShapeOf, Writing
<1>2. CASE Stop(c, "REJECTED")
  BY <1>2, StopReady
<1>3. CASE /\ txn' = [txn EXCEPT ![c].row = row, ![c].pc = next]
           /\ UNCHANGED <<tables, idem, ran>>
  <2>1. txn'[c] = t /\ \A d \in Procs \ {c} : txn'[d] = txn[d]
    BY <1>1, <1>3
  <2>2. /\ t.pc = next /\ t.q = q /\ t.row = row /\ t.n = 1 /\ t.ents = txn[c].ents
        /\ t.rows = txn[c].rows
    BY <1>1 DEF TxnRecord
  <2>3. prod' = prod /\ sku' = sku /\ raced' = raced
    BY <1>3, NoRace DEF tables
  <2> HIDE DEF t, next, row
  <2>4. next \in {"skus", "commit"}
    BY DEF next
  <2>5. ASSUME InMutation(c, q.p), q.p \in Products \ raced PROVE Promised(q, row)
    BY <1>1, <2>5 DEF ReadyInv, CurrentOK, row
  <2>6. CurrentOK(c)'
    <3>1. ASSUME NEW p \in Products \ raced', InMutation(c, p)' PROVE Promised(q, row)
      BY <1>1, <2>1, <2>2, <2>3, <2>5, <3>1 DEF InMutation
    <3>. QED
      BY <2>1, <2>2, <2>3, <2>4, <3>1 DEF CurrentOK, Promised, Covers, OfFamily
  <2>7. ImagesOK(c)'
    <3>1. t.n = 1 /\ \A i \in 1..Len(t.ents) : ~(i < t.n)
      BY <2>2
    <3>. QED
      BY <1>1, <2>1, <2>2, <3>1 DEF ImagesOK
  <2>. QED
    BY <2>1, <2>3, <2>6, <2>7, LocalReady
<1>. QED
  BY <1>2, <1>3 DEF WriteProduct

\* What holds of a request that is past its product's write, and stays so.
LEMMA Promising ==
    ASSUME ReadyInv, NEW c \in Procs, UNCHANGED <<prod, sku, raced>>, txn[c].row # None,
           txn[c].pc \in {"skus", "sku"}, txn'[c].row = txn[c].row, txn'[c].q = txn[c].q,
           txn'[c].pc \in {"skus", "sku", "commit"}
    PROVE  CurrentOK(c)'
<1>1. ASSUME NEW p \in Products \ raced, InMutation(c, p)' PROVE Promised(txn[c].q, txn[c].row)
  <2>1. InMutation(c, p)
    BY <1>1 DEF InMutation
  <2>. QED
    BY <2>1 DEF ReadyInv, CurrentOK
<1>. QED
  BY <1>1 DEF CurrentOK, Promised, Covers, OfFamily

LEMMA ReadSkuReady ==
    ASSUME ReadyInv, PubInv', Races, UNCHANGED <<art, job>>, NEW c \in Procs, ReadSku(c)
    PROVE  ReadyInv'
<1> DEFINE x == txn[c]
           ent == x.ents[x.n]
           old == IF ent = None THEN None ELSE IF x.rows[ent] # None THEN x.rows[ent] ELSE sku[ent]
<1>1. txn \in [Procs -> TxnRecord] /\ x \in TxnRecord /\ x.pc = "skus" /\ x.row # None
  <2>1. txn \in [Procs -> TxnRecord] /\ x \in TxnRecord /\ Shape(c) /\ x.pc = "skus"
    BY Parts DEF ReadyInv, PubInv, ReadSku
  <2>. QED
    BY <2>1 DEF Shape, ShapeOf, Writing
<1>2. txn' = [txn EXCEPT ![c].pc = "sku", ![c].old = old] /\ UNCHANGED <<tables, idem, ran>>
  BY DEF ReadSku
<1> HIDE DEF old
<1>3. /\ txn'[c].pc = "sku" /\ txn'[c].q = x.q /\ txn'[c].row = x.row /\ txn'[c].n = x.n
      /\ txn'[c].ents = x.ents /\ txn'[c].rows = x.rows
      /\ \A d \in Procs \ {c} : txn'[d] = txn[d]
  BY <1>1, <1>2 DEF TxnRecord
<1>4. prod' = prod /\ sku' = sku /\ raced' = raced
  BY <1>2, NoRace DEF tables
<1>5. CurrentOK(c)'
  BY <1>1, <1>3, <1>4, Promising
<1>6. ImagesOK(c)'
  <2>1. ImagesOK(c)
    BY DEF ReadyInv
  <2>. QED
    BY <1>3, <1>4, <2>1 DEF ImagesOK
<1>. QED
  BY <1>3, <1>4, <1>5, <1>6, LocalReady

\* The row to be written keeps the image it had, in the table or in the transaction, and
\* takes that of the payload.
LEMMA ImageToWrite ==
    ASSUME FamilyInv, NEW c \in Procs, txn[c].pc = "sku",
           ~(txn[c].ents[txn[c].n] = None /\ sidOwner[txn[c].q.skus[txn[c].n].sid] # None)
    PROVE  LET t == txn[c]
               w == WriteOf(t)
           IN
           /\ t.q.skus[t.n].media => w.row.media
           /\ t.rows[w.ent] # None /\ t.rows[w.ent].media => w.row.media
           /\ t.rows[w.ent] = None /\ sku[w.ent] # None /\ sku[w.ent].media => w.row.media
<1> DEFINE t == txn[c]
           f == t.q.skus[t.n]
           w == WriteOf(t)
           s == t.ents[t.n]
<1>1. /\ f \in SkuInput /\ t.rows \in [Skus -> SkuRow \cup {None}]
      /\ s \in Skus \cup {None} /\ (s # None => OfFamily(s, t.q.p))
      /\ t.old = IF s = None THEN None ELSE IF t.rows[s] # None THEN t.rows[s] ELSE sku[s]
  BY AtHand
<1>2. CASE s = None
  <2>1. sku[f.fresh] = None /\ t.rows[f.fresh] = None
    BY <1>2, Inserted
  <2>2. w.ent = f.fresh /\ w.row.media = f.media
    BY <1>1, <1>2 DEF WriteOf
  <2>. QED
    BY <2>1, <2>2
<1>3. CASE s # None
  <2>1. t.old \in SkuRow /\ t.old # None
    <3>1. sku[s] # None /\ sku \in [Skus -> SkuRow \cup {None}]
      BY <1>1, <1>3 DEF FamilyInv, FamilyTypes, OfFamily
    <3>. QED
      BY <1>1, <1>3, <3>1, Nones
  <2>2. w.ent = s /\ w.row = [t.old EXCEPT !.sid = f.sid, !.price = Rounded[f.price], !.media = f.media \/ @]
    BY <1>3, <2>1 DEF WriteOf
  <2>3. w.row.media = (f.media \/ t.old.media) /\ f.media \in BOOLEAN /\ t.old.media \in BOOLEAN
    BY <1>1, <2>1, <2>2 DEF SkuRow, SkuInput
  <2>. QED
    BY <1>1, <1>3, <2>2, <2>3
<1>. QED
  BY <1>2, <1>3

LEMMA WriteSkuReady ==
    ASSUME ReadyInv, PubInv', Races, UNCHANGED <<art, job>>, NEW c \in Procs, WriteSku(c)
    PROVE  ReadyInv'
<1> DEFINE x == txn[c]
           t == txn'[c]
           n == x.n
           q == x.q
           f == q.skus[n]
           w == WriteOf(x)
           s == w.ent
<1>1. FamilyInv /\ x.pc = "sku" /\ ImagesOK(c) /\ WrittenOK(c)
  BY Parts DEF ReadyInv, PubInv, WriteSku
<1>2. /\ x.row # None /\ q.op = "save" /\ Len(x.ents) = Len(q.skus) /\ n \in 1..Len(x.ents)
      /\ x.ents \in Seq(Skus \cup {None})
  BY <1>1, AtHand
<1>3. CASE Stop(c, "REJECTED")
  BY <1>3, StopReady
<1>4. CASE ~Stop(c, "REJECTED")
  <2>1. /\ ~(x.ents[n] = None /\ sidOwner[f.sid] # None)
        /\ UNCHANGED <<tables, idem, ran>> /\ \A d \in Procs \ {c} : txn'[d] = txn[d]
        /\ t.pc \in {"commit", "skus"}
        /\ t.q = q /\ t.row = x.row /\ t.n = n + 1 /\ Len(t.ents) = Len(x.ents)
        /\ \A i \in 1..Len(x.ents) : t.ents[i] = IF i = n THEN s ELSE x.ents[i]
        /\ t.rows[s] = w.row /\ \A e \in Skus \ {s} : t.rows[e] = x.rows[e]
    BY <1>1, <1>4, SkuWritten
  <2>2. /\ f.media => w.row.media
        /\ x.rows[s] # None /\ x.rows[s].media => w.row.media
        /\ x.rows[s] = None /\ sku[s] # None /\ sku[s].media => w.row.media
    BY <1>1, <2>1, ImageToWrite
  <2>3. prod' = prod /\ sku' = sku /\ raced' = raced
    BY <2>1, NoRace DEF tables
  <2> HIDE DEF w, t
  <2>4. CurrentOK(c)'
    BY <1>1, <1>2, <2>1, <2>3, Promising DEF t
  <2>5. ASSUME NEW e \in Skus, t.rows[e] # None, sku[e] # None, sku[e].media
        PROVE  t.rows[e].media
    <3>1. x.rows[e] # None => x.rows[e].media
      BY <1>1, <2>5 DEF ImagesOK
    <3>. QED
      BY <2>1, <2>2, <2>5, <3>1
  <2>6. ASSUME NEW i \in 1..Len(t.ents), i < t.n, q.skus[i].media
        PROVE  t.rows[t.ents[i]].media
    <3>1. i \in 1..Len(x.ents) /\ n \in Nat /\ (i = n \/ i < n)
      BY <1>2, <2>1, <2>6
    <3>2. CASE i = n
      BY <2>1, <2>2, <2>6, <3>1, <3>2
    <3>3. CASE i < n
      <4>1. x.ents[i] # None /\ x.rows[x.ents[i]] # None /\ x.rows[x.ents[i]].media
        BY <1>1, <1>2, <2>6, <3>1, <3>3 DEF ImagesOK, WrittenOK
      <4>2. x.ents[i] \in Skus /\ t.ents[i] = x.ents[i]
        BY <1>2, <2>1, <3>1, <3>3, <4>1
      <4>. QED
        BY <2>1, <2>2, <4>1, <4>2
    <3>. QED
      BY <3>1, <3>2, <3>3
  <2>7. ImagesOK(c)'
    BY <1>2, <2>1, <2>3, <2>5, <2>6 DEF ImagesOK, t
  <2>. QED
    BY <2>1, <2>3, <2>4, <2>7, LocalReady
<1>. QED
  BY <1>3, <1>4\* The images a save has written, after the commit of another one.
LEMMA OthersImages ==
    ASSUME ReadyInv, NEW c \in Procs, Commit(c), NEW d \in Procs \ {c}
    PROVE  ImagesOK(d)'
<1> DEFINE u == txn[d]
<1>1. FamilyInv /\ ImagesOK(d) /\ txn'[d] = u
  BY Committed DEF ReadyInv, PubInv
<1>2. ASSUME NEW s \in Skus, u.rows[s] # None PROVE sku'[s] = sku[s]
  <2>1. u.row # None
    BY <1>1, <1>2, Parts DEF Shape, ShapeOf
  <2>2. txn[c].rows[s] = None
    BY <1>1, <1>2, <2>1, Apart
  <2>. QED
    BY <1>1, <2>2, Kept
<1>. QED
  BY <1>1, <1>2 DEF ImagesOK
\* What a publication has read is not taken back to a draft, unless a race has done it.
LEMMA OthersExport ==
    ASSUME ReadyInv, Races, NEW d \in Procs, job'[d] = job[d],
           art'[d].export = art[d].export,
           \A s \in Skus : sku[s] # None => sku'[s] # None /\ sku'[s].prod = sku[s].prod
    PROVE  ExportOK(d)'
<1>1. ExportOK(d)
  BY DEF ReadyInv
<1>2. ASSUME NEW p \in Products \ raced', InPublication(d, p)'
      PROVE  prod'[p] # None /\ prod'[p].state # "DRAFT"
  <2>1. InPublication(d, p) /\ p \in Products \ raced
    BY <1>2 DEF InPublication, Races
  <2>2. prod'[p] = prod[p]
    BY <1>2, <2>1, Undisturbed
  <2>. QED
    BY <1>1, <2>1, <2>2 DEF ExportOK
<1>. QED
  BY <1>1, <1>2 DEF ExportOK
\* A commit leaves its family as the gate saw it: the SKUs it did not touch are none that
\* an image of the payload stands for, and those it wrote carry the images of both.
LEMMA CommitCovers ==
    ASSUME FamilyInv, NEW c \in Procs, Commit(c), ImagesOK(c),
           NEW p \in Products, p = txn[c].q.p, Covers(p, Payload(txn[c].q))
    PROVE  Covers(p, {})'
<1> DEFINE t == txn[c]
           q == t.q
           fields == Payload(q)
<1>1. /\ t.pc = "commit" /\ Shape(c) /\ WrittenOK(c) /\ t.row # None
      /\ \A s \in Skus : sku[s] # None => sidOwner[sku[s].sid] = s
      /\ None \notin Skus /\ q \in Requests
  BY Parts, Committing, Nones DEF Commit, FamilyInv, Reserved, KeysAreOwned
<1>2. \A i \in 1..Len(t.ents) :
        /\ t.ents[i] \in Skus /\ t.rows[t.ents[i]] # None
        /\ sidOwner[q.skus[i].sid] \in {None, t.ents[i]}
        /\ i < t.n
  <2>1. t.n = Len(t.ents) + 1 /\ Len(t.ents) \in Nat
    BY <1>1, Committing
  <2>2. \A i \in 1..Len(t.ents) : i < t.n
    BY <2>1
  <2>. QED
    BY <1>1, <2>2, Committing
<1>3. \A f \in fields : q.op = "save" /\ \E i \in 1..Len(t.ents) : f = q.skus[i]
  <2> SUFFICES ASSUME NEW f \in fields
               PROVE  q.op = "save" /\ \E i \in 1..Len(t.ents) : f = q.skus[i]
    OBVIOUS
  <2>1. q.op = "save" /\ f \in Fields(q)
    BY DEF Payload
  <2>2. Len(t.ents) = Len(q.skus)
    BY <1>1, <2>1 DEF ImagesOK
  <2>3. q.skus \in Seq(SkuInput)
    BY <1>1, RequestFields
  <2>. QED
    BY <2>1, <2>2, <2>3 DEF Fields
<1>4. \A i \in 1..Len(t.ents) : q.skus[i] \in fields
  <2> SUFFICES ASSUME NEW i \in 1..Len(t.ents) PROVE q.skus[i] \in fields
    OBVIOUS
  <2>1. q.op = "save"
    <3>1. q.op # "save" => t.ents = <<>>
      BY <1>1 DEF Shape, ShapeOf
    <3>. QED
      BY <3>1
  <2>2. Len(t.ents) = Len(q.skus)
    BY <1>1, <2>1 DEF ImagesOK
  <2>3. q.skus \in Seq(SkuInput)
    BY <1>1, RequestFields
  <2>. QED
    BY <2>1, <2>2, <2>3 DEF Payload, Fields
<1> HIDE DEF fields
<1>5. /\ fields # {} \/ \E s \in Skus : OfFamily(s, p)
      /\ \A s \in Skus : OfFamily(s, p) =>
           sku[s].media \/ \E f \in fields : f.sid = sku[s].sid /\ f.media
      /\ \A f \in fields :
           f.media \/ \E s \in Skus : OfFamily(s, p) /\ sku[s].sid = f.sid /\ sku[s].media
  BY DEF Covers, fields
<1>6. \E s \in Skus : OfFamily(s, p)'
  <2>1. CASE \E s \in Skus : OfFamily(s, p)
    BY <2>1, Kept DEF OfFamily
  <2>2. CASE fields # {}
    <3>1. PICK i \in 1..Len(t.ents) : TRUE
      BY <1>3, <2>2
    <3>2. t.ents[i] \in Skus /\ t.rows[t.ents[i]] # None /\ t.rows[t.ents[i]].prod = p
      BY <1>1, <1>2 DEF WrittenOK
    <3>. QED
      BY <3>2, Kept DEF OfFamily
  <2>. QED
    BY <1>5, <2>1, <2>2
<1>7. ASSUME NEW s \in Skus, OfFamily(s, p)' PROVE sku'[s].media
  <2>1. CASE t.rows[s] = None
    <3>1. sku'[s] = sku[s] /\ OfFamily(s, p)
      BY <1>7, <2>1, Kept DEF OfFamily
    <3>2. ASSUME NEW f \in fields, f.sid = sku[s].sid PROVE FALSE
      <4>1. PICK i \in 1..Len(t.ents) : f = q.skus[i]
        BY <1>3
      <4>2. sidOwner[f.sid] = s
        BY <1>1, <3>1, <3>2 DEF OfFamily
      <4>. QED
        BY <1>1, <1>2, <2>1, <4>1, <4>2
    <3>. QED
      BY <1>5, <3>1, <3>2
  <2>2. CASE t.rows[s] # None
    <3>1. sku'[s] = t.rows[s]
      BY <2>2, Kept
    <3>2. PICK i \in 1..Len(t.ents) : t.ents[i] = s
      BY <1>1, <2>2 DEF WrittenOK, Wrote
    <3>3. CASE q.skus[i].media
      BY <1>1, <1>2, <3>1, <3>2, <3>3 DEF ImagesOK
    <3>4. CASE ~q.skus[i].media
      <4>1. PICK o \in Skus : OfFamily(o, p) /\ sku[o].sid = q.skus[i].sid /\ sku[o].media
        BY <1>4, <1>5, <3>4
      <4>2. o = s
        BY <1>1, <1>2, <3>2, <4>1 DEF OfFamily
      <4>. QED
        BY <1>1, <2>2, <3>1, <4>1, <4>2 DEF ImagesOK, OfFamily
    <3>. QED
      BY <3>3, <3>4
  <2>. QED
    BY <2>1, <2>2
<1>. QED
  BY <1>6, <1>7 DEF Covers
LEMMA CommitReady ==
    ASSUME ReadyInv, PubInv', Races, UNCHANGED <<art, job>>, NEW c \in Procs, Commit(c)
    PROVE  ReadyInv'
<1> DEFINE t == txn[c]
           q == t.q
<1>1. /\ FamilyInv /\ t.pc = "commit" /\ t.row # None /\ q.p \in Products
      /\ prod \in [Products -> ProductRow \cup {None}]
      /\ prod' = [prod EXCEPT ![q.p] = t.row] /\ WrittenOK(c) /\ ImagesOK(c)
  BY Committing, Committed, Parts DEF ReadyInv, PubInv, Commit, FamilyInv, FamilyTypes
<1>2. \A s \in Skus : sku[s] # None => sku'[s] # None /\ sku'[s].prod = sku[s].prod
  BY <1>1, Kept
<1>3. ASSUME NEW p \in Products \ raced', prod'[p] # None, prod'[p].state # "DRAFT"
      PROVE  prod'[p].full /\ Covers(p, {})'
  <2>1. p \in Products \ raced
    BY <1>3 DEF Races
  <2>2. CASE p # q.p
    <3>1. prod'[p] = prod[p]
      BY <1>1, <2>2
    <3>2. ASSUME NEW s \in Skus, OfFamily(s, p) \/ OfFamily(s, p)' PROVE sku'[s] = sku[s]
      <4>1. t.rows[s] # None => t.rows[s].prod = q.p /\ (sku[s] # None => sku[s].prod = q.p)
        BY <1>1 DEF WrittenOK
      <4>. QED
        BY <1>1, <2>2, <3>2, <4>1, Kept DEF OfFamily
    <3>3. prod[p].full /\ Covers(p, {})
      BY <1>3, <2>1, <3>1 DEF ReadyInv, CompleteOK
    <3>. QED
      BY <3>1, <3>2, <3>3, SameCover
  <2>3. CASE p = q.p
    <3>1. prod'[p] = t.row
      BY <1>1, <2>3
    <3>2. InMutation(c, p)
      BY <1>1, <2>3 DEF InMutation
    <3>3. Promised(q, t.row)
      BY <1>1, <2>1, <3>2 DEF ReadyInv, CurrentOK
    <3>4. t.row.full /\ Covers(p, Payload(q))
      BY <1>3, <2>3, <3>1, <3>3 DEF Promised
    <3>5. Covers(p, {})'
      BY <1>1, <2>3, <3>4, CommitCovers
    <3>. QED
      BY <3>1, <3>4, <3>5
  <2>. QED
    BY <2>2, <2>3
<1>4. ASSUME NEW d \in Procs PROVE ImagesOK(d)' /\ CurrentOK(d)' /\ ExportOK(d)'
  <2>1. ExportOK(d)'
    BY <1>2, OthersExport
  <2>2. CASE d = c
    <3>1. txn'[c].row = None /\ txn'[c].pc = "done"
      BY <1>1, Committed DEF Ended, NoTxn
    <3>. QED
      BY <2>1, <2>2, <3>1, Undecided
  <2>3. CASE d # c
    <3>1. txn'[d] = txn[d]
      BY <1>1, <2>3, Committed
    <3>. QED
      BY <1>2, <2>1, <2>3, <3>1, OthersCurrent, OthersImages
  <2>. QED
    BY <2>2, <2>3
<1>. QED
  BY <1>3, <1>4 DEF ReadyInv, CompleteOK
-----------------------------------------------------------------------------
(* Publications and cleanups.                                                *)
\* The transaction of a publication publishes what was READY or PUBLISHED when it was
\* read and, but for a race, is so still.
LEMMA IssueReady ==
    ASSUME ReadyInv, PubInv', Races, NEW c \in Procs, job[c].pc = "commit", Commits(c),
           \A d \in Procs \ {c} : job'[d] = job[d],
           job'[c].pc \in {"done", "unlink"}, job'[c].export = job[c].export
    PROVE  ReadyInv'
<1>1. /\ prod \in [Products -> ProductRow \cup {None}]
      /\ art \in [Procs -> Artifact \cup {None}] /\ art[c] \in Artifact
      /\ art[c].export = job[c].export
      /\ \A d \in Procs : ImagesOK(d) /\ CurrentOK(d) /\ ExportOK(d)
  BY DEF ReadyInv, PubInv, FamilyInv, FamilyTypes, PubTypes, JobOK, ExportOK
<1>2. /\ art' = [art EXCEPT ![c].status = "COMMITTED"]
      /\ prod' = [p \in Products |-> IF Published(c, p) THEN [prod[p] EXCEPT !.state = "PUBLISHED"]
                                     ELSE prod[p]]
      /\ sku' = sku /\ txn' = txn
  BY DEF Commits
<1>3. \A d \in Procs : art'[d].export = art[d].export
  BY <1>1, <1>2 DEF Artifact
<1>4. ASSUME NEW p \in Products \ raced, Published(c, p)
      PROVE  /\ prod[p] # None /\ prod[p].state # "DRAFT"
             /\ prod'[p] # None /\ prod'[p].state = "PUBLISHED" /\ prod'[p].full = prod[p].full
  <2>1. InPublication(c, p)
    BY <1>1, <1>4 DEF Published, Exported, InPublication
  <2>2. prod[p] # None /\ prod[p].state # "DRAFT" /\ prod[p] \in ProductRow
    BY <1>1, <2>1 DEF ExportOK
  <2>3. prod'[p] = [prod[p] EXCEPT !.state = "PUBLISHED"]
    BY <1>2, <1>4
  <2>4. prod'[p] \in ProductRow /\ prod'[p].state = "PUBLISHED" /\ prod'[p].full = prod[p].full
    BY <2>2, <2>3 DEF ProductRow, States
  <2>. QED
    BY <2>2, <2>4, Nones
<1>5. ASSUME NEW p \in Products \ raced', prod'[p] # None, prod'[p].state # "DRAFT"
      PROVE  prod'[p].full /\ Covers(p, {})'
  <2>1. p \in Products \ raced
    BY <1>5 DEF Races
  <2>2. prod[p] # None /\ prod[p].state # "DRAFT" /\ prod'[p].full = prod[p].full
    <3>1. CASE Published(c, p)
      BY <1>4, <2>1, <3>1
    <3>2. CASE ~Published(c, p)
      BY <1>2, <1>5, <2>1, <3>2
    <3>. QED
      BY <3>1, <3>2
  <2>3. prod[p].full /\ Covers(p, {})
    BY <2>1, <2>2 DEF ReadyInv, CompleteOK
  <2>. QED
    BY <1>2, <2>2, <2>3 DEF Covers, OfFamily
<1>6. ASSUME NEW d \in Procs PROVE ImagesOK(d)' /\ CurrentOK(d)' /\ ExportOK(d)'
  <2>1. ImagesOK(d)'
    BY <1>1, <1>2 DEF ImagesOK
  <2>2. CurrentOK(d)'
    BY <1>2, OthersCurrent
  <2>3. CASE d # c
    BY <1>2, <1>3, <2>1, <2>2, <2>3, OthersExport
  <2>4. CASE d = c
    <3>1. ASSUME NEW p \in Products \ raced', InPublication(c, p)'
          PROVE  prod'[p] # None /\ prod'[p].state # "DRAFT"
      <4>1. p \in Products \ raced /\ Published(c, p)
        BY <1>1, <3>1 DEF Races, Published, Exported, InPublication
      <4>. QED
        BY <1>4, <4>1
    <3>2. ExportOK(c)'
      BY <3>1 DEF ExportOK
    <3>. QED
      BY <2>1, <2>2, <2>4, <3>2
  <2>. QED
    BY <2>3, <2>4
<1>. QED
  BY <1>5, <1>6 DEF ReadyInv, CompleteOK
\* A step of one publication or cleanup that commits nothing.
LEMMA JobReady ==
    ASSUME ReadyInv, PubInv', UNCHANGED <<familyVars, raced>>, NEW c \in Procs,
           \A d \in Procs \ {c} : job'[d] = job[d] /\ art'[d].export = art[d].export,
           ExportOK(c)'
    PROVE  ReadyInv'
<1>1. prod' = prod /\ sku' = sku /\ txn' = txn
  BY DEF familyVars
<1>2. CompleteOK'
  BY <1>1 DEF ReadyInv, CompleteOK, Covers, OfFamily
<1>3. ASSUME NEW d \in Procs PROVE ImagesOK(d)' /\ CurrentOK(d)' /\ ExportOK(d)'
  <2>1. ImagesOK(d) /\ CurrentOK(d) /\ ExportOK(d)
    BY DEF ReadyInv
  <2>2. ImagesOK(d)'
    BY <1>1, <2>1 DEF ImagesOK
  <2>3. CurrentOK(d)'
    BY <1>1, <2>1 DEF CurrentOK, InMutation, Promised, Written, Covers, OfFamily
  <2>4. ExportOK(d)'
    <3>1. CASE d = c
      BY <3>1
    <3>2. CASE d # c
      <4>1. job'[d] = job[d] /\ art'[d].export = art[d].export
        BY <3>2
      <4>. QED
        BY <1>1, <2>1, <4>1 DEF ExportOK, InPublication
    <3>. QED
      BY <3>1, <3>2
  <2>. QED
    BY <2>2, <2>3, <2>4
<1>. QED
  BY <1>2, <1>3 DEF ReadyInv
\* One that keeps what it has read, and the artifacts their contents.
LEMMA MovesReady ==
    ASSUME ReadyInv, PubInv', UNCHANGED <<familyVars, raced>>, NEW c \in Procs,
           \A d \in Procs : art'[d].export = art[d].export,
           \A d \in Procs \ {c} : job'[d] = job[d],
           job'[c].export = job[c].export, job[c].pc \notin {"idle", "done"},
           job'[c].pc # "idle",
           job'[c].pc \in {"temp", "replace", "commit"} =>
               job[c].pc \in {"temp", "replace", "commit"}
    PROVE  ReadyInv'
<1>1. ExportOK(c) /\ prod' = prod
  BY DEF ReadyInv, familyVars
<1>2. ExportOK(c)'
  BY <1>1 DEF ExportOK, InPublication
<1>. QED
  BY <1>2, JobReady
LEMMA ReadCatalogueReady ==
    ASSUME ReadyInv, PubInv', NEW c \in Procs, ReadCatalogue(c)
    PROVE  ReadyInv'
<1> DEFINE found == {p \in Products : Exportable(p)}
           export == [p \in Products |-> IF p \in found THEN Content(p) ELSE None]
<1>1. /\ job \in [Procs -> JobRecord] /\ UNCHANGED <<familyVars, raced>> /\ art' = art
      /\ prod' = prod
      /\ job' = [job EXCEPT ![c].pc = "done"]
         \/ job' = [job EXCEPT ![c].pc = "intent", ![c].export = export]
  BY DEF ReadyInv, PubInv, PubTypes, ReadCatalogue, familyVars
<1>2. \A p \in Products : export[p] # None => prod[p] # None /\ prod[p].state # "DRAFT"
  BY DEF Exportable
<1> HIDE DEF export
<1>3. /\ \A d \in Procs \ {c} : job'[d] = job[d]
      /\ job'[c].pc = "done" \/ (job'[c].pc = "intent" /\ job'[c].export = export)
  BY <1>1 DEF JobRecord
<1>4. ExportOK(c)'
  BY <1>1, <1>2, <1>3 DEF ExportOK, InPublication
<1>. QED
  BY <1>1, <1>3, <1>4, JobReady
LEMMA RegisterIntentReady ==
    ASSUME ReadyInv, PubInv', NEW c \in Procs, RegisterIntent(c)
    PROVE  ReadyInv'
<1> DEFINE row == [status |-> "IN_PROGRESS", leased |-> TRUE, export |-> job[c].export]
<1>1. /\ job \in [Procs -> JobRecord] /\ art \in [Procs -> Artifact \cup {None}]
      /\ ExportOK(c)
  BY DEF ReadyInv, PubInv, PubTypes
<1>2. /\ UNCHANGED <<familyVars, raced>> /\ prod' = prod /\ job[c].pc = "intent"
      /\ job' = [job EXCEPT ![c].pc = "temp"] /\ art' = [art EXCEPT ![c] = row]
  BY DEF RegisterIntent, familyVars
<1>3. row.export = job[c].export
  OBVIOUS
<1> HIDE DEF row
<1>4. /\ \A d \in Procs \ {c} : job'[d] = job[d] /\ art'[d] = art[d]
      /\ job'[c].pc = "temp" /\ job'[c].export = job[c].export
      /\ art'[c].export = job'[c].export
  BY <1>1, <1>2, <1>3 DEF JobRecord
<1>5. ExportOK(c)'
  BY <1>1, <1>2, <1>4 DEF ExportOK, InPublication
<1>. QED
  BY <1>2, <1>4, <1>5, JobReady
LEMMA ScanReady ==
    ASSUME ReadyInv, PubInv', NEW c \in Procs, Scan(c)
    PROVE  ReadyInv'
<1> DEFINE committed == {a \in {a \in Procs : art[a] # None} : art[a].status = "COMMITTED"}
           open == {a \in {a \in Procs : art[a] # None} : art[a].status = "IN_PROGRESS"}
           active == {a \in open : art[a].leased}
           abandoned == {a \in open : ~art[a].leased}
<1>1. /\ job \in [Procs -> JobRecord] /\ ExportOK(c) /\ job[c].pc = "idle"
      /\ UNCHANGED <<familyVars, raced>> /\ art' = art /\ prod' = prod
      /\ job' = [job EXCEPT ![c].pc = "abandon", ![c].committed = committed,
                            ![c].active = active, ![c].abandoned = abandoned]
  BY DEF ReadyInv, PubInv, PubTypes, Scan, familyVars
<1> HIDE DEF committed, open, active, abandoned
<1>2. /\ job'[c].pc = "abandon" /\ job'[c].export = job[c].export
      /\ \A d \in Procs \ {c} : job'[d] = job[d]
  BY <1>1 DEF JobRecord
<1>3. ExportOK(c)'
  BY <1>1, <1>2 DEF ExportOK, InPublication
<1>. QED
  BY <1>1, <1>2, <1>3, JobReady
\* The other steps of publications and cleanups, and the passing of a lease.
LEMMA ProtocolReady ==
    ASSUME ReadyInv, PubInv', NEW c \in Procs,
           \/ WriteTemp(c) \/ Replace(c) \/ MarkFailed(c) \/ Unlink(c)
           \/ Abandon(c) \/ Prune(c) \/ Raise(c) \/ Crash(c)
    PROVE  ReadyInv'
<1>1. /\ job \in [Procs -> JobRecord] /\ art \in [Procs -> Artifact \cup {None}]
      /\ JobOK(c)
  BY DEF ReadyInv, PubInv, PubTypes
<1>2. UNCHANGED <<familyVars, raced>>
  BY DEF WriteTemp, Replace, MarkFailed, Unlink, Abandon, Prune, Raise, Crash
<1>3. ASSUME NEW d \in Procs PROVE art'[d].export = art[d].export
  <2>1. CASE MarkFailed(c)
    <3>1. art[c] \in Artifact
      BY <1>1, <2>1 DEF MarkFailed, JobOK
    <3>. QED
      BY <1>1, <2>1, <3>1 DEF MarkFailed, Artifact
  <2>2. CASE Abandon(c)
    <3>1. d \in job[c].abandoned => art[d] \in Artifact
      BY <1>1 DEF JobOK
    <3>. QED
      BY <2>2, <3>1 DEF Abandon, Artifact
  <2>. QED
    BY <2>1, <2>2 DEF WriteTemp, Replace, Unlink, Prune, Raise, Crash
<1>4. /\ \A d \in Procs \ {c} : job'[d] = job[d]
      /\ job'[c].export = job[c].export /\ job[c].pc \notin {"idle", "done"}
      /\ job'[c].pc # "idle"
      /\ job'[c].pc \in {"temp", "replace", "commit"} =>
            job[c].pc \in {"temp", "replace", "commit"}
  BY <1>1 DEF WriteTemp, Replace, MarkFailed, Unlink, Abandon, Prune, Raise, Crash, JobRecord
<1>. QED
  BY <1>2, <1>3, <1>4, MovesReady
LEMMA LeaseExpiresReady ==
    ASSUME ReadyInv, PubInv', NEW a \in Procs, LeaseExpires(a)
    PROVE  ReadyInv'
<1>1. /\ art \in [Procs -> Artifact \cup {None}] /\ ExportOK(a)
      /\ UNCHANGED <<familyVars, raced>> /\ prod' = prod /\ job' = job
      /\ art[a] # None /\ art' = [art EXCEPT ![a].leased = FALSE]
  BY DEF ReadyInv, PubInv, PubTypes, LeaseExpires, familyVars
<1>2. \A d \in Procs : art'[d].export = art[d].export
  BY <1>1 DEF Artifact
<1>3. ExportOK(a)'
  BY <1>1, <1>2 DEF ExportOK, InPublication
<1>. QED
  BY <1>1, <1>2, <1>3, JobReady
\* Steps that leave everything this is about.
LEMMA SameReady ==
    ASSUME ReadyInv, PubInv', UNCHANGED <<prod, sku, txn, art, job, raced>>
    PROVE  ReadyInv'
BY DEF ReadyInv, CompleteOK, ImagesOK, CurrentOK, ExportOK, InMutation, InPublication,
       Promised, Written, Covers, OfFamily
-----------------------------------------------------------------------------
LEMMA MutateReady ==
    ASSUME ReadyInv, PubInv', Mutate
    PROVE  ReadyInv'
<1>1. Races /\ UNCHANGED <<art, job>>
  BY DEF Mutate, pubVars
<1>2. ASSUME NEW c \in Procs, Step(c) PROVE ReadyInv'
  <2>1. CASE AbortVictim(c)
    BY <1>1, <2>1, StopReady DEF AbortVictim
  <2>. QED
    BY <1>1, <1>2, <2>1, BeginReady, ReadProductReady, CheckKeysReady, ReadFamilyReady,
       WriteProductReady, ReadSkuReady, WriteSkuReady, CommitReady DEF Step
<1>3. ASSUME NEW c \in Procs, NEW q \in Requests, Arrive(c, q) PROVE ReadyInv'
  BY <1>1, <1>3, ArriveReady
<1>4. CASE (\E k \in Keys : ExpireRecord(k)) \/ DeleteExpired
  <2>1. prod' = prod /\ sku' = sku /\ txn' = txn
    BY <1>4 DEF ExpireRecord, DeleteExpired, tables
  <2>. QED
    BY <1>1, <2>1, NoRace, SameReady
<1>. QED
  BY <1>2, <1>3, <1>4 DEF Mutate
LEMMA ReadyStep == ReadyInv /\ [Next]_vars => ReadyInv'
<1> SUFFICES ASSUME ReadyInv, [Next]_vars PROVE ReadyInv'
  OBVIOUS
<1>1. PubInv'
  BY PubStep DEF ReadyInv
<1>2. CASE Mutate
  BY <1>1, <1>2, MutateReady
<1>3. ASSUME NEW c \in Procs, CommitArtifact(c) \/ AnswerLost(c) PROVE ReadyInv'
  <2>1. /\ job[c].pc = "commit" /\ Commits(c) /\ Races
        /\ job' = [job EXCEPT ![c].pc = "done"]
           \/ job' = [job EXCEPT ![c].pc = "unlink", ![c].failed = TRUE]
    BY <1>3 DEF CommitArtifact, AnswerLost
  <2>2. /\ \A d \in Procs \ {c} : job'[d] = job[d]
        /\ job'[c].pc \in {"done", "unlink"} /\ job'[c].export = job[c].export
    <3>1. job \in [Procs -> JobRecord]
      BY DEF ReadyInv, PubInv, PubTypes
    <3>. QED
      BY <2>1, <3>1 DEF JobRecord
  <2>. QED
    BY <1>1, <2>1, <2>2, IssueReady
<1>4. ASSUME NEW c \in Procs,
             ReadCatalogue(c) \/ Scan(c) \/ Publish(c) \/ Clean(c) \/ Fault(c)
      PROVE  ReadyInv'
  BY <1>1, <1>3, <1>4, ReadCatalogueReady, RegisterIntentReady, ScanReady, ProtocolReady
  DEF Publish, Clean, Fault
<1>5. ASSUME NEW a \in Procs, LeaseExpires(a) PROVE ReadyInv'
  BY <1>1, <1>5, LeaseExpiresReady
<1>6. CASE UNCHANGED vars
  BY <1>1, <1>6, SameReady DEF vars, familyVars, pubVars
<1>. QED
  BY <1>2, <1>4, <1>5, <1>6 DEF Next
LEMMA ReadyStart == NothingInvented /\ Init => ReadyInv
<1> SUFFICES ASSUME NothingInvented, Init PROVE ReadyInv
  OBVIOUS
<1>1. /\ PubInv /\ prod = InitProd /\ sku = InitSku
      /\ \A c \in Procs : txn[c] = NoTxn /\ job[c] = NoJob
  BY PubStart DEF Init, FamilyInit
<1>2. CompleteOK
  <2> SUFFICES ASSUME NEW p \in Products, InitProd[p] # None, InitProd[p].state # "DRAFT"
               PROVE  InitProd[p].full /\ Covers(p, {})
    BY <1>1 DEF CompleteOK
  <2> DEFINE rows == {s \in Skus : InitSku[s] # None /\ InitSku[s].prod = p}
  <2>1. InitProd[p].full /\ rows # {} /\ \A s \in rows : InitSku[s].media
    BY StartAssumption
  <2>. QED
    BY <1>1, <2>1 DEF Covers, OfFamily
<1>3. ASSUME NEW c \in Procs PROVE ImagesOK(c) /\ CurrentOK(c) /\ ExportOK(c)
  <2>1. /\ txn[c].pc = "idle" /\ txn[c].row = None /\ \A s \in Skus : txn[c].rows[s] = None
        /\ job[c].pc = "idle" /\ job[c].export = NoExport
    BY <1>1 DEF NoTxn, NoJob
  <2>2. \A p \in Products : NoExport[p] = None
    BY DEF NoExport
  <2>. QED
    BY <2>1, <2>2 DEF ImagesOK, CurrentOK, ExportOK, InPublication
<1>. QED
  BY <1>1, <1>2, <1>3 DEF ReadyInv
\* Rule LIF-01: a family is READY or PUBLISHED only while it passes the readiness gate.
\* The gate is asked by save_product_family of the stored family merged with the payload,
\* and by transition_lifecycle_state of the stored one, both before anything is locked: it
\* holds of what is committed later unless another commit changed the family in between.
THEOREM ReadyFamiliesAreComplete == NothingInvented => (Spec => []ReadyIsComplete)
<1>1. ReadyInv => ReadyIsComplete
  <2> SUFFICES ASSUME ReadyInv, NEW p \in Products \ raced, prod[p] # None,
                      prod[p].state # "DRAFT"
               PROVE  ReadinessGate(prod[p].full, FamilyMedia(p))
    BY DEF ReadyIsComplete
  <2>1. FamilyInv /\ prod[p].full /\ Covers(p, {})
    BY DEF ReadyInv, PubInv, CompleteOK
  <2>2. prod[p].full \in BOOLEAN
    BY <2>1 DEF FamilyInv, FamilyTypes, ProductRow
  <2>. QED
    BY <2>1, <2>2, StoredGate
<1>. QED
  BY <1>1, ReadyStart, ReadyStep, PTL DEF Spec

-----------------------------------------------------------------------------
(* Waiting.                                                                  *)

\* Sets of requests each of which waits for another one of the set.
Waiting(B) == {S \in SUBSET B : S # {} /\ \A c \in S : \E d \in S : WaitsFor(c, d)}

\* Where everybody waits, the smallest such set is one in which everybody is waited for too.
LEMMA WaitersDeadlock ==
    ASSUME NEW B, IsFiniteSet(B), B \in Waiting(B)
    PROVE  \E S \in Waiting(B) : Deadlocked(S)
<1>1. /\ FiniteSubsetsOf(B) = SUBSET B
      /\ IsWellFoundedOn(StrictSubsetOrdering(B), FiniteSubsetsOf(B))
  BY FS_FiniteSubsetsOfFinite, FS_StrictSubsetOrderingWellFounded
<1>2. Waiting(B) \subseteq SUBSET B /\ Waiting(B) # {}
  BY DEF Waiting
<1>3. PICK S \in Waiting(B) : \A T \in Waiting(B) : <<T, S>> \notin StrictSubsetOrdering(B)
  BY <1>1, <1>2, WFMin
<1>4. ASSUME NEW c \in S, \A d \in S : ~WaitsFor(d, c)
      PROVE  FALSE
  <2> DEFINE T == S \ {c}
  <2>1. PICK d \in S : WaitsFor(c, d)
    BY <1>3 DEF Waiting
  <2>2. d \in T
    BY <1>4, <2>1
  <2>3. \A e \in T : \E f \in T : WaitsFor(e, f)
    BY <1>3, <1>4 DEF Waiting
  <2>4. T \in Waiting(B)
    BY <1>3, <2>2, <2>3 DEF Waiting
  <2>5. <<T, S>> \in StrictSubsetOrdering(B)
    BY <1>3 DEF StrictSubsetOrdering, Waiting
  <2>. QED
    BY <1>3, <2>4, <2>5
<1>. QED
  BY <1>3, <1>4 DEF Deadlocked, Waiting

\* Who has written nothing holds no row and no reservation, and who has not begun no key.
LEMMA SomebodyCan == FamilyInv => SomebodyGoesOn
<1> SUFFICES ASSUME FamilyInv, NEW a \in Procs, txn[a].pc \notin {"idle", "done"},
                    \A c \in Procs : ~GoesOn(c)
             PROVE  FALSE
  BY DEF SomebodyGoesOn
<1> DEFINE writers == {c \in Procs : txn[c].row # None}
<1>1. \A c \in Procs : /\ txn[c].row # None <=> txn[c].pc \in {"skus", "sku", "commit"}
                       /\ txn[c].pc \in Stages
  BY Parts DEF Shape, ShapeOf, Writing, TxnRecord
<1>2. \A c \in Procs : txn[c].pc \notin {"idle", "done"} => ~WaitsForNothing(c)
  BY DEF GoesOn
<1>3. \E c \in Procs : Active(c)
  <2> SUFFICES ASSUME \A c \in Procs : ~Active(c) PROVE FALSE
    OBVIOUS
  <2>1. txn[a].pc = "begin" /\ KeyIsFree(a, txn[a].q.key)
    BY DEF KeyIsFree, HoldsKey, Others
  <2>. QED
    BY <1>2, <2>1 DEF WaitsForNothing
<1>4. writers # {}
  <2> SUFFICES ASSUME \A c \in Procs : txn[c].row = None PROVE FALSE
    OBVIOUS
  <2>1. PICK c \in Procs : Active(c)
    BY <1>3
  <2>2. \A p, k : ProductIsFree(c, p) /\ CodeIsFree(c, k)
    BY DEF ProductIsFree, CodeIsFree, HoldsProduct, HoldsCode, Others
  <2>3. txn[c].pc \notin {"begin", "sku"}
    BY <1>1, <2>1
  <2>. QED
    BY <1>2, <2>1, <2>2, <2>3 DEF WaitsForNothing
<1>5. ASSUME NEW c \in writers PROVE \E d \in writers : WaitsFor(c, d)
  <2>1. /\ txn[c].pc = "sku"
        /\ \/ ~SidIsFree(c, txn[c].q.skus[txn[c].n].sid)
           \/ ~SkuIsFree(c, EntityAtHand(txn[c]))
    BY <1>1, <1>2 DEF WaitsForNothing
  <2>2. PICK d \in Others(c) : \/ HoldsSid(d, txn[c].q.skus[txn[c].n].sid)
                               \/ HoldsSku(d, EntityAtHand(txn[c]))
    BY <2>1 DEF SidIsFree, SkuIsFree
  <2>3. EntityAtHand(txn[c]) \in Skus
    BY <2>1, AtHand DEF EntityAtHand, SkuInput
  <2>4. txn[d].row # None
    <3>1. Shape(d)
      BY <2>2, Parts DEF Others
    <3>. QED
      BY <2>2, <2>3, <3>1 DEF HoldsSid, HoldsSku, Shape, ShapeOf
  <2>. QED
    BY <2>1, <2>2, <2>4 DEF WaitsFor, Others
<1>6. PICK S \in Waiting(writers) : Deadlocked(S)
  <2>1. IsFiniteSet(writers)
    BY FinitelyMany, FS_Subset
  <2>. QED
    BY <1>4, <1>5, <2>1, WaitersDeadlock DEF Waiting
<1>7. PICK c \in S : TRUE
  BY <1>6 DEF Waiting
<1>8. c \in Procs /\ S \in SUBSET Procs /\ txn[c].pc \notin {"idle", "done"}
  BY <1>1, <1>6, <1>7 DEF Waiting
<1>. QED
  BY <1>6, <1>7, <1>8 DEF GoesOn

\* No transaction waits for ever: an advisory lock is waited for by who holds nothing, a
\* product's row and a code by who has written nothing, and of those that wait for each
\* other's sku_ids PostgreSQL aborts one.  So while a request of the service is under way
\* there is one whose next statement waits for nobody, or that is the victim.
THEOREM SomebodyCanGoOn == NothingInvented => (Spec => []SomebodyGoesOn)
<1>1. PubInv => SomebodyGoesOn
  BY SomebodyCan DEF PubInv
<1>. QED
  BY <1>1, Invariance, PTL

-----------------------------------------------------------------------------
(* The registers of business keys.                                           *)

\* What every step leaves of the keys that are claimed and of the entities there are.
Standing ==
    /\ \A k \in Codes : codeOwner[k] # None => codeOwner'[k] = codeOwner[k]
    /\ \A k \in Sids : sidOwner[k] # None => sidOwner'[k] = sidOwner[k]
    /\ \A p \in Products : prod[p] # None => prod'[p] # None
    /\ \A s \in Skus : sku[s] # None => sku'[s] # None /\ sku'[s].prod = sku[s].prod

LEMMA MutationStands ==
    ASSUME FamilyInv, NEW c \in Procs, Step(c)
    PROVE  Standing
<1>1. CASE Commit(c)
  <2>1. /\ codeOwner' = [codeOwner EXCEPT ![txn[c].row.code] = txn[c].q.p]
        /\ \A k \in Sids : sidOwner[k] # None => sidOwner'[k] = sidOwner[k]
    BY <1>1, Committed
  <2>2. codeOwner[txn[c].row.code] \in {None, txn[c].q.p}
    BY <1>1, Committing DEF Commit
  <2>3. codeOwner \in [Codes -> Products \cup {None}]
    BY DEF FamilyInv, FamilyTypes
  <2>4. \A k \in Codes : codeOwner[k] # None => codeOwner'[k] = codeOwner[k]
    BY <2>1, <2>2, <2>3
  <2>5. \A p \in Products : prod[p] # None => prod'[p] # None
    BY Unpublished
  <2>6. \A s \in Skus : sku[s] # None => sku'[s] # None /\ sku'[s].prod = sku[s].prod
    BY <1>1, Kept
  <2>. QED
    BY <2>1, <2>4, <2>5, <2>6 DEF Standing
<1>2. CASE ~Commit(c)
  <2>1. UNCHANGED tables
    BY <1>2 DEF Step, Begin, ReadProduct, CheckKeys, ReadFamily, WriteProduct, ReadSku,
       WriteSku, AbortVictim, Stop, tables
  <2>. QED
    BY <2>1 DEF tables, Standing
<1>. QED
  BY <1>1, <1>2

\* An artifact's commit changes the state of the products it exported and nothing else.
LEMMA IssueStands ==
    ASSUME PubInv, NEW c \in Procs, job[c].pc = "commit", Commits(c)
    PROVE  Standing
<1>1. art[c] \in Artifact /\ Sound(art[c].export)
  BY DEF PubInv, JobOK, IssuedOK
<1>2. /\ prod' = [p \in Products |-> IF art[c].export[p] # None
                                     THEN [prod[p] EXCEPT !.state = "PUBLISHED"] ELSE prod[p]]
      /\ UNCHANGED <<sku, codeOwner, sidOwner>>
  BY DEF Commits, Published, Exported
<1>3. ASSUME NEW p \in Products, prod[p] # None PROVE prod'[p] # None
  <2>1. prod[p] \in ProductRow
    BY <1>3 DEF PubInv, FamilyInv, FamilyTypes
  <2>2. [prod[p] EXCEPT !.state = "PUBLISHED"] \in ProductRow
    BY <2>1 DEF ProductRow, States
  <2>. QED
    BY <1>2, <2>1, <2>2, Nones
<1>. QED
  BY <1>2, <1>3 DEF Standing

LEMMA StepStands == PubInv /\ [Next]_vars => Standing
<1> SUFFICES ASSUME PubInv, [Next]_vars PROVE Standing
  OBVIOUS
<1>1. CASE \E c \in Procs : Step(c)
  BY <1>1, MutationStands DEF PubInv
<1>2. CASE \E c \in Procs : CommitArtifact(c) \/ AnswerLost(c)
  BY <1>2, IssueStands DEF CommitArtifact, AnswerLost
<1>3. ASSUME ~\E c \in Procs : Step(c) \/ CommitArtifact(c) \/ AnswerLost(c)
      PROVE  UNCHANGED <<prod, sku, codeOwner, sidOwner>>
  <2>1. CASE Mutate
    BY <1>3, <2>1 DEF Mutate, Arrive, ExpireRecord, DeleteExpired, tables
  <2>2. CASE ~Mutate
    BY <1>3, <2>2 DEF Next, ReadCatalogue, Scan, Publish, Clean, Fault, RegisterIntent,
      WriteTemp, Replace, MarkFailed, Unlink, Abandon, Prune, Raise, Crash, LeaseExpires,
      vars, familyVars
  <2>. QED
    BY <2>1, <2>2
<1>4. UNCHANGED <<prod, sku, codeOwner, sidOwner>> => Standing
  BY DEF Standing
<1>. QED
  BY <1>1, <1>2, <1>3, <1>4

\* What an entity carries.
CodeOf(p) == IF prod[p] = None THEN None ELSE prod[p].code
SidOf(s) == IF sku[s] = None THEN None ELSE sku[s].sid

LEMMA CarriedTypes ==
    ASSUME FamilyInv
    PROVE  /\ \A p \in Products : /\ CodeOf(p) \in Codes \cup {None}
                                  /\ prod[p] # None => CodeOf(p) # None /\ codeOwner[CodeOf(p)] = p
           /\ \A s \in Skus : /\ SidOf(s) \in Sids \cup {None}
                              /\ sku[s] # None => SidOf(s) # None /\ sidOwner[SidOf(s)] = s
<1>1. /\ prod \in [Products -> ProductRow \cup {None}] /\ sku \in [Skus -> SkuRow \cup {None}]
      /\ KeysAreOwned
  BY DEF FamilyInv, FamilyTypes, Reserved
<1>2. ASSUME NEW p \in Products, prod[p] # None
      PROVE  CodeOf(p) \in Codes /\ codeOwner[CodeOf(p)] = p
  BY <1>1, <1>2 DEF CodeOf, ProductRow, KeysAreOwned
<1>3. ASSUME NEW s \in Skus, sku[s] # None
      PROVE  SidOf(s) \in Sids /\ sidOwner[SidOf(s)] = s
  BY <1>1, <1>3 DEF SidOf, SkuRow, KeysAreOwned
<1>. QED
  BY <1>2, <1>3, KeyAssumption DEF CodeOf, SidOf

LEMMA RegistersStart == NothingInvented /\ Init => CodeRegistry!Init /\ SidRegistry!Init
<1> SUFFICES ASSUME NothingInvented, Init PROVE CodeRegistry!Init /\ SidRegistry!Init
  OBVIOUS
<1>1. FamilyInv
  BY FamilyStart DEF Init
<1>2. codeOwner \in [Codes -> Products \cup {None}] /\ sidOwner \in [Sids -> Skus \cup {None}]
  BY <1>1 DEF FamilyInv, FamilyTypes
<1>3. CodeRegistry!Init
  BY <1>1, <1>2, CarriedTypes DEF CodeRegistry!Init, CodeOf
<1>4. SidRegistry!Init
  BY <1>1, <1>2, CarriedTypes DEF SidRegistry!Init, SidOf
<1>. QED
  BY <1>3, <1>4

LEMMA RegistersStep ==
    PubInv /\ [Next]_vars => [CodeRegistry!Claim]_(CodeRegistry!vars)
                             /\ [SidRegistry!Claim]_(SidRegistry!vars)
<1> SUFFICES ASSUME PubInv, [Next]_vars PROVE CodeRegistry!Claim /\ SidRegistry!Claim
  OBVIOUS
<1>1. Standing /\ FamilyInv /\ FamilyInv'
  BY StepStands, PubStep DEF PubInv
<1>2. /\ codeOwner' \in [Codes -> Products \cup {None}]
      /\ sidOwner' \in [Sids -> Skus \cup {None}]
  BY <1>1 DEF FamilyInv, FamilyTypes
<1>3. /\ \A p \in Products : prod'[p] # None =>
            CodeOf(p)' \in Codes /\ CodeOf(p)' # None /\ codeOwner'[CodeOf(p)'] = p
      /\ \A s \in Skus : sku'[s] # None =>
            SidOf(s)' \in Sids /\ SidOf(s)' # None /\ sidOwner'[SidOf(s)'] = s
  <2>1. /\ prod' \in [Products -> ProductRow \cup {None}]
        /\ sku' \in [Skus -> SkuRow \cup {None}] /\ KeysAreOwned'
    BY <1>1 DEF FamilyInv, FamilyTypes, Reserved
  <2>2. ASSUME NEW p \in Products, prod'[p] # None
        PROVE  CodeOf(p)' \in Codes /\ codeOwner'[CodeOf(p)'] = p
    BY <2>1, <2>2 DEF CodeOf, ProductRow, KeysAreOwned
  <2>3. ASSUME NEW s \in Skus, sku'[s] # None
        PROVE  SidOf(s)' \in Sids /\ sidOwner'[SidOf(s)'] = s
    BY <2>1, <2>3 DEF SidOf, SkuRow, KeysAreOwned
  <2>. QED
    BY <2>2, <2>3, KeyAssumption
<1>4. ASSUME NEW p \in Products, CodeOf(p)' # CodeOf(p)
      PROVE  CodeOf(p)' # None /\ codeOwner'[CodeOf(p)'] = p
  <2>1. prod'[p] # None
    BY <1>1, <1>4 DEF Standing, CodeOf
  <2>. QED
    BY <1>3, <2>1
<1>5. ASSUME NEW s \in Skus, SidOf(s)' # SidOf(s)
      PROVE  SidOf(s)' # None /\ sidOwner'[SidOf(s)'] = s
  <2>1. sku'[s] # None
    BY <1>1, <1>5 DEF Standing, SidOf
  <2>. QED
    BY <1>3, <2>1
<1>6. /\ \A p \in Products : CodeOf(p)' \in Codes \cup {None}
      /\ \A s \in Skus : SidOf(s)' \in Sids \cup {None}
  BY <1>3 DEF CodeOf, SidOf
<1>7. CodeRegistry!Claim
  BY <1>1, <1>2, <1>4, <1>6 DEF CodeRegistry!Claim, CodeOf, Standing
<1>8. SidRegistry!Claim
  BY <1>1, <1>2, <1>5, <1>6 DEF SidRegistry!Claim, SidOf, Standing
<1>. QED
  BY <1>7, <1>8

\* The reservations of schema.sql are registers of keys: a code or a sku_id that was claimed
\* stays with its first owner, and no request leaves an entity with a key that is not its
\* own, for any requests and however save_product_family, renames and publications overlap.
THEOREM ReservationsAreForGood == NothingInvented => (Spec => KeysAreKept)
<1>1. NothingInvented /\ Spec =>
              /\ CodeRegistry!Init /\ [][CodeRegistry!Claim]_(CodeRegistry!vars)
              /\ SidRegistry!Init /\ [][SidRegistry!Claim]_(SidRegistry!vars)
  BY RegistersStart, RegistersStep, Invariance, PTL DEF Spec
<1>. QED
  BY <1>1 DEF KeysAreKept, CodeRegistry!Spec, SidRegistry!Spec

\* A SKU never leaves the family it was made in, and is never deleted: the service's checks of
\* CROSS_PRODUCT_SKU_MUTATION_DENIED hold although they read before they lock.
THEOREM SkusStayInTheirFamily == NothingInvented => (Spec => SkusStay)
<1>1. PubInv /\ [Next]_vars =>
        [\A s \in Skus : sku[s] # None => sku'[s] # None /\ sku'[s].prod = sku[s].prod]_familyVars
  BY StepStands DEF Standing
<1>. QED
  BY <1>1, Invariance, PTL DEF Spec, SkusStay
=============================================================================
