------------------------- MODULE CatalogPublication -------------------------
(***************************************************************************)
(* The Catalog business system as a whole: the mutation requests of        *)
(* CatalogFamilies together with the ShopDeckAdapter that publishes the    *)
(* catalogue.  A publication reads the READY and PUBLISHED families,       *)
(* registers an artifact under a lease, writes a file beside the database, *)
(* and commits the artifact and its products in one transaction.  A        *)
(* cleanup prunes the files of artifacts that were never committed.        *)
(*                                                                         *)
(* A process is one request: a mutation, a publication or a cleanup.  An   *)
(* artifact has the name of the process that makes it.                     *)
(***************************************************************************)
EXTENDS CatalogFamilies

CONSTANTS
    Publishers,   \* processes that may publish
    Cleaners,     \* processes that may run the cleanup
    EqualPrices   \* the prices whose selling price is not below the MRP

Exports == [Products -> [code : Codes, full : BOOLEAN, skus : SUBSET SkuRow] \cup {None}]
Statuses == {"IN_PROGRESS", "COMMITTED", "FAILED"}
Artifact == [status : Statuses, leased : BOOLEAN, export : Exports]

ASSUME PublicationAssumption ==
    /\ Publishers \subseteq Procs /\ Cleaners \subseteq Procs
    /\ Publishers \cap Cleaners = {}
    /\ EqualPrices \subseteq Prices /\ None \notin Artifact
    \* Nothing was published before the start.
    /\ \A p \in Products : InitProd[p] # None => InitProd[p].state # "PUBLISHED"

\* A database that the service has kept: what it calls READY has passed the gate.
ASSUME StartAssumption ==
    \A p \in Products : InitProd[p] # None /\ InitProd[p].state # "DRAFT" =>
        LET rows == {s \in Skus : InitSku[s] # None /\ InitSku[s].prod = p} IN
        InitProd[p].full /\ rows # {} /\ \A s \in rows : InitSku[s].media

VARIABLES
    art,      \* catalog_publication_artifacts, None before the intent is registered
    files,    \* the artifacts directory: <<"tmp", a>> and <<"csv", a>>
    job,      \* what a publication or a cleanup is at, and what it has read
    issued,   \* ghost: the artifacts whose commit took effect, whatever their row says now
    raced     \* ghost: the families that a commit changed while another request was
              \* acting on what it had read of them

pubVars == <<art, files, job, issued>>
vars == <<familyVars, pubVars, raced>>

\* What an artifact says of a family; vw_catalog_master joins products with their SKUs.
Rows(p) == {s \in Skus : sku[s] # None /\ sku[s].prod = p}

Content(p) == [code |-> prod[p].code, full |-> prod[p].full, skus |-> {sku[s] : s \in Rows(p)}]

Exportable(p) ==
    /\ prod[p] # None /\ prod[p].state \in {"READY", "PUBLISHED"}
    /\ Rows(p) # {}

NoExport == [p \in Products |-> None]

\* export: the content compiled, per family; committed, active and abandoned: what a
\* cleanup's scan of the table found; failed: the publication ends with an exception.
NoJob == [pc |-> "idle", export |-> NoExport, committed |-> {}, active |-> {},
          abandoned |-> {}, failed |-> FALSE]

Init ==
    /\ FamilyInit
    /\ art = [a \in Procs |-> None]
    /\ files = {}
    /\ job = [c \in Procs |-> NoJob]
    /\ issued = {}
    /\ raced = {}

\* Requests that have read p and have not ended.
InMutation(d, p) ==
    /\ txn[d].pc \in {"keys", "family", "write", "skus", "sku", "commit"}
    /\ txn[d].q.p = p
InPublication(d, p) ==
    /\ job[d].pc \notin {"idle", "done"}
    /\ job[d].export[p] # None
Readers(p) == {d \in Procs : InMutation(d, p) \/ InPublication(d, p)}

\* Whether a step changes p under a reader that has not taken it.
Changes(p) == prod'[p] # prod[p] \/ (\E s \in Skus : sku'[s] # sku[s] /\ sku'[s].prod = p)
Races ==
    raced' = raced \cup {p \in Products : Changes(p) /\ Readers(p) \cap Readers(p)' # {}}

Exported(a) == {p \in Products : art[a].export[p] # None}

-----------------------------------------------------------------------------
(* generate_publication_artifact.                                            *)

\* The audit refuses a row whose selling price is not below its MRP.
Refused(p) == \E s \in Rows(p) : sku[s].price \in EqualPrices

\* One SELECT, then the pre-flight audit: one refused row rejects the whole
\* publication, and so does an empty catalogue.
ReadCatalogue(c) ==
    LET found == {p \in Products : Exportable(p)} IN
    /\ c \in Publishers /\ txn[c].pc = "idle" /\ job[c].pc = "idle"
    /\ IF found = {} \/ \E p \in found : Refused(p)
       THEN job' = [job EXCEPT ![c].pc = "done"]
       ELSE job' = [job EXCEPT ![c].pc = "intent",
              ![c].export = [p \in Products |-> IF p \in found THEN Content(p) ELSE None]]
    /\ UNCHANGED <<familyVars, art, files, issued, raced>>

\* Faulty: the row is inserted with the commit, and a publication starts with its file.
RegisterIntent_Late(c) ==
    /\ job[c].pc = "intent"
    /\ job' = [job EXCEPT ![c].pc = "temp"]
    /\ UNCHANGED <<familyVars, art, files, issued, raced>>

\* Step 1: an IN_PROGRESS row with a lease, committed before there is any file.
RegisterIntent(c) ==
    /\ job[c].pc = "intent"
    /\ art' = [art EXCEPT ![c] = [status |-> "IN_PROGRESS", leased |-> TRUE,
                                  export |-> job[c].export]]
    /\ job' = [job EXCEPT ![c].pc = "temp"]
    /\ UNCHANGED <<familyVars, files, issued, raced>>

WriteTemp(c) ==
    /\ job[c].pc = "temp"
    /\ files' = files \cup {<<"tmp", c>>}
    /\ job' = [job EXCEPT ![c].pc = "replace"]
    /\ UNCHANGED <<familyVars, art, issued, raced>>

\* os.replace; it raises when a cleanup has removed the temporary file.
Replace(c) ==
    /\ job[c].pc = "replace"
    /\ IF <<"tmp", c>> \in files
       THEN /\ files' = (files \ {<<"tmp", c>>}) \cup {<<"csv", c>>}
            /\ job' = [job EXCEPT ![c].pc = "commit"]
       ELSE /\ job' = [job EXCEPT ![c].pc = "failing", ![c].failed = TRUE]
            /\ UNCHANGED files
    /\ UNCHANGED <<familyVars, art, issued, raced>>

\* Faulty: every family that is ready by now is called published.
Published_AllReady(a, p) == prod[p] # None /\ prod[p].state = "READY"

Published(a, p) == p \in Exported(a)

\* The transaction: the artifact and the products it exported, whatever has become of
\* either since they were read.  The update waits for the products' row locks.
Commits(c) ==
    /\ \A p \in Products : Published(c, p) => ProductIsFree(c, p)
    /\ art' = [art EXCEPT ![c].status = "COMMITTED"]
    /\ prod' = [p \in Products |-> IF Published(c, p) THEN [prod[p] EXCEPT !.state = "PUBLISHED"]
                                   ELSE prod[p]]
    /\ issued' = issued \cup {c}
    /\ UNCHANGED <<sku, codeOwner, sidOwner, ledger, idem, ran, txn, files>>

CommitArtifact(c) ==
    /\ job[c].pc = "commit"
    /\ Commits(c)
    /\ job' = [job EXCEPT ![c].pc = "done"]
    /\ Races

\* The connection breaks: before the commit, or after it and before its answer; the
\* handler then can no longer mark the row.
AnswerLost(c) ==
    /\ job[c].pc = "commit"
    /\ Commits(c)
    /\ job' = [job EXCEPT ![c].pc = "unlink", ![c].failed = TRUE]
    /\ Races

\* An exception in the protocol's steps 2 and 3.
Raise(c) ==
    /\ job[c].pc \in {"temp", "replace", "commit"}
    /\ job' = [job EXCEPT ![c].pc = "failing", ![c].failed = TRUE]
    /\ UNCHANGED <<familyVars, art, files, issued, raced>>

\* The handler: the row is marked FAILED -- or not, the error is swallowed -- and the
\* files are removed.
MarkFailed(c) ==
    /\ job[c].pc = "failing"
    /\ \/ art' = [art EXCEPT ![c].status = "FAILED"]
       \/ UNCHANGED art
    /\ job' = [job EXCEPT ![c].pc = "unlink"]
    /\ UNCHANGED <<familyVars, files, issued, raced>>

Unlink(c) ==
    /\ job[c].pc = "unlink"
    /\ files' = files \ {<<"csv", c>>, <<"tmp", c>>}
    /\ job' = [job EXCEPT ![c].pc = "done"]
    /\ UNCHANGED <<familyVars, art, issued, raced>>

\* The process dies, or the request is cancelled: no handler runs.
Crash(c) ==
    /\ job[c].pc \notin {"idle", "done"}
    /\ job' = [job EXCEPT ![c].pc = "done"]
    /\ UNCHANGED <<familyVars, art, files, issued, raced>>

\* Ten minutes pass.
LeaseExpires(a) ==
    /\ art[a] # None /\ art[a].leased
    /\ art' = [art EXCEPT ![a].leased = FALSE]
    /\ UNCHANGED <<familyVars, files, job, issued, raced>>

-----------------------------------------------------------------------------
(* cleanup_uncommitted_publication_artifacts.                                *)

\* Faulty: only committed artifacts are kept.
Keeps_Committed(c, f) == f[2] \in job[c].committed

\* A temporary file is kept for an active lease, a finished one for a committed row too.
Keeps(c, f) == f[2] \in job[c].active \/ (f[1] = "csv" /\ f[2] \in job[c].committed)

\* One SELECT of the whole table: everything after it acts on this snapshot.
Scan(c) ==
    LET known == {a \in Procs : art[a] # None}
        open == {a \in known : art[a].status = "IN_PROGRESS"}
    IN
    /\ c \in Cleaners /\ txn[c].pc = "idle" /\ job[c].pc = "idle"
    /\ job' = [job EXCEPT ![c].pc = "abandon",
          ![c].committed = {a \in known : art[a].status = "COMMITTED"},
          ![c].active = {a \in open : art[a].leased},
          ![c].abandoned = {a \in open : ~art[a].leased}]
    /\ UNCHANGED <<familyVars, art, files, issued, raced>>

\* The update names the rows and does not look at their status again.
Abandon(c) ==
    /\ job[c].pc = "abandon"
    /\ art' = [a \in Procs |-> IF a \in job[c].abandoned
                               THEN [art[a] EXCEPT !.status = "FAILED"] ELSE art[a]]
    /\ job' = [job EXCEPT ![c].pc = "prune"]
    /\ UNCHANGED <<familyVars, files, issued, raced>>

\* The directory is listed now, and judged by the snapshot of the table.
Prune(c) ==
    /\ job[c].pc = "prune"
    /\ files' = {f \in files : Keeps(c, f)}
    /\ job' = [job EXCEPT ![c].pc = "done"]
    /\ UNCHANGED <<familyVars, art, issued, raced>>

-----------------------------------------------------------------------------
Publish(c) ==
    \/ RegisterIntent(c) \/ WriteTemp(c) \/ Replace(c) \/ CommitArtifact(c)
    \/ MarkFailed(c) \/ Unlink(c)
Clean(c) == Abandon(c) \/ Prune(c)
Fault(c) == Raise(c) \/ AnswerLost(c) \/ Crash(c)

Mutate ==
    /\ \/ \E c \in Procs : Step(c)
       \/ \E c \in Procs, q \in Requests : job[c].pc = "idle" /\ Arrive(c, q)
       \/ \E k \in Keys : ExpireRecord(k)
       \/ DeleteExpired
    /\ UNCHANGED pubVars
    /\ Races

Next ==
    \/ Mutate
    \/ \E c \in Procs : ReadCatalogue(c) \/ Scan(c) \/ Publish(c) \/ Clean(c) \/ Fault(c)
    \/ \E a \in Procs : LeaseExpires(a)

Spec == Init /\ [][Next]_vars

-----------------------------------------------------------------------------
(* Properties.                                                               *)

TypeOK ==
    /\ prod \in [Products -> ProductRow \cup {None}]
    /\ sku \in [Skus -> SkuRow \cup {None}]
    /\ codeOwner \in [Codes -> Products \cup {None}]
    /\ sidOwner \in [Sids -> Skus \cup {None}]
    /\ DOMAIN idem = Keys /\ DOMAIN ran = Keys /\ DOMAIN txn = Procs
    /\ \A k \in Keys : idem[k].live => idem[k].q \in Requests /\ ran[k] \in Nat
    /\ art \in [Procs -> Artifact \cup {None}]
    /\ files \subseteq {"tmp", "csv"} \X Procs
    /\ issued \subseteq Procs /\ raced \subseteq Products
    /\ \A f \in files : art[f[2]] # None

\* A product is PUBLISHED only after an artifact that contains it was committed, at
\* whatever point the publication died (crash points a to e of 05-shopdeck-channel.md).
NoFalsePublished ==
    \A p \in Products : prod[p] # None /\ prod[p].state = "PUBLISHED"
        => \E a \in issued : art[a].export[p] # None

\* A committed artifact loses its file only to a cleanup that scanned the table before
\* the artifact was registered or after its lease had run out, or to its own publisher
\* when the answer of the commit was lost: never to one that saw it leased or committed.
IssuedKeepsItsFile ==
    \A a \in issued :
        \/ <<"csv", a>> \in files
        \/ \E c \in Cleaners : job[c].pc = "done" /\ a \notin job[c].active \cup job[c].committed
        \/ job[a].failed

\* A family that is READY or PUBLISHED passes the readiness gate (rule LIF-01), whatever
\* requests came before, except when two of them overlapped on it: nothing is locked
\* between the reads a request decides on and its write.
ReadyIsComplete ==
    \A p \in Products \ raced :
        prod[p] # None /\ prod[p].state # "DRAFT"
            => ReadinessGate(prod[p].full, FamilyMedia(p))

\* What the next statement of c would wait for is free.
WaitsForNothing(c) ==
    LET t == txn[c] IN
    /\ t.pc = "begin" /\ t.q.key # None => KeyIsFree(c, t.q.key)
    /\ t.pc = "write" => /\ ProductIsFree(c, t.q.p)
                         /\ CodeIsFree(c, Written(t.q, t.seen).code)
    /\ t.pc = "sku" => SidIsFree(c, t.q.skus[t.n].sid) /\ SkuIsFree(c, EntityAtHand(t))

\* A request that can go on, or that PostgreSQL aborts for the sake of others.
GoesOn(c) ==
    /\ txn[c].pc \notin {"idle", "done"}
    /\ WaitsForNothing(c) \/ \E S \in SUBSET Procs : c \in S /\ Deadlocked(S)

SomebodyGoesOn ==
    (\E c \in Procs : txn[c].pc \notin {"idle", "done"}) => \E c \in Procs : GoesOn(c)

\* Requests wait for each other's advisory locks, rows and reservations, yet as long as
\* one is under way one of them can go on: none is left waiting for ever.
NobodyIsStuck ==
    /\ SomebodyGoesOn
    /\ \A c \in Procs : GoesOn(c) => ENABLED Step(c)

-----------------------------------------------------------------------------
(* What the documentation says and the code does not do: violated.            *)

\* 04-catalog-contracts.md: PUBLISHED says that the current state of the family has been
\* issued in an artifact.  A save that commits while a publication runs is overwritten.
PublishedIsCurrent ==
    \A p \in Products : prod[p] # None /\ prod[p].state = "PUBLISHED"
        => \E a \in issued : art[a].export[p] = Content(p)

=============================================================================
