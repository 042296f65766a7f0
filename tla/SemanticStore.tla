------------------------------ MODULE SemanticStore ------------------------------
(***************************************************************************)
(* The semantic store of the Brain (AZM): UniversalAzmIngester writes the    *)
(* contracts of the business systems into it, each in one transaction, and   *)
(* PersistentAzmProvider answers from it.  A contract is known by the hash   *)
(* of its text, so another version of it is another contract.                *)
(*                                                                         *)
(* The database is PostgreSQL at READ COMMITTED: a statement sees what is    *)
(* committed, and the writer of a row, or of a value of a unique index,      *)
(* waits for the transaction that wrote it before.                           *)
(***************************************************************************)
EXTENDS Integers, Sequences

CONSTANTS
    Ingesters, Contracts, SemanticKeys, Terms, Namespaces,
    NamespaceOf,   \* namespace of a contract
    Declares,      \* its concepts, in the order of the file
    AliasesOf,     \* for a contract and a key the aliases declared
    Relations,     \* its relationships, as pairs of keys
    MappedFields,  \* the keys that fields of its view are mapped to
    NativeKeys,    \* the concepts its external mappings name
    Bootstrap,     \* keys that the fallback provider knows
    Absent

ASSUME StoreAssumption ==
    /\ NamespaceOf \in [Contracts -> Namespaces]
    /\ Declares \in [Contracts -> Seq(SemanticKeys)]
    /\ AliasesOf \in [Contracts -> [SemanticKeys -> SUBSET Terms]]
    /\ Relations \in [Contracts -> SUBSET (SemanticKeys \X SemanticKeys)]
    /\ MappedFields \in [Contracts -> SUBSET SemanticKeys]
    /\ NativeKeys \in [Contracts -> SUBSET SemanticKeys]
    /\ Bootstrap \subseteq SemanticKeys
    /\ Absent \notin Contracts

VARIABLES
    runs,      \* the COMPLETED ingestion runs, in the order of their commits
    store,     \* the committed rows
    ingester,  \* a process: where it is, its contract, and what it wrote
    reader     \* a request to the provider

storeVars == <<runs, store, ingester, reader>>

DeclaredBy(c) == {Declares[c][n] : n \in DOMAIN Declares[c]}

Resting == [pc |-> "idle", contract |-> Absent, next |-> 1, found |-> FALSE, wrote |-> {},
            links |-> {}]
NoAnswer == [key |-> Absent, by |-> Absent, aliases |-> {}, whole |-> TRUE]
NoQuestion == [todo |-> {}, answer |-> NoAnswer]

StoreInit ==
    /\ runs = <<>>
    /\ store = [spaces |-> {}, views |-> {}, concept |-> [k \in SemanticKeys |-> Absent],
                aliases |-> {}, edges |-> {}, mapped |-> {}, links |-> {}]
    /\ ingester = [i \in Ingesters |-> Resting]
    /\ reader = NoQuestion

-----------------------------------------------------------------------------
(* The rows of a contract in the order of ingest.  Those of the aliases go   *)
(* with their concept, those of the attributes and their mappings with the   *)
(* view: they have no unique index, but are written after a row that has.    *)

RowsOf(c) ==
    <<<<"space", NamespaceOf[c]>>>>
    \o [n \in DOMAIN Declares[c] |-> <<"concept", Declares[c][n]>>]
    \o <<<<"edges", c>>, <<"view", NamespaceOf[c]>>, <<"links", c>>>>

Present(r) ==
    \/ r[1] = "space" /\ r[2] \in store.spaces
    \/ r[1] = "view" /\ r[2] \in store.views
    \/ r[1] = "concept" /\ store.concept[r[2]] # Absent

\* The store once the rows W of contract c are committed: a concept found by its key is given
\* the new definition, aliases and mappings are added, and nothing is removed.
Applied(st, c, W, links) ==
    LET keys == {k \in SemanticKeys : <<"concept", k>> \in W}
    IN  [spaces  |-> st.spaces \cup {s \in Namespaces : <<"space", s>> \in W},
         views   |-> st.views \cup {s \in Namespaces : <<"view", s>> \in W},
         concept |-> [k \in SemanticKeys |-> IF k \in keys THEN c ELSE st.concept[k]],
         aliases |-> st.aliases \cup {p \in keys \X Terms : p[2] \in AliasesOf[c][p[1]]},
         edges   |-> IF <<"edges", c>> \in W THEN st.edges \cup Relations[c] ELSE st.edges,
         mapped  |-> IF <<"view", NamespaceOf[c]>> \in W
                     THEN st.mapped \cup (MappedFields[c] \cap DeclaredBy(c)) ELSE st.mapped,
         links   |-> st.links \cup links]

\* What a failed run leaves: its transaction is rolled back, and with it the row of the run
\* that fail_ingestion_run would mark FAILED.
\* Faulty: commits what was written, to keep the row of the run.
AfterFailure_Kept(st, me) == Applied(st, me.contract, me.wrote, me.links)
AfterFailure(st, me) == st

IngestFails(i) ==
    /\ store' = AfterFailure(store, ingester[i])
    /\ ingester' = [ingester EXCEPT ![i] = Resting]
    /\ UNCHANGED <<runs, reader>>

\* execute_schema: CREATE INDEX IF NOT EXISTS waits for the transactions writing to the table.
OpenStore(i, c) ==
    /\ ingester[i].pc = "idle"
    /\ \A j \in Ingesters : \A r \in ingester[j].wrote : r[1] \in {"space", "edges", "links"}
    /\ ingester' = [ingester EXCEPT ![i] = [Resting EXCEPT !.pc = "open", !.contract = c]]
    /\ UNCHANGED <<runs, store, reader>>

Ingested(c) == \E n \in DOMAIN runs : runs[n] = c

\* is_already_ingested asks for a completed run of this text, not whether it was the last.
BeginRun(i) ==
    /\ ingester[i].pc = "open"
    /\ ingester' = [ingester EXCEPT ![i] = IF Ingested(@.contract) THEN Resting
                                           ELSE [@ EXCEPT !.pc = "look"]]
    /\ UNCHANGED <<runs, store, reader>>

RowNow(i) == RowsOf(ingester[i].contract)[ingester[i].next]
MoreRows(i) == ingester[i].next <= Len(RowsOf(ingester[i].contract))

\* The SELECT of an insert_ helper.
LookUp(i) ==
    /\ ingester[i].pc = "look" /\ MoreRows(i) /\ RowNow(i)[1] \in {"space", "concept", "view"}
    /\ ingester' = [ingester EXCEPT ![i].pc = "write", ![i].found = Present(RowNow(i))]
    /\ UNCHANGED <<runs, store, reader>>

WroteRow(i, links) ==
    /\ ingester' = [ingester EXCEPT ![i].pc = "look", ![i].next = @ + 1, ![i].links = links,
                                    ![i].wrote = @ \cup {RowNow(i)}]
    /\ UNCHANGED <<runs, store, reader>>

\* Its INSERT or UPDATE, which waits for another transaction that wrote the row.
WriteRow(i) ==
    LET r == RowNow(i)
        me == ingester[i]
    IN  /\ me.pc = "write"
        /\ \A j \in Ingesters \ {i} : r \notin ingester[j].wrote
        /\ IF Present(r) /\ ~me.found
           THEN IngestFails(i)       \* UNIQUE: inserted since by the other
           ELSE IF r[1] = "space" /\ me.found
           THEN /\ ingester' = [ingester EXCEPT ![i].pc = "look", ![i].next = @ + 1]
                /\ UNCHANGED <<runs, store, reader>>
           ELSE WroteRow(i, me.links)

\* A relationship with a key that this contract does not declare ends the run.
Relate(i) ==
    LET c == ingester[i].contract
    IN  /\ ingester[i].pc = "look" /\ MoreRows(i) /\ RowNow(i)[1] = "edges"
        /\ IF Relations[c] \subseteq DeclaredBy(c) \X DeclaredBy(c)
           THEN WroteRow(i, {}) ELSE IngestFails(i)

\* A native concept may be of another namespace; one that is not there yet is left out.
LinkExternal(i) ==
    LET c == ingester[i].contract
    IN  /\ ingester[i].pc = "look" /\ MoreRows(i) /\ RowNow(i)[1] = "links"
        /\ WroteRow(i, {k \in NativeKeys[c] : k \in DeclaredBy(c) \/ store.concept[k] # Absent})

CompleteRun(i) ==
    /\ ingester[i].pc = "look" /\ ~MoreRows(i)
    /\ store' = Applied(store, ingester[i].contract, ingester[i].wrote, ingester[i].links)
    /\ runs' = Append(runs, ingester[i].contract)
    /\ ingester' = [ingester EXCEPT ![i] = Resting]
    /\ UNCHANGED reader

\* A statement raises: the connection is lost, or the run is the victim of a deadlock.
StatementRaises(i) == ingester[i].pc \in {"look", "write"} /\ IngestFails(i)

-----------------------------------------------------------------------------
(* PersistentAzmProvider: a concept is read in two statements, and the keys  *)
(* of an alias in one more before.                                           *)

Question(S) ==
    /\ reader = NoQuestion
    /\ reader' = [NoQuestion EXCEPT !.todo = S]
    /\ UNCHANGED <<runs, store, ingester>>

AskForKey == \E k \in SemanticKeys : Question({k})

AskForAlias == \E t \in Terms : Question({k \in SemanticKeys : <<k, t>> \in store.aliases})

\* Without a row the fallback answers, or the request ends with ValueError.
ReadRow ==
    /\ reader.answer.whole
    /\ \E k \in reader.todo :
         reader' = IF store.concept[k] # Absent
                   THEN [todo |-> reader.todo \ {k},
                         answer |-> [NoAnswer EXCEPT !.key = k, !.by = store.concept[k],
                                                     !.whole = FALSE]]
                   ELSE IF k \in Bootstrap THEN [NoQuestion EXCEPT !.todo = reader.todo \ {k}]
                   ELSE NoQuestion
    /\ UNCHANGED <<runs, store, ingester>>

ReadAliases ==
    /\ ~reader.answer.whole
    /\ reader' = [reader EXCEPT
                     !.answer.aliases = {t \in Terms : <<reader.answer.key, t>> \in store.aliases},
                     !.answer.whole = TRUE]
    /\ UNCHANGED <<runs, store, ingester>>

AnswerQuestion ==
    /\ reader.todo = {} /\ reader.answer.whole
    /\ reader' = NoQuestion
    /\ UNCHANGED <<runs, store, ingester>>

-----------------------------------------------------------------------------
StoreNext ==
    \/ \E i \in Ingesters :
         \/ \E c \in Contracts : OpenStore(i, c)
         \/ BeginRun(i) \/ LookUp(i) \/ WriteRow(i) \/ Relate(i) \/ LinkExternal(i)
         \/ CompleteRun(i) \/ StatementRaises(i)
    \/ AskForKey \/ AskForAlias \/ ReadRow \/ ReadAliases \/ AnswerQuestion

StoreSpec == StoreInit /\ [][StoreNext]_storeVars

-----------------------------------------------------------------------------
RowKinds == {"space", "concept", "edges", "view", "links"}

StoreTypeOK ==
    /\ runs \in Seq(Contracts)
    /\ store.concept \in [SemanticKeys -> Contracts \cup {Absent}]
    /\ store.aliases \subseteq SemanticKeys \X Terms
    /\ store.links \cup store.mapped \subseteq SemanticKeys
    /\ \A i \in Ingesters : /\ ingester[i].pc \in {"idle", "open", "look", "write"}
                            /\ \A r \in ingester[i].wrote : r[1] \in RowKinds
    /\ reader.todo \subseteq SemanticKeys

\* The last of the completed runs that declares the concept.
LastRunOf(k) ==
    LET mine == {n \in DOMAIN runs : k \in DeclaredBy(runs[n])}
    IN  IF mine = {} THEN Absent
        ELSE runs[CHOOSE n \in mine : \A o \in mine : o <= n]

\* Nothing but whole ingestions is ever seen: whatever runs fail, wait for each other or overtake
\* each other, the definition of every concept is that of the completed run that declared it last,
\* with its relationships, and a concept answered in the middle of a commit has at least the
\* aliases that go with the definition in the answer (universal_ingester.ingest: one transaction;
\* persistent_provider.get_concept_by_id: two statements).
OnlyWholeIngestions ==
    /\ \A k \in SemanticKeys : store.concept[k] = LastRunOf(k)
    /\ \A n \in DOMAIN runs : Relations[runs[n]] \subseteq store.edges
    /\ LET a == reader.answer
       IN  a.whole /\ a.by # Absent => AliasesOf[a.by][a.key] \subseteq a.aliases
===============================================================================
