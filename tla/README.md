# Verification of AaramBooks

AaramBooks is a Brain, a service that understands questions and events with the help of language models,
and the business systems it works for: ShopDeck with the orders and failed deliveries, the Catalog, an
inventory. These modules say what must hold of them although every process can die between two statements,
every message can be lost, late, repeated or reordered, and a language model may answer anything.

The largest part is the pipeline that calls the customers of failed deliveries. A *non-delivery report*
(NDR) enters ShopDeck's work queue, the Brain claims it, decides whether a call is worth it, registers an
engagement, has a voice provider (Exotel or Sarvam) place the call, listens to the provider's webhooks, and
delivers the customer's answer back to ShopDeck: five processes and three databases. The other parts are the
Catalog with its publication, the synchronization of ShopDeck's tables, and the Brain's decisions,
conversations, evidence and knowledge.

- [Inventory](#inventory)
- [Modules and their relation to the code](#modules)
- [Runs, bounds and fairness](#runs)
- [Proofs](#proofs)
- [Disagreements between code and documentation](#disagreements)
- [What is not modelled](#not-modelled)
- [Plan](#plan)

## Inventory

Paths are relative to `src/`; `shopdeck` stands for `scratch_shopdeck_canonical/backend`.

| Component | State | Operations | Hard behaviour | Must hold |
|---|---|---|---|---|
| ShopDeck NDR queue (`shopdeck/api/routers/ndr_queue.py`, `shopdeck/api/repositories/ndr_queue.py`, `db/migrations/001_ndr_queue.sql`) | PostgreSQL: `ndr_queue`, `ndr_engagements`, `ndr_intelligence_results` | enroll, mark terminal, claim, register engagement, report status, report failure, submit result | a handler is a series of transactions of its own; retries of half-done requests; leases | status never ahead of evidence; one result per engagement; closed items stay closed; a registered item is not handed out again |
| Enrollment by the sync (last step of `run_orchestrator`, `shopdeck/sync/sync_shopdeck_mcp_data.py`) | `shipment_ndr_reports` | two queue transactions per run | runs beside the API; a step whose failure is passed over | finished shipments leave the queue |
| NDR queue poller (`src/workers/ndr_queue_poller.py`) | a semaphore, a loop, a set of tasks | claim, orchestrate, register, dispatch, report, wait for the end of the call | asyncio tasks, lost answers, leases shorter than calls, restart | calls are bounded by claims; slots are not lost; calling hours |
| Engagement record (`src/infrastructure/adapters/customer_engagement/repository.py`) | MongoDB: `customer_engagements`, events, two work queues | compare-and-swap transitions, correlation, event log, claims with lease and token | no transactions; every operation may raise after it was applied | states only go forward; announced results are final |
| Exotel webhooks and dispatch (`src/api/webhooks/exotel_webhooks.py`, `.../executor.py`) | the engagement record | session-start, transcript, transfer, session-end, insights; dispatch | repeated, reordered, concurrent webhooks, racing the dispatch that created them | what was acknowledged is in the outbox |
| Sarvam webhook (`src/api/webhooks/sarvam_webhooks.py`) | the engagement record | call-completed | six writes to three stores, any of which may fail | same, and ShopDeck keeps the outcome of a call |
| Recording worker (`src/workers/recording_fetch_worker.py`) | `recording_fetch_queue` | claim, fetch, report, mark | leases, retries, two writers of one ShopDeck row | a recording marked delivered was reported |
| Writeback worker (`src/workers/outbound_writeback_worker.py`) | `outbound_writeback_queue` | claim, POST, mark, retry, dead-letter | leases, overlapping workers, lost and late POSTs, marks that raise | a result accepted is delivered or given up, once |
| Reply parser (`src/intelligence_domains/ndr/reply_parser.py`) | none | classify, map, record pending, enqueue result | concurrent turns | (through the webhooks) |
| ShopDeck adapter (`src/infrastructure/adapters/shopdeck_cem_adapter.py`) | a cached token | HTTP requests with one retry on 401 | token shared by all requests | (through its callers) |
| NDR orchestrator, CCC builder (`src/intelligence_domains/ndr/orchestrator.py`, `src/brain_core/context_engine/ccc_builder.py`) | none; the `call_context` of the engagement | decide on one shipment's evidence, say what the agent is told | two readings of a shipment that moves on; tries that share an engagement, days apart | no call without grounds; reason, attempts and dates hang together |
| ShopDeck MCP sync (`shopdeck/sync/sync_shopdeck_mcp_data.py`) | ShopDeck's tables, `sync_checkpoints` | one unit: lock, window, write, checkpoint | changes that show late, failed and concurrent runs | nothing is missed, what is recognised is not there twice, nothing goes back |
| Catalog (`business_systems/catalog/service.py`, `schema.sql`, `validation.py`) | PostgreSQL: products, SKUs, reservations, price history, idempotency records | save, rename, transition | statements of concurrent transactions at READ COMMITTED; advisory locks on keys; records that expire | business keys have one owner; a key runs once; the price history is the price; READY means complete |
| Catalog publication (`business_systems/catalog/shopdeck_adapter.py`) | artifacts, and files beside the database | publish, clean up | death between file and commit, a lost answer of a commit, a cleanup with an old snapshot | PUBLISHED is backed by an artifact; an issued artifact has its file |
| Catalog intelligence (`src/intelligence_domains/catalog_intelligence`) | drafts and memories | understand a message, promote or drop proposed fields | concurrent chat turns on one draft; a model that invents | a value called reused is one that the record it cites has had |
| Conversations and suspended actions (`src/brain_core/orchestration/rabta_orchestrator.py`, `src/infrastructure/adapters/postgres_memory.py`, `catalog_cem_adapter.py`) | `core_suspended_actions` | suspend, confirm, reject, carry out | two confirmations, confirmation against rejection and expiry, an action of several requests | what is done was confirmed, once, in time |
| Brain orchestration (`src/brain_core/orchestration`, `context_engine/assembler.py`), inventory and customer-query intelligence, event bus | none between requests | plan, resolve, ask providers, extend up to three times | providers that fail or answer partly | an answer called sufficient rests on data for every requirement |
| AZM semantic store (`src/azm`) | runs, namespaces, concepts, aliases, relationships, views | ingest a contract, look a concept up | concurrent ingestions of the same keys, reads of two statements | only whole ingestions are seen |
| Normalization worker (`src/workers/brain_normalization_worker.py`) | `normalization_status`, results | claim, assemble, orchestrate, store | claim without lease | not modelled: `main.py` does not start it and its call of the orchestrator always raises |
| NDR reporting, OpenAI-compatible API, scripts, migrations, settings | none that is shared | conversion and reporting | — | not modelled |

How they interact:

    shipment_ndr_reports --sync--> ndr_queue <--claim/register/report-- poller --dispatch--> provider
                                       ^                                  |                     |
                                       |                                  v                     v
                          POST result / PATCH status            customer_engagements <-----  webhooks
                                       |                                                        |
                    writeback worker --+-- outbound_writeback_queue <---------------------------+
                    recording worker --+-- recording_fetch_queue    <---------------------------+

    ShopDeck's MCP server --sync units--> orders, shipments, shipment_ndr_reports, ... --evidence--> Brain

    chat --Rabta--> catalogue draft --suspended action, confirmed--> Catalog --publication--> artifact + file
              \--> evidence from providers            contracts (AZM) --ingestion--> semantic store --> Brain

`PROJECT.json` lists the hazards line by line under `hazards`, each with the properties that would
be violated if it went wrong.

## Modules

One step of a model is one statement on one database, one request or one answer: that is the grain
at which the code interleaves, since each repository call takes a connection of its own and MongoDB
runs standalone. Program counters (`at`) are where a handler, task or worker awaits.

**`ShopDeckQueue`** is the server side. `status`, `lease`, `claims` and `retries` are the columns of
`ndr_queue` (leases only as null, running or past); `engs`, `callSid` and `completed` the rows of
`ndr_engagements` and which of their columns are set (`blanked` is a ghost for a `completed_at` that a repeated
report has overwritten with null and not yet set again); `intel` the stored results; `rows` what the
courier last said; `req` the request each handler is serving, or its last positive answer. `Claim`
and `ClaimNothing` are the two outcomes of `claim_next_eligible` (one transaction, with
`FOR UPDATE SKIP LOCKED` as a free choice of locked rows); registration is five steps, a submission
four, a report of dispatch two, one of completion three, `POST /enroll` two. `ScheduledSync` is the last step of
the sync script, which raises before it does anything. `Abort` is any statement that raises.
It also stands for asyncpg refusing an argument (`dispatched_at="NOW()"`): the request ends where the
exception occurs. `ReportFailure` keeps the defect of `apply_failure` below its limits (see
[Disagreements](#disagreements)).

**`WritebackOutbox`** has the rows of `outbound_writeback_queue` (`row`, `attempts`, `token`, and
`ripe` for a date that is past), the worker tasks (`job`, `alive`), and ShopDeck as far as a submission
sees it (`stored`, and `late`, the requests nobody waits for any more). A worker's token is the worker
itself: `process_next` makes a token per claim, and a worker has one claim at a time. `MarkSuccessRaises`
is an update that was perhaps applied and raises, which the code handles as a failed POST.

**`DeliveryPromise`** is what the webhooks may rely on: an accepted result is settled once, and called
delivered only when ShopDeck has an answer for its engagement.

**`EngagementRecord`** holds the operations on one engagement that both providers and the poller share:
`TransitionState`, `ClaimWriteback`, `EnqueueWriteback`. An outcome's `DiagnosisOf` is what enters its
`result_id`.

**`ExotelCall`** EXTENDS it with one call: the dispatch with its two writes (`PersistCorrelation`,
`MarkDispatched`), and the webhooks (`session-start`, customer turns, transfer, `session-end`,
call-insights) as requests served step by step by concurrent handlers. A turn carries a decisive
answer or not (`Decides`): the classifier is a constant. Every operation may raise; Exotel delivers
any webhook at any time after the dispatch, again and again.

**`SarvamCall`** EXTENDS it with the completions of the calls that were placed under one engagement id
(the id is a hash of the item, so attempts share it), and the recording workers. Webhook and worker both report
`call_completed` to ShopDeck: `shop` is what its row has, written by the two statements of that handler, and
`reported` the completions of which a worker's report was carried out in both. `Silent` are the completions that
come without a status: they are reported with none, and the handler writes null. The recording itself
does not arrive, since ShopDeck's request schema has no field for it.

**`NDRPoller`** composes the poller with `ShopDeckQueue` itself: `Queue == INSTANCE ShopDeckQueue`, with
the tasks among its handlers. Each request of a task is the queue's own sequence of statements, a task
that times out leaves its request running, and the sync job, webhooks and leases go on around it.
`calls` counts the calls the provider placed.

**`NDRDecision`** opens what `NDRPoller` takes to be any decision: for one item, the two readings of the
shipment, the diagnosis, risk and strategy engines as operators, the context the agent is given, and the
engagement, which is created by the first try and reused by all others. The count of the first reading goes into
the reason of the call (`why`), that of the second (`Hydrate`) into the facts, and the dates are
reckoned from a clock read later (`Prepare`). The shipment's attempt count and its two statuses move on at any
time, and midnight passes between any two awaits; `counts` is a ghost for which counts were true on which day.

**`CatalogFamilies`** has the Catalog's three mutations, statement by statement: `Begin` with the advisory
lock and the idempotency record, the unlocked reads (`ReadProduct`, `CheckKeys`, `ReadFamily`, `ReadSku`), the
writes that wait for a row or a business key (`WriteProduct`, `WriteSku`) and what the triggers of
`schema.sql` refuse. What a transaction wrote is in its `txn` record until `Commit`; deadlocks are PostgreSQL's
(`AbortVictim`). A price is compared as the payload has it and stored as `Rounded` by its column. `Invented` are
entities that a client makes up: the service takes its word for them. **`CatalogPublication`** EXTENDS it with the four steps of a publication, the file system
(`files`), and the cleanup with its snapshot (`job[c].active`, `job[c].committed`).

**`ShopDeckSync`** is one synchronization unit of any of the three kinds (core table, event table, NDR proxy)
and the daemons that run it: the try-lock, the window from checkpoint less overlap to now, the query, the
write with the checkpoint in one transaction. A change at the source becomes visible up to `Delay` later.
`since` and `unheard` are ghosts for where the first window began and what an answer without rows hid. `Altered`
are the events whose hash is another when they are read back: JSON in PostgreSQL's spelling, a NUMERIC with its
scale, a time in UTC.

**`EvidencePipeline`** is one request of the Brain: a query with its planner, an NDR event, a question about the
inventory, or a customer's message. `todo`, `pending` and `items` are the requirements still to be resolved, the
providers still to be asked and the evidence; `Assess` is the gap and sufficiency judgement.

**`SemanticStore`** is the ingestion of AZM contracts with each of its inserts and updates, committed or rolled
back as a whole (`ingester[i].wrote`), and the provider's reads, of which a concept takes two.

**`CatalogDraft`** is `extract_understanding` of the catalogue's orchestrator: load the newest draft, retrieve
records, let the model propose, ask the Catalog, fetch the records that are cited and were not retrieved, apply
the provenance firewall to the copies, save. `evidence` is what the records say now, since
`record_approved_outcome` rewrites a record in place; `pastEvidence` is a ghost for all they ever said. **`RabtaConversation`** is
`process_query` with a memory provider: suspension, retrieval, atomic consumption, and the action in the
Catalog with its candidates for a sku_id. In both a model's answer is any of a set.

**`KeyRegistry`** is what the Catalog's reservations are for (once for product codes, once for sku_ids): a key
belongs to its first owner for good, and what an entity carries is its own. **`Consent`** is what the Brain
promises to its users: a request waits for one word of its own session, the word stands, and no more is
done than was granted. Neither knows of transactions, turns, races or clocks.

**`MC*`** modules give values to functions; `*_proofs` modules hold the theorems: `Systems_proofs` those of
`NDRDecision`, `SemanticStore`, `EvidencePipeline` and `ShopDeckSync`, `Brain_proofs` those of `RabtaConversation`
and `CatalogDraft`, each of the others those of the module it is named after. `MCSystems` and `MCBrain`
instantiate several parts that keep no state in common; a variable `part` chooses one of them at the start, so
that the sizes of the state spaces add up instead of multiplying.

Definitions called `X_Something` next to `X`, commented as faulty, are plausible bugs of `X`: each
property is known to fail when one of them takes the place of `X`. Definitions at the end of a module, under
"What the documentation says and the code does not do", are known to be violated: name one of them as the
INVARIANT or PROPERTY of a cfg to see how (see [Disagreements](#disagreements)).

## Runs

| Run | Instance | States | Question |
|---|---|---|---|
| `queue_one` | 1 item, 2 engagements, 2 results, 2 contents, 2 handlers, `MaxClaims` = `MaxRetries` = 2 | 1 449 000 | What may two concurrent requests of any kind do to an item? `StatusBackedByEvidence`, `ActionReadyHasResult`, `AckedResultIsStored`, `ClosedStaysClosed`, `RegisteredIsNotReclaimed` |
| `outbox_safe` | 2 results of one engagement, 2 workers, `MaxAttempts` = 2 | 195 000 | Who may change a row, and is DELIVERED true? `DeliveredIsAnswered`, `KeepsPromise` (implements `DeliveryPromise`) |
| `outbox_live` | 1 result, 2 workers, fair | 4 800 | Is every row settled? `KeepsPromiseInTime` |
| `exotel_call` | 6 webhooks, 2 contradicting turns, 2 handlers | 3 600 000 | Reordered and repeated webhooks beside the dispatch: `AckedEndIsEnqueued`, `NeverRegresses` |
| `exotel_live` | session-end and 1 turn, 2 handlers, fair | 29 000 | Does a recorded outcome reach the outbox? `DecidedIsEnqueued` |
| `sarvam_call` | 2 completions, one without a status, 2 handlers, 2 recording workers, 2 attempts | 3 525 000 | Does a completion leave what it acknowledged, and does ShopDeck keep it? `DeliveredWasReported`, `AckedCompletionIsEnqueued`, `OutcomeIsKept` |
| `poller_safe` | 1 item, 2 tasks and slots, 1 other request, 2 claims | 3 319 000 | How often is a customer called? `CallsAreClaimed`, `SlotsBalance`, `CalledIsNotReclaimed` |
| `poller_live` | 1 item, 1 task and slot, 3 claims, fair | 145 000 | Does the poller run out of slots, and is a customer called again after an attempt that repeated a registration? `SlotComesBack`, `CalledIsNotReclaimed` |
| `systems` | five parts, see below | 2 464 000 | Catalogue: `KeysAreKept` (implements `KeyRegistry` twice), `KeyRunsOnce`, `LedgerIsThePrice`, `ReadyIsComplete`, `NobodyIsStuck`; publication: `NoFalsePublished`, `IssuedKeepsItsFile`; sync: `NothingIsMissed`, `OneCopy`, `NeverBack`; decision: `CallHasGrounds`, `ToldHangsTogether`; evidence: `AnswersRestOnEvidence`; knowledge: `OnlyWholeIngestions` |
| `brain` | two parts, see below | 586 000 | Draft: `ReusedIsBacked`, `NoBareProposal`; conversation: `OneFamilyPerRequest`, `ExecutedWasConfirmed`, `KeepsConsent` (implements `Consent`) |
| `queue_failure_report` | 1 item | — | violation of `FailureReportIsApplied`, see [Disagreements](#disagreements) |
| `queue_two` | 2 attempts of one shipment, 1 handler, limits 1, fair | — | violation of `TerminalShipmentLeavesQueue`, see there |

The type invariants hold of the same instances; no run repeats them, since they are proved of most modules
and say nothing by themselves.

Every run checks deadlock except where a model really may stop. In `outbox_*` and `queue_*` somebody can
always go on (an item's lease, a repeated request), in the other runs every webhook may have been sent,
every claim used and every request answered, and `CHECK_DEADLOCK FALSE` says so.

**Bounds.** The limits are the code's own constants with small values: `MaxClaims` (default 5) and
`MaxRetries` (default 2) are 2 so that there is a first, a last and a retried attempt; `MaxAttempts` (8 for
deliveries and for recordings) is 2 for the same reason. The counters need no further bound: the code stops counting
at these limits; `retries`, which the code goes on to count, is kept up to `MaxRetries`, since it is only compared
with it. `poller_live` takes three claims: one attempt
to leave a registered engagement in a claimed item, one to call the customer, one to show that there is none.
In the poller's runs the courier says that an attempt is open or that it is final: what else it may say neither
enrolls nor terminates, and `queue_one` has it.
Two handlers (workers, tasks) are what a race takes; the racing operations are pairwise, a third
party being the steps of the environment. One item is enough where the state of items is independent;
`queue_two` has two because only termination relates items. Two results, completions or turns with
different diagnoses are one more than the code expects of an engagement. Symmetry is used for handlers,
workers, tasks, chat turns, ingesters, and for results or contents that no function tells apart, and never
with fairness.

The parts of `systems`:
- *catalogue*: three processes with one of nine requests each (a price change with a key, to a price the audit
  refuses and with a third decimal; a change of a sku_id that names the old price; an edit that makes a family incomplete; one that grows it; another family that claims the same codes and sku_ids in
  the opposite order; a rename; three transitions), on two products and three SKUs. Instead of a mutation `c1` may be
  a publication and `c2` a cleanup: three mutations race, or two with either, or one with both.
- *sync*: two daemons, two records, one of them without a resolvable key, four instants, two changes; overlap,
  delay, cadence and lookback are one instant each, so that a change can show at the very end of its delay; one record
  is not recognised when it is read back.
- *decision*: one item, attempt counts to 3, the third of which is refused, two days, two tries.
- *evidence*: two requirements a planner may propose, three capabilities of which one is certified, and the
  code's own three iterations.
- *store*: two ingesters, four contracts on two concepts: two versions of one namespace, one of another that
  takes a concept over, one that is broken; one reader.

The parts of `brain`: two chat turns on two evidence records of two families, which are rewritten meanwhile, with
answers that cite the wrong record, a value out of bounds, a value the record never had, or none; and three turns of two sessions about one suspended action with two
candidates for its sku_id.

**Fairness** is only assumed in the three live runs and `queue_two`.
- *`ShopDeckQueue!FairSpec`*: a request under way ends (a statement answers or raises), and the sync script gets to
  its last step, `ScheduledSync`, again and again: its daemon loops for ever. Nothing is assumed of
  `POST /enroll`, which nothing in the code calls. Under this fairness `TerminalShipmentLeavesQueue` is violated.
- *`WritebackOutbox!FairSpec`*: time passes; a stopped worker is started again (`lifespan`, process
  supervision); the worker polls for ever and claims in order of `next_attempt_at`, so a due row is claimed in
  the end; and a claim is not overtaken *every* time at the same point by its lease (300 s against a POST of
  at most 10 s), a crash or a MongoDB error: strong fairness of each step of a worker that holds its row.
- *`ExotelCall!FairSpec`*: Exotel repeats a `session-end` that was not answered with 200 (what the docstring
  of `_submit_pending_ndr_outcome` relies on), and not every repetition fails at the same operation.
- *`NDRPoller!FairSpec`*: the loop, the tasks and the requests they wait for go on, and a stopped process is
  started again. Neither calling hours nor webhooks are assumed to come.

## Proofs

For every value of the constants that satisfies the modules' assumptions, TLAPS proves the theorems listed in
`PROJECT.json`. None of them assumes a bound on handlers, items, webhooks, attempts or requests. Each argument
follows one pattern: an inductive invariant that says what an actor knows at its program counter, a lemma for each
action that keeps it, and the property as one of its conjuncts or a consequence.

**`ShopDeckQueue_proofs`.** Nine properties of the queue, five of them those of `queue_one`. The invariant `IInv` adds to `TypeOK` what a request knows at its program counter: that the engagement
of a report under way exists and has its call data (`engs` and `callSid` only grow; `completed` may be blanked by
another report of the same completion, but not together with `blanked`, so this knowledge is stable), that between its insert and `set_action_ready` a submission's result is stored with its content, and
that `reg_move` has its row. Evidence then follows status because each transition is made by a request that holds
the evidence, or from a status that had it. `ClosedStaysClosed` and `RegisteredIsNotReclaimed` are action
properties from the same invariant: the only step that writes a closed row is `set_action_ready`, and it writes a
closed status; the only step that makes an item claimed finds it eligible, retryable or under an expired claim.

**`NDRPoller_proofs`.** That the poller with its surroundings implements the queue (`QueueImplemented`: each step is a
step of `ShopDeckQueue!Next` or leaves the queue alone), so that the queue's theorems hold under this client too:
`EvidenceUnderPoller` and `QueueHoldsUnderPoller` carry over the properties of `queue_one` and two more. `SlotsBalance` comes from a sum that every step leaves: free slots, tasks at
work and the slot of the loop make `Slots` until `stop()` cancels the loop. `CallsAreClaimed` is an account per item:
its calls, the tasks between claim and dispatch and the item in the loop's hand are together at most its claims
(`Covered`). That also gives `CalledIsNotReclaimed`, with `Standing`: an item with a call, or a task past its dispatch,
has a status from which no claim takes it. `QueueAssumption` repeats the queue's assumptions on the constants,
which an INSTANCE does not bring along.

**`WritebackOutbox_proofs`.** `TypeOK`, `DeliveredIsAnswered`, `HeldCountIsCurrent`, `FinalRowsAreFenced` and
`KeepsPromise`. The invariant states, for each row and holder, that the count the holder read is current, that
an answer `ok` or `has_result` a worker carries is true of ShopDeck, that a row with a token is in processing,
settled by that token, or in doubt for exactly that worker, and that a late request is about an accepted row.
The refinement maps each step to a step of `DeliveryPromise` or a stutter.

**`ExotelCall_proofs`.** `TypeOK` (with it: a call is queued for normalization exactly when its state is
final), `AckedEndIsEnqueued`, `NeverRegresses` and `ClaimIsFinal`. The invariant says what a handler past
`read` has seen and what an answered one has enqueued; rows of the outbox are never removed.

**`SarvamCall_proofs`.** All four properties of `sarvam_call`, for any number of completions, handlers,
recording workers and attempts. The invariant needs three things the properties do not say: a request on the
way to the outbox has a decided outcome; every job is about the one row there is, and its count is the row's
while the row carries its token (so no attempt limit is passed when leases overlap); and a settled job has been
reported, which is what makes DELIVERED true whoever writes it. A worker has only what the row kept, so that
only a completion without a status takes an outcome away. The lemmas on
the record's shared operations open both proofs.

**`Systems_proofs`** has four parts.
- *The decision*: `DecisionTypeOK`, `CallHasGrounds` and `ToldHangsTogether`, for every schedule of windows, number of
  days and tries. The invariant carries what the first reading showed to the call (a decision to engage was taken on
  an open shipment below the third attempt, or on none), and says of a context and the engagement that keeps it
  that its count was true on the day of the second reading, that the day its dates are reckoned from is not before
  that, and that the reason names no more attempts than the count, since a shipment's attempts only grow.
- *The semantic store*: `StoreTypeOK` and `OnlyWholeIngestions`, for any contracts and number of ingesters. An open
  run has written every row it has passed, but for a namespace that was already there; its commit therefore makes
  it the last run of each of its concepts and leaves their definitions to it. Aliases and relationships only grow, so
  that a reader between its two statements still finds those of the definition it has.
- *The evidence*: `EvidenceTypeOK` and `AnswersRestOnEvidence`, for any requirements, capabilities and failures. Each
  requirement that was asked is accounted for at every moment (`Accounted`): it is still to be resolved, a provider's
  answer to it is pending, or an item says what came of it. When the package is judged there is nothing left to do
  (`Settled`), so a sufficient one has data for each of them; only such a package reaches the answer and the
  memory (`Guarded`).
- *The sync*: `SyncTypeOK`, `NothingIsMissed`, `OneCopy` and the action property `NeverBack`, for any number of
  daemons, records and changes. The invariant needs the assumption that a change shows at the source before the
  overlap has passed (`Delay <= Overlap`): a change below the checkpoint less the overlap was visible when
  the last window was fetched. Of a run it says (`SyncRunOK`) that what it has fetched and the chunks still to come
  cover what its window owes, and are nothing older than the table has; that a window cannot go back rests on
  the lock, held from the reading of the checkpoint to the commit (`LockOK`).

**`Brain_proofs`** has two.
- *The conversation*: `ConvTypeOK`, `OneFamilyPerRequest`, `ExecutedWasConfirmed` and `RejectedIsNeverDone`, for any
  number of turns, sessions, actions and candidates. The invariant says that a nonce is consumed by at most one turn,
  that only this turn is past its consumption, and that it has not saved a family before it is past saving. Expiry
  and rejection take the same atomic update.
- *Consent*: `KeepsConsentCorrect`, that each step of the conversation is a step of `Consent` or a stutter. The
  invariant grows by what the abstract guards ask for: a rejection that took effect came from the session that
  owns the request and in time (`OwnRejections`), and a turn that publishes has saved its family and was asked to
  publish (`SavedBefore`). The proof goes in two stages: what a step does to requests is one of six
  kinds of changes or none (`Kinds`), and each kind is a step of `Consent` or a stutter. The mapping gives a request the word `usurped`
  if another session ever decided it; no step of `Consent` says that, so the refinement includes that none does.
- *The draft*: `DraftTypeOK`, `ReusedIsBacked` and `NoBareProposal`. A copy that a turn holds is something its record
  has said; a stored draft's reused values are founded in such a copy, of a family the Catalog had (`Founded`), and what was only proposed is cleared (`Cleared`); of a turn under way the
  invariant says how far the firewall has come with what it will save (`TurnOK`).

**`CatalogPublication_proofs`.** All safety properties of the catalogue, of `NobodyIsStuck` its first half, for any
families, requests, processes, publishers and cleaners, as long as no request makes up an entity: each theorem reads
`NothingInvented => ...`. The clients in the repository make up none (`catalog_translator.py:34` sends no
`sku_internal_id`, the tests send those of earlier answers); the run has a request that does, and
its properties hold there too, `LedgerIsThePrice` for all other SKUs.
- The invariant `FamilyInv` says of each transaction how far it is in its payload (`Shape`), that what it found is of
  its family (`FoundOK`), what it has written so far (`WrittenOK`) and that the history it will append ends in the
  price it will write; of two transactions that no lock or uncommitted reservation is held by both (`Exclusive`); and
  that each row's key is reserved for it (`Reserved`). Keys stay owned because a commit adds only keys that were free
  or its own when it wrote them, and which nobody else can have taken since; the history is right because who
  compares prices holds the product. `EntityAssumption` says that what `uuid4()` returns is like nothing else;
  `NothingInvented` is needed because two families that make up one id write its row without a common lock (see
  [Disagreements](#disagreements)).
- `ReservationsAreForGood` is the refinement of `KeyRegistry`. A reservation changes only at a commit, which
  adds keys; so what is to be shown of the commit is that a row that carries another key than before
  carries one that was reserved for it in this or an earlier transaction. `KeyAssumption` keeps None from being a
  key. `SkusStayInTheirFamily` is an action property from the same invariant: what a transaction found by a sku_id or by its
  entity is of its own family when it writes it (`FoundOK`).
- `SomebodyGoesOn`, the part of `NobodyIsStuck` that is free of ENABLED, needs of `FamilyInv` only where a transaction
  has written something. Who waits for a key's advisory lock holds nothing, who waits for a product's row or a code
  has written nothing; so if everybody waits, all writers wait for each other's sku_ids, and a smallest set of
  them in which everybody waits (`WaitersDeadlock`) is a cycle, one of which PostgreSQL aborts.
- `PubInv` adds what each publication and cleanup is at (`JobOK`): a publication that may commit has its file,
  unless a cleanup with an old snapshot took it.
- `ReadyInv` adds what `ReadyIsComplete` rests on. Nothing is locked between the read a request decides on and its
  write, so the invariant says of every request whose family is not in `raced` that its decision is still true of the
  stored rows (`CurrentOK`, with `Covers` for the gate of the rows merged with the payload); that a row it has
  written carries both the image that was stored and the one of the payload (`ImagesOK`); and that a
  family a publication has read is not a draft by now (`ExportOK`). `StoredGate` and `MergedGate` tie `Covers` to
  the gate as the code asks it, sku_id by sku_id, where `Reserved` makes a sku_id stand for one row; `CommitCovers` is
  the heart: the rows a commit leaves alone are none an image of its payload stood for, and those it writes carry
  the images both bring. `Undisturbed` is why a race is the only exception. `StartAssumption` says that what is
  READY at the start has passed the gate: the program itself writes no other such rows.

The type properties, `KeysAreOwned`, `SkusStay`, `RejectedIsNeverDone`, `HeldCountIsCurrent`, `FinalRowsAreFenced`, `OneResultPerEngagement`,
`AckedRegistrationIsStored`, `SpentRetriesAreClosed` and `ClaimIsFinal` are proved and part of no run.

Only model-checked: the catalogue with entities that a client made up, the liveness properties `KeepsPromiseInTime`, `DecidedIsEnqueued`
and `SlotComesBack` (temporal reasoning under fairness is out of the prover's reach), and the second half of `NobodyIsStuck`, that a
request of which `GoesOn` holds has a step (ENABLED). Recursive definitions are kept out of the modules with theorems; what a fold or a recursive function
computes for every input is not proved but checked on the instances.

## Disagreements

Two runs are expected to violate what the code's own documentation says:
- `queue_failure_report`: below both limits `apply_failure` reads `new_status` before it is assigned. The
  report answers 500 and is rolled back, whereas docstring and test say `failed_retryable`.
- `queue_two`: the last step of `run_orchestrator` reads its limits from `_os` (`sync_shopdeck_mcp_data.py:505`),
  which the script does not define. The NameError is caught and logged, so that nothing is ever enrolled or
  terminated by it, though the comment at 502 says it runs after each sync; a delivered or returned shipment stays in
  the queue. `POST /enroll`, for tests, has the two calls and would do it.

Stated in a module, and violated (no run checks them):

| Definition | What is said | What the code does |
|---|---|---|
| `ShopDeckQueue!AckedResultClosesItem` | `docs/ndr-intelligence/outbound-writeback-queue.md:27`, `routers/ndr_queue.py:270`: a result moves its item to `action_ready` | the result is stored, `set_action_ready` does not happen, and the retry is answered as a duplicate |
| `ShopDeckQueue!CompletedIsStamped` | `routers/ndr_queue.py:138`: `completed_at` will be set by the update below | a repeated report of a completion overwrites it with null first, and may end there: the item is completed and its engagement has no `completed_at` |
| `SarvamCall!DeliveredIsRecorded` | `recording_fetch_worker.py:22-33`: a late report has still durably written `recording_url` | `QueueStatusUpdateRequest` (`schemas/ndr_queue.py:38-46`) has no such field; the recording is dropped and its row marked DELIVERED |
| `NDRPoller!CallsWithinHours` | `ndr_queue_poller.py:83`: no calls outside calling hours | the hours are checked before the wait for a slot and not again |
| `NDRDecision!NoThirdAttemptCall` | `ccc_contracts.py:80`: the third and later attempts never dispatch a call | the count is read once and goes on while the call is prepared; from the fourth attempt on, and without evidence, defaults apply |
| `NDRDecision!ReasonNamesTheAttempts` | `docs/09-decisions/GATE3-PASS-MASTER.md`: the reason of the call names the failed attempts there were | it is the count of the first reading, or 1 without one, beside `past_delivery_attempts` of the second: the agent may be told of two and of three attempts at once |
| `NDRDecision!OfferedDatesAreAhead` | `config.py:21`: the window is days ahead of now | a retry days later uses the dates of the first try's engagement |
| `CatalogPublication!PublishedIsCurrent` | `04-catalog-contracts.md`: PUBLISHED is the issued state | a save that commits while a publication runs is overwritten with PUBLISHED |
| `ShopDeckSync!OneCopyOfEach` | `docs/SHOPDECK-master-documentation.md:87`: atomic UPSERT | rows whose `sku_id` stays null are not found by the DELETE ... USING join and gain a copy per overlapping window |
| `ShopDeckSync!EventsAreNew` | the log of `process_event_sync_unit` counts "new records" | an event whose values are read back in another form is not recognised and gains a copy per overlapping window |
| `CatalogDraft!ReusedIsOnRecord` | `_evaluate_provenance_promotion`: a reused value is the exact historical value | a record is rewritten in place under its id, after the value was promoted or between its retrieval and the judgement |
| `CatalogDraft!ReusedFitsTheFamily` | `_evaluate_provenance_promotion`, scenarios B and D | a field promoted earlier stays promoted when the product code changes |
| `CatalogDraft!ShowsOwnIntent` | the reply is about the user's message | turns share the operation read last |

**Queue, calls and writeback.** Met while modelling, kept in the models without a property of their own:
- Items in `engagement_registered` whose Brain died wait for ever (`repositories/ndr_queue.py:126`); the claim
  that finds nothing closes last-attempt items under a live lease (161); `transition_status` and
  `apply_failure` do not ask who holds the claim (189).
- A worker's attempts that end in a crash are not counted (`outbound_writeback_worker.py:41`).
- The recording job of a second call under one engagement id re-sends the first outcome
  (`repository.py:461`), which so replaces a later one at ShopDeck; a completion without a status nulls the outcome
  that is there (`sarvam_webhooks.py:157`); two completions with different outcomes put two results into the outbox
  (`reply_parser.py:349`).
- A repaired `apply_failure` would open another door. A call that was placed but whose report failed
  is reported `failed_retryable`; today that report answers 500 and the item stays registered. Once it
  succeeds the item can be claimed and the customer called again. `CalledIsNotReclaimed` (`poller_safe`)
  states what holds now and would catch it.
- Two engagements of an item can be registered at once (checks and insert are separate transactions).
- A second, different result of an engagement is marked DELIVERED although ShopDeck kept the first; who wins
  is a matter of delivery order, and not of who won the claim on the engagement.
- Turns are recorded in the order their handlers finish, and a turn recorded after `session-end` has read
  the pending outcome is not submitted.
- `stop()` of a worker or a poller abandons whatever is under way; the lease brings it back.
- Events without an `EventId` of one provider collide in the sparse unique index, and orphaned events are
  linked only if they are logged before the session-start is handled.
- A decision not to call is reported with a status ShopDeck refuses (`intelligence_no_action` from `claimed`), and
  thus as a failed attempt that is retried.

**Decision.** `event_bus/receiver.py:101` and `brain_normalization_worker.py:146` unpack three values from a
`DispatchDecision` and always raise; sentiment is never mapped; a `courier_partner` of None is a ValidationError;
the strategy engine never yields NO_ACTION.

**Catalogue.** A READY family whose selling price equals its MRP blocks the whole export (saving allows it, the
audit rejects it). The cleanup acts on an old snapshot and its UPDATE does not recheck; a publisher whose commit
answer is lost removes the file of its COMMITTED artifact: the two exceptions of `IssuedKeepsItsFile`. Only tests
call the two cleanups. A save writes attributes from an unlocked read, so two saves of one family lose one of
them; `ReadyIsComplete` excepts families on which two requests overlapped, because such a race does break it.
A save that names a `sku_internal_id` of no row inserts the SKU
under it (`service.py:268`, an unlocked check): two families that invent one id at once both pass, and the second can
then find the first one's SKU and update it as its own, without the lock of its product. The price of a payload
is compared before the column rounds it (`service.py:606`): saving 100.005 again adds an entry from 100.01 to 100.01 to
the price history each time (`NoChange`). Media slots 0 and 1 are not deduplicated, and prices below a cent round to 0 and violate a CHECK.

**Sync.** An answer without `rows` moves the checkpoint over what it hid; two rows with one key in a batch violate
the unique index and fail the unit for ever; report fetches reach back 90 days only; identical genuine events
collapse; the Brain's webhook is posted before the commit.

**Conversations.** `main.py:262` builds `RabtaOrchestrator` without a memory provider, and `openai_api` passes no
session: in production actions are carried out unconfirmed, against `docs/ag_chat_catalog_log.md:18457` and
`test_mutative_action_is_suspended_and_not_executed`. `RabtaConversation` models the orchestrator with a memory,
as the tests build it. A confirmed action is carried out in the module of the confirming turn; the catalogue's
orchestrator never reads a CONFIRMATION; an action that fails half-way leaves a saved DRAFT; its requests carry
no idempotency key.

**Draft.** Selling and cost price are cleared unconditionally, whereas a docstring says what a user provided is
never touched; `is_confirmed` is always reset, so that no ACTION is emitted; SABAQ is not wired in `main.py`.

**Evidence.** Gaps are recomputed over all items, so that an extension can never turn INSUFFICIENT into
SUFFICIENT; an empty plan is SUFFICIENT without evidence; the resolver sets no core identities, so that an NDR
event asks the inventory's capabilities too; conditions of type TEMPORAL are supported by no capability; the
inventory's `extract_understanding` drops all entities, so a question that needs a sku is always refused, and its
action branch uses undefined names; a SUCCESS without provenance is a ValidationError that ends the request.

**Semantic store.** `is_already_ingested` looks for any completed run of the hash, so that ingesting A, B, A leaves
B; what a new version drops stays ACTIVE; `fail_ingestion_run` updates a row the rollback removed, so no failure
is recorded; an external mapping to a concept that is not there yet is left out for good; two namespaces can take
a key from each other.

## Not modelled

The classification of sentences, vocabulary maps, payloads and templates are constants or left out: no
property depends on more than which of two outcomes differ. Also left out: the M2M token cache (a request
fails or not), `setup_indexes` failing at start-up (the unique indexes are assumed), `process_next_item` (the
single-shot path of scripts), and the read endpoints of ShopDeck. The Brain is taken to send `call_sid` and
`engagement_id` with its reports, as `ndr_queue_poller.py` does. `SarvamCall` takes `queue_item_id` and `awb_no` of
the engagement as known, which holds of engagements the poller prepares, and leaves out the event log, which no
decision of that webhook reads.

- *Catalogue*: exports of chosen products, `resolve_sku`, the detail of error texts.
- *NDR decision*: the communication engine of the older push path.
- *Conversations and drafts*: the vector stores (pure I/O), the fallback by patterns when there is no language
  model, the interpretation of evidence for the reply.
- *Evidence*: formulas, prompts and sentences, the mocked mutation of the inventory's adapter,
  `RequirementClassifier`. No production code calls `BrainOrchestrator.handle_query`; tests do.
- *Semantic store*: the reads of views and attributes, the details of provenance, the parser of contracts, SQLite
  (tests only). `azm_seed_catalog.py` imports a module that does not exist.
- *Normalization worker*: `main.py` does not start it, and its call of the orchestrator always raises; a model
  would have one behaviour.
- *NDR reporting, OpenAI-compatible API, scripts, migrations, settings*: conversion, reporting and tooling, without
  state of their own that a concurrent actor could disturb.

The bounds of the two composite runs leave out two mutations beside both a publication and a cleanup, and three
concurrent ingestions.

## Plan

Done: `ShopDeckQueue`, `WritebackOutbox` with `DeliveryPromise`, `EngagementRecord` with
`ExotelCall` and `SarvamCall` and `NDRPoller` over the queue; then the decision, the catalogue with its
publication, the sync, the conversation, the draft, the evidence and the semantic store; then `KeyRegistry`
and `Consent` above the catalogue and the conversation, and all of the queue's safety carried over to the poller.

What is left: the normalization worker, once it is started and its call repaired.
