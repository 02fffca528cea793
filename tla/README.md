# Formal model of the ERP assistant's governed pipeline

The repository builds knowledge about an ERP by crawling its user interface, lets people
review it, publishes it version by version from PostgreSQL, projects it to Neo4j and ChromaDB,
and answers questions from it. Its README states the rule that everything else follows:
PostgreSQL is the authority, Neo4j and ChromaDB are projections that can be rebuilt, and nothing
becomes knowledge without a human decision. This directory holds TLA+ models of the parts in
which that rule depends on the order of concurrent steps, TLC runs that check them on small
instances, and machine-checked proofs.

Source paths below are relative to `src/erp_assistant/` of the repository unless they start with
`tests/` or `scripts/`.

## Inventory

| Component | State | Operations | Hard behaviour | Correct means |
|---|---|---|---|---|
| Pipeline jobs (`orchestration/pipeline`, `api/routes/pipeline_jobs.py`, `api/app.py`) | rows of `pipeline_jobs`; in-memory queue, one daemon thread | create, submit, start, checkpoint, succeed, fail, cancel, recover, shut down | crash between commit and submit, lost transactions, restart, concurrent requests | every active row has an owner, one executor at a time, rows end once |
| Structural review (`knowledge_review_service.py`, `structural_review.py`, `structural_publication_review_service.py`) | status, revision and history of items | approve, reject, correct, reset, approve a package | reads before the lock, invalidation of projections | no review overwrites another, a published change sends the projections back to PENDING |
| Promotion (`knowledge_promotion_service.py`, `version_diff_service.py`) | status of versions, promotion records | assess, promote (bootstrap and replacement) | two promotions, base replaced meanwhile, reviews during the gate | one ACTIVE version, a chain of replacements |
| Import (`canonical_import_service.py`, `executors/canonical_import.py`, a script) | versions and items | staging import, import that activates, carry-forward of reviews | base replaced meanwhile | reviews of unchanged items are kept |
| Structural projections (`projections/`, `executors/*_sync.py`, scripts) | `sync_jobs`; nodes in Neo4j, entries in ChromaDB | prepare, run, replace, delete the predecessor | several calls outside the transaction, failures half way, stale version | SUCCEEDED means the store equals the published items |
| Provenance of a candidate (`executors/canonical_*.py`, `structural/canonical/merge.py`, `validator.py`) | job rows, documents, versions | build, merge, import, reconcile, reimport | base replaced meanwhile, crash between a commit and the success of its job, skipped duplicates | a version has one origin, its content is valid, only the scope of a partial crawl changes |
| Removal reconciliation (`removal_reconciliation_*`, `canonical_reconciliation_service.py`) | review sets, decisions | prepare, confirm, retain, reset, consume | decisions changed while a reconciliation runs | no published item disappears without a decision on it |
| Semantic proposals (`semantic/services`, `executors/semantic_*.py`) | proposals, review actions, documents in ChromaDB | infer, reuse, carry forward, review, project, authorize | model call between two transactions, reviews and promotions meanwhile, stale reads | an answer uses decided words on evidence that is reviewed now |
| Retrieval and answers (`retrieval/`) | none | resolve, search, fuse, expand, revalidate, select, decide | stale indexes and graph, reviews during a turn, ambiguous names | nothing unapproved reaches an answer, and ambiguity is asked |
| Conversation state (`conversation_store.py`, `conversation_context.py`) | bounded map with expiry | load, turn, save, clear | eviction, version promoted between turns, context that no longer fits | what a turn inherits was shown to this conversation |
| Acquisition (`acquisition/`) | two frontiers, registry of states, state flow graph | visit, click, restore, register, certify | failures, expiry of the session, states rediscovered, bounds, fixed point | a certified crawl missed nothing, a module crawl stays inside |
| Canonical build (`structural/canonical/builder.py`) | none | attribute states, parts and menus to screens | shared states, menus opened late | what was observed is kept where it was observed |
| Semantic generation, admin UI, experiments, persistence | documents | prompts, validators, views | none that is concurrent | text processing and views, see "Not modelled" |

How they interact: the API accepts a request, writes a row and hands its id to the in-memory
dispatcher; the worker runs an executor that opens its own transactions. Imports, reviews,
promotions and synchronisations meet only in PostgreSQL, through `SELECT ... FOR UPDATE` and the
partial unique index `uq_knowledge_versions_one_active`; the command-line scripts use the same
services from other processes. Synchronisations write Neo4j and ChromaDB inside an open
transaction that does not cover them. Retrieval reads the projections and asks PostgreSQL again.
A crawl ends in artifacts; a build job turns them into a canonical document, a merge job puts the
document of a partial crawl into the ACTIVE content, an import job stores it as a version; a person
decides on what it would remove, a reconciliation job applies the decisions, a second import stores
the result and the promotion gate follows that chain back. Semantic proposals hang on the version
and are carried to the next one while their evidence says the same.

`PROJECT.json` lists, under "hazards", every place found where this can go wrong in a way a unit
test would hardly reach, with the line and the property that covers it or the reason none does.

## Modules

| Module | Stands for |
|---|---|
| `JobLifecycle` | abstract: what the console is promised about a job |
| `PipelineJobs` | rows, HTTP requests, queue, worker, recovery, restarts |
| `PipelineJobsProofs` | inductive invariant, safety theorems, refinement of `JobLifecycle` |
| `MCPipelineJobs` | instances of `PipelineJobs` |
| `VersionHistory` | abstract: versions are published one at a time and never come back |
| `KnowledgeGovernance` | imports, reviews, promotions and synchronisations over shared rows |
| `KnowledgeGovernanceProofs` | inductive invariant, safety theorems, refinement of `VersionHistory` |
| `MCKnowledgeGovernance` | instances of `KnowledgeGovernance` |
| `CanonicalContent` | the content of a version: validity, scope of a partial crawl, merge, reconciliation |
| `PublishedKnowledge` | abstract: a published item disappears only after a person confirmed it against that publication |
| `CandidatePipeline` | build, merge, import, removal review, reconciliation, reimport, provenance gate |
| `CandidatePipelineProofs` | inductive invariant, type correctness and five safety theorems, refinement of `PublishedKnowledge` |
| `MCCandidatePipeline` | its instance |
| `SemanticEvidence` | the evidence package of a screen, eligibility, acceptance of a draft |
| `SemanticLifecycle` | inference, carry-forward, review, synchronisation and authorization of proposals |
| `SemanticLifecycleProofs` | inductive invariant, five safety theorems, the chain of carry-forwards |
| `MCSemanticLifecycle` | its instance |
| `Sublists` | what a loop with a condition keeps of a list, for models that are proved about |
| `SublistTheorems` | its elements, its order and its unfolding, used by the modules of proofs below |
| `RankedEvidence` | entity resolution, rank fusion, graph expansion, selection of evidence, decision |
| `ChatTurns` | the turns of conversations over changing knowledge |
| `ChatTurnsProofs` | inductive invariant, four safety theorems |
| `ChatContextProofs` | the structure of parents, walks inside a screen, the theorem about context |
| `MCChatTurns` | its instance |
| `CrawlExploration` | the crawler: frontiers, registry, restores, scopes, quality gate |
| `CrawlExplorationProofs` | inductive invariant, six safety theorems, the last about `CanonicalBuild` |
| `CanonicalBuild` | what the builder makes of the artifacts of a crawl |
| `MCCrawlExploration` | their instance |

`CanonicalContent` is extended by `CandidatePipeline`, `SemanticEvidence` by `SemanticLifecycle`,
`RankedEvidence` by `ChatTurns`, `CrawlExploration` by `CanonicalBuild`, and `Sublists` by `RankedEvidence`
and `CrawlExploration`. The models meet in the
values they hand on: the certified contents of `CrawlExploration` are the `Observe` of
`CandidatePipeline`, whose provenance conditions are what the gate of `KnowledgeGovernance` takes
for granted, and the reviewed items of `KnowledgeGovernance` are the `knowledge` of
`SemanticLifecycle` and the `know` of `ChatTurns`. They are not composed into one state space,
because each takes the others' interface as any sequence of reviews and promotions, which is more
than the other module allows.

### PipelineJobs

`status` and `progress` are columns of `pipeline_jobs` and survive a crash; `request` (one thread
of the server per HTTP request), `queue` (`dispatcher._queue`), `worker` (the daemon thread, its
program counter and job) and `api` (the process) do not. An action is one transaction or one step
of a thread between two. `CheckRequest` and `CommitRequest` are the unlocked search and the
insertion of `_queue_active_projection_job`; `SubmitRequest` is what follows the commit.
`StartJob`, `SkipJob`, `ReadForProgress`/`WriteProgress`, `SucceedJob`/`RefuseSuccess`,
`ReadForFailure`/`WriteFailure` are the transactions of the runner; the executors themselves are
reduced to the checkpoints they report and to returning or raising. `LoseTransaction` is the
database refusing the transaction that starts or closes a job, which `_fail` and `_consume`
swallow. `RecoverOrphanedJobs` and `RecoveryFails` are the two ways `lifespan` can start.
`abandoned` is an observation: the rows that the code itself gives up when a transaction is
refused. Without it the properties would be false for a reason the code accepts; with it they say
that nothing else loses a row. The operators called "Variant" or "Mutant" in the modules are defective
versions of the action after them; the specifications do not use them, and they serve to
check that the properties would notice such a defect.

### KnowledgeGovernance

An operation is a transaction of several steps, so that others may come in between. `holds[p]`
are the row locks of session `p`, released at commit or rollback; a step that takes a lock waits
until no other session has the row. What was read before is in the record of the session
(`review[r].seen`, `promo[p].active`, `run[s].plan`).

One fact about SQLAlchemy decides much of this module. A session keeps one object per row, and a
query that returns a row already loaded returns that object with the values it had, `FOR UPDATE`
included, unless `populate_existing` is asked for; the code never asks. So

- the HTTP review route loads the item, and the locked read of `KnowledgeReviewService._locked`
  compares the expected revision with that older object (`BeginApiReview`, `LockItem`), while the
  script's first read of the item is the locked one (`BeginCliReview`);
- the executor loads the version and keeps it in a local variable, so the status that
  `Neo4jSyncService.run` tests after locking is the older one (`ReadActive`, `LockVersion`), while
  the script's first read is locked (`BeginCliSync`);
- `approve_pending` uses `Session.get(..., with_for_update=...)`, which does refresh
  (`BeginPackage`).

`promote` looks the ACTIVE version up with `FOR UPDATE`: PostgreSQL finds the row in the
statement's snapshot and tests it again once locked (`FindActive`, `LockActive`). The gate
(`PassGate`) reads the items without locking them. `CommitPromotion` is the archive, the
activation, the promotion record and the new SyncJobs; the unique index is its guard on
`Actives`. A candidate is the reconciled snapshot together with the raw one it comes from;
`base[v]` is the version it was reconciled against, and `None` for a full build.

A synchronisation locks the version and the SyncJob, reads the publishable items, then writes the
store in batches (`ClearVersion`, `Upsert`), removes what left the plan (`Prune`, ChromaDB only:
Neo4j is only upserted), removes the predecessor recorded by the promotion (`DropPrevious`) and
commits. An entry of a store is the payload it was last written with and, in `left`, the properties that only
older payloads gave: `projected_payload_properties` leaves out what a payload does not have (`Gives`) and
`SET n += row.properties` touches nothing it is not given, so `MergedInto` keeps what the node had, while a
ChromaDB document and a node written after `replace_version` are `New`. `merged` has the projections whose last
complete upsert merged; for these alone `ProjectionFresh` allows remains beside the reviewed payloads (`Shows`).
ChromaDB has no document for an item without a safe label (`Unlabelled`, `Planned`); the worker refuses to project
a graph of no items, the script may be told to (`--allow-empty`). `StoreFails` records FAILED; `LoseRun` is a transaction that rolls back after the store
was written; `RestartApi` does that to every session of the API process at once. The SyncJob is
never stored as RUNNING, because `run()` only flushes that status inside its transaction
(`TypeOK` says so and the run confirms it).

Four variables are observations that only properties read: `blind` (versions changed by a review
that read their status before the promotion and so did not invalidate), `late` (versions written to
a store when no longer ACTIVE), `torn` (stores written by a run that did not commit) and `merged` (graphs
upserted since they were last replaced). Each names a weakness of the code; the properties say that there is
no other.

### CandidatePipeline

A version is its status and the job whose document it holds; a content is a function from the items
a document has to what they say (`CanonicalContent`: owner, target, trigger, title). `job` is the
table of pipeline jobs, worked off in order by the one worker (`Current`); an executor commits its
own transaction (`Commit`: status "done") and the runner marks the job SUCCEEDED in the next one
(`Succeed`), so `Restart` can fall between them. `QueueBuild` to `QueueReimport` are the routes with
their checks of ACTIVE; `RunBuild` to `RunReimport` are the executors, which repeat the pins
(`PinsHold`) and fail otherwise. `Import` is `import_canonical`: a content stored already is skipped
and reports no version of its own. `Prepare`, `LockDecision` and `CommitDecision` are the removal
review, locked and committed in two steps; `RunReconcile` waits for the decision rows.
`PromoteBootstrap` and `PromoteReplacement` are the gate's two views of provenance. The first takes the
last successful import that names the version, whether it stored it or skipped its content
(`NamedByCanonical`); the second asks for the one import that stored it (`Governed`), its reconciliation,
and the count of removals against the confirmed ones. `overtaken` and `orphaned` are observations of two weaknesses: a decision changed between the
commit and the success of its reconciliation, and a version whose import committed but did not
succeed. `confirmed` is the history `PublishedKnowledge` needs.

### SemanticEvidence and SemanticLifecycle

`Package` is `screen_evidence_builder`: the reviewed items of a screen by kind, with corrections in
force, cut to a limit, without unsafe labels; `Eligible` and the acceptance of a draft are the
eligibility policy and the claim validators, as far as they refer to items. A hash is the value it is
computed from. An inference job plans in one transaction (`PlanInference`: reuse, carry forward,
reinference, blocked), calls the model outside any (`Answer`) and persists in another that repeats the
checks (`Persist`). A semantic review reads the proposal, then locks it and gets the object it had
read (`overlapped` remembers proposals two requests reviewed at once). A synchronisation prepares the
documents, checks again, upserts and deletes what is left over (`PrepareSync`, `CheckSync`, `Upsert`,
`Clean`). `Authorized` is `semantic_retrieval_authorization_service`: the documents of the collection
that PostgreSQL agrees with at query time. Structural reviews, promotions and restarts come at any
step.

### RankedEvidence and ChatTurns

`RankedEvidence` is pure: from what a question says of each label (the resolver's scores) to the
entities, the channels, the fused order, the expansion of the graph, the evidence selected and the
kind of answer. `ChatTurns` is the endpoint as steps: `Ask` loads the conversation, `UseRoute` turns the
route hint into context, `Understand` reads the ACTIVE version and decides direct, contextual or
clarification, `Narrow` resolves within the limits of the resolver (`Fetched`: 48 rows by the imported label and 1000
corrected ones; `Resolve`: the 12 best candidates; the constants `MaxRows`, `MaxCorrected` and `MaxCandidates`), `Search` takes any hits the vector index may give, expands and
revalidates, `Answer` decides, `Write` is the language model, `Deliver` saves the conversation; `Fail` is
an exception anywhere. The endpoint is a coroutine without a single `await`, so turns of one process never
overlap and its striped locks never contend; reviews, promotions and projections come from other threads
and processes and do interleave (`Review`, `Promote`, `Project`), and entries expire (`Expire`).
`known`, `since` and `turn.seen` are histories.

### CrawlExploration and CanonicalBuild

An application says which page a route opens and where each event leads; the crawler is one thread and
`phase` its program counter. `queue`/`visited` are the route frontier, `pending`/`explored` the state
frontier, `path` the trajectory the registry keeps for a page (replaced when a shorter one is found),
`flow` the state flow graph, `explorations` what the events of each page explored gave, with the trajectory
and the scope they were tried under. `entered` are the pages shown while the menus of `EntryPath` are pressed
to enter a module; the path is never empty, because `ModuleCrawlBoundary.from_payload` refuses one. The data of
an application include the sequences of menus that lead to each page (`menus`), and `Leads` assumes no more of
them than that they contain what the trajectories of the crawler press: they give the branch of a module a
meaning that does not depend on the trajectory the registry happens to keep. `ExploreState` restores a state by replaying its trajectory, `Click` tries one
candidate from a freshly restored page, `RegisterPage` is the registry with its depth limit, and
`EndRound` the fixed point of the isolated mode. Failures of navigations, clicks, replays and artifact
writes are the `faults` of the environment, `Expire` is the end of the session. A write may raise at three places:
before a screen is in the index (`BreakCapture`: it is visited and registered, and nothing more), in the middle of
recording a page that an event showed (`BreakRegistration`: `save_raw_screen_json`, `route_crawler.py:1044`, comes after
the registry and the transition and before the node, the links and the queue) and after the page is marked
(`BreakExploration`). The handler of the loop that was at work takes the exception (`Handled`) and the crawl goes on.
`indexed` are the routes of the screen index, and `torn` observes the transitions whose registration was cut. A menu of
the entry path is pressed without the filter of the other events, so once the session is over one that leaves its
route is recorded with the login page (`EnterMenu`). `Certified` is the quality
gate. `CanonicalBuild` applies the builder to whatever state the crawl ended in: owners of states in
rounds, parts, menus and their parents, transitions.

## Runs

| Run | Instance | Shows |
|---|---|---|
| `jobs_safety` | two requests for one projection, one ordinary request; one crash, one refused transaction, progress up to 1 | `NoOrphanJobs`, `SingleRunner`, `ExecutorMatchesRow`, `ProgressConsistent`, `ImplementsLifecycle` |
| `jobs_liveness` | two requests, one of them cancellable; one crash, one refused transaction | `EveryJobSettles` |
| `jobs_duplicate` | as the first, nothing fails | `NoDuplicateProjection` is violated |
| `gov_safety` | two versions, an item and its unchanged copy, whose correction has no safe label, ChromaDB; one reviewer, two promotions, the worker; one fault | `LineageIsAChain`, `ProjectionFresh`, `PredecessorGone`, `ImplementsHistory` |
| `gov_scripts` | the same versions, the first imported with activation, Neo4j; a synchronisation with replace_version and one without; two reviewing scripts with corrections that drop a property | `LineageIsAChain`, `ProjectionSound`, `ReviewsAreSerial` |
| `gov_liveness` | one reviewer (single items and packages), one promotion, the script; no fault | `TransactionsEnd` |
| `gov_stale` | as `gov_safety` | `ArchivedNotProjected` is violated |
| `gov_lost_review` | two reviewers over HTTP | `ReviewsAreSerial` is violated |
| `candidates` | two modules with a screen each, a link and a transition between them; full, module and screen crawls, three at most and all of them full in some behaviours; two changes of decisions, one restart | `OriginIsUnique`, `DecisionsAreFinal`, `NothingElseIsLost`, `StoredVersionsAreSound`, `OnlyTheScopeChanges`, `PublishesOnlyConfirmedRemovals` |
| `semantics` | one screen over three versions; two models, two reviewers, two inferences, one sync, one structural review or restart | `AnswersUseReviewedWords`, `AnswersAreSupported`, `ProposalsEnterOnce`, `SyncLeavesTheUsableOnly` |
| `crawl` | seventeen applications of fourteen pages, in one of which the menu of the module leaves the home route; depth 2, four pages, event depth 2, two failures; full, module and screen scope | `NoProblemWithoutCause`, `FlowIsReal`, `ModuleStaysInside`, `CertifiedIsComplete`, `BuildKeepsTheCrawl`, `Terminates` |
| `chat` | eight items in two versions, eleven kinds of request, two conversations and a store of one entry; two turns, one review; 4 rows, 2 corrected rows and 3 candidates | `AnswersAreGoverned`, `ContextIsEarned`, `AmbiguityIsAsked`, `ContextIsKept` |

Why the bounds are enough. Two requests with the same slot are what a duplicate needs, and a third
job shows that others are not disturbed; a queue of three, one crash in any state and one lost
transaction in any state give every pair of failure and step. Two versions give one replacement,
which is all that `resolve` looks back; two promotions may be of the same or of different
candidates. Two revisions let an item be reviewed, projected, and reviewed again; with carried
reviews starting at one. One correction distinguishes a stale payload from a fresh one, and a property that only the source payload
gives tells a merge from a replacement; the largest of these runs have about 0.9 million states each.
Two reductions keep them there: promotions and scripts that the code treats alike are symmetric
(`MCPromotionsAlike`, `MCScriptsAlike`; both runs check safety only), and in `gov_safety` only the second item
is corrected (`MCOnlyA2Corrected`), since a correction of either item takes the same path.
The reviews of one item over HTTP are not serial, so only the run of the scripts has two reviewers.

`candidates`: the full crawl misses a link and renames a screen, the module crawl loses a state and with it
a transition that can only be kept together with it, the screen crawl does not see its module; three
crawls give one bootstrap, one partial replacement and one candidate prepared against a version that is
then replaced; three full ones give a version that loses its origin, is imported again and published first. `semantics`: three versions are needed for a proposal carried forward twice, two models for
two publishable proposals of one screen. `crawl`: two faults let a failure follow the recovery from
another, and four pages of six make the page bound bite; the application whose menu leaves the home route shows the login
page when the session is over before the module is entered (418 thousand states in all); `MaxEventDepth` 2 makes a state that is first seen too
deep. `chat`: a store of one entry evicts on every change of conversation; two turns are one that sets the
context and one that uses it; two screens may come to share a title; a question with three labels finds more than the
three candidates the resolver keeps, so that the limits do bite.

Deadlock is not checked by TLC, except in `chat`: the bounded systems do stop. `TransactionsEnd` takes its place for
the locks.

Fairness. The daemon thread and the threads of accepted requests are scheduled (weak fairness of
each of their steps), and an executor eventually returns or raises: Playwright, Ollama, Neo4j and
HTTP calls have timeouts. Crashes, restarts, shutdowns and refusals are never assumed. In
`KnowledgeGovernance` steps that wait for a row lock are strongly fair, because PostgreSQL queues
the waiters of a row and a session that asks repeatedly is not overtaken for ever; all others are
weakly fair. Promotion is assumed to end, by success or refusal, not to succeed. In `CrawlExploration` only
the crawler's own steps are weakly fair: it is one thread and every call to the browser has a timeout;
failures, and applications that lead back to where they came from, are never excluded. `CandidatePipeline`,
`SemanticLifecycle` and `ChatTurns` assume no fairness and state safety only: their progress waits for people.

## What is proved

`PipelineJobsProofs` proves for every set of jobs and slots, every bound and any number of
crashes: `TypeOK`, `NoOrphanJobs`, `SingleRunner`, `ExecutorMatchesRow`, `ProgressConsistent`, and
that `PipelineJobs` implements `JobLifecycle` when nothing calls `cancel`. The assumptions are
those of `PipelineJobs` about its constants (model values are distinct, the slot function is
total, bounds are naturals).

The properties are not inductive on their own. `IInv` adds what ties a row to the component that
holds it: a row exists exactly from the commit of its request on, and only an answered request has
let its job go (`RequestRows`); a job is in the queue at most once and not also in the worker's
hands (`OnePlace`); the memory of a process that is down or still starting is empty
(`ProcessMemory`). The last is why recovery may fail every active row: no live thread owns one. The
proof has one lemma per action or group of actions that touch the same variables. `ProgressConsistent`
follows from `TypeOK` alone by a second induction. The refinement maps the owner of `JobLifecycle`
to the worker's job while an executor is at work; a step of the queue or of a request stutters, a
crash is `Release`, recovery is `Recover`.

With cancellable jobs the refinement fails: `_fail` decides on a stale read and may overwrite
CANCELLED (`TerminalIsFinal`). No route or script calls `cancel` today.

`KnowledgeGovernanceProofs` proves, for any number of items, versions, targets, reviewers, promotions and
synchronisations: `TypeOK`, `LineageIsAChain`, `ImplementsHistory`, `PredecessorGone`, `ProjectionFresh` and
`ProjectionSound`, which is the conjunction of the last two with scripts, corrections and synchronisations with
and without `replace_version` included. For a graph that was merged they prove less, and say so: the reviewed
payloads are there, beside whatever properties and nodes of older ones. The inductive invariant has five parts. `Typed` adds to
the types that a transaction that has begun is about a version. `Chain` says of a promotion that passed the
gate that its base is the ACTIVE version it still holds; that is what makes the chain of replacements survive two
promotions that race. `Held` says that a row has one holder and which rows each step of a session has; it
lets a review, which holds the SyncJobs it resets, and a run, which holds its own, never overlap. `Gone`
follows what is left of a predecessor in the store through `ClearVersion`, `Upsert`, `Prune` and
`DropPrevious`. `Fresh` says of a run in the middle what part of its plan is already in the store, and that
the plan still is what the version says. A sixth part, `Serial`, gives `ReviewsAreSerial` under the hypothesis that
no step is `BeginApiReview`: a script or a package locks the items with its first read, so what it has seen is what
they say until it commits. `gov_lost_review` shows that the hypothesis cannot be dropped. The assumptions are those of the module: sessions of different kinds
are distinct, items and bounds are finite or natural.

`CandidatePipelineProofs` proves, whatever the crawls observe (`Observe` need only be valid contents of
canonical ids, because the build validates what it writes) and for any number of jobs, versions, reviews and
restarts: `TypeOK`, `StoredVersionsAreSound`, `OriginIsUnique`, `DecisionsAreFinal`, `NothingElseIsLost`,
`OnlyTheScopeChanges` and the refinement `PublishesOnlyConfirmedRemovals`. `Typed` and `Sourced` say that every document a version names was made by a
job that succeeded, so its content never changes again. `Traced` gives each version one job that claims it:
that a skipped import claims nothing is what makes the origin unique. `Sole` adds what is published: an archived
version has an ACTIVE successor, so a bootstrap happens once, and every later promotion has an origin. `Recorded` says that what a
reconciliation took is on record and that no review holds a decision of its candidate, unless
`overtaken`. For the refinement, `Reviews` says that a set
has a decision on everything its candidate would remove from the version it was prepared against, and that its
confirmed removals are in `confirmed` while that version is ACTIVE; `Resolved` carries both to the result of
the reconciliation, and `Documented` to the version imported from it. A replacement then drops only what was
decided "confirmed_remove" against the version it replaces. The module's own count of removals
(`ReconciledFor`) is not needed for that: it is a second guard.
`OnlyTheScopeChanges` needs `Merges`: a merge has put a crawl of its scope into the ACTIVE version it is pinned to,
and a reconciliation whose crawl was merged is pinned to the same version, so what was reconciled against the
version to replace was merged into it as well. What lies outside of the scope survives the merge because
a crawl that claims something outside is refused, and survives the reconciliation because that only adds. For the types,
`Itemised` has every document about canonical ids, `Referring` every job after the one it takes its input from, and
`Counted` the revisions within their bound; that the merge stays inside its base and its crawl goes through the branch of
a module, and the bound through a fold over the decisions. Both are recursive functions, shown to exist and then
followed to the smallest counterexample.

`SemanticLifecycleProofs` proves, whatever the knowledge says and the model answers and for any number of
versions, proposals, reviewers, jobs and restarts: `TypeOK`, `AnswersUseReviewedWords`, `AnswersAreSupported`,
`ProposalsEnterOnce` and `SyncLeavesTheUsableOnly`. Beyond the types of the bounds, the
only assumption is that the model's first draft cites something for every claim (`FirstDraftAssumption`): the schema
that parsed it wants references. `Typed` gives the rows their columns, with the
drafts, packages and corrections taken from a set that is whatever they happen to be. `Ordered` has each proposal
once in the order of the last updates, which is how reuse finds the latest. `Rows` says what a row records of its
own history: a publishable proposal is decided at its last revision, its payload is its draft or its correction
and cites something for every statement. `Inherited` says that a carried proposal has the words, the evidence and
the model of its source, which was decided; only a second request on the source could change that afterwards, so
`Reviewing` says what a request that has read a proposal may still decide, and `overlapped` names the
exception. `Thinking` follows the inference across the call to the model: between the two transactions only the
plan survives, and the second repeats the checks. `Stored` says of a sync that goes on to clean that the
collection has the documents it upserted. That the words come from the root of the chain of carry-forwards
(`Root` is a recursive function) is shown for the smallest proposal for which they would not.

`CrawlExplorationProofs` proves, for every application (any pages, events, redirects and limits that satisfy
`ApplicationAssumption`), any faults and any length of the crawl: `TypeOK`, `FlowIsReal`,
`NoProblemWithoutCause`, `ModuleStaysInside`, `CertifiedIsComplete` and, for any parts and any nesting of routes,
`BuildKeepsTheCrawl`. `Rooted` says that every trajectory the registry keeps leads, step by step through
openers that may be replayed, to the page it is registered for; it is kept when a shorter one replaces
it. From it a restore fails only when the environment does. `Working` says what is being tried and
found while a page is explored, `Rounds` what has changed since the counts of a round of the fixed point were
taken: a round that discovers nothing has nothing pending, so "stalled" needs a fault as well. `Blameless` is the
property with what it says of the phases in the middle.

Three more invariants rest on these. `Guided` has, of the trajectory registered for a page, that its menus lead
to the page in the application (`Menued`), which needs that only events its trajectory allows are pressed
(`Pressing`) and that the way into the module is no longer than the menus pressed (`Entering`), and of a route beyond the known ones that an event of the branch has shown it
(`Branch`). The witness is a transition and a fact about the application, not a trajectory: the code may later
replace the trajectory that justified the route by a shorter one outside of the branch, and `ModuleStaysInside`
says what still holds then. `Complete` holds as long as nothing forbids to certify the crawl
(`Unblamed`), which can only be lost: a route known is settled or waits in the queue; a page registered waits,
is being explored, was explored or was passed on the way into the module; and an exploration saved left nothing of what
its trajectory allowed, which is the one of the page now or one that a shorter has replaced. `Certified` empties both frontiers, and that is `CertifiedIsComplete`. `Buildable`
ties the artifacts together as the builder needs them: the registry has the roots, the ends of transitions and the pages of
screens (`Stated`), and the states shown from home have menus that lead to them, links of their page and every link
that a menu of the branch revealed, but for the transitions in `torn` (`Navigable`). That the rounds of `Owners` exist, keep `Fair` owners (a state of a screen is
its own, another is given to the only screen that leads to it) and settle what one screen leads to after the first
of them, is shown at the smallest round at which it would fail; the deepest module of a screen exists because
`Navigable` bounds the menus of the states shown from home.

`ChatTurnsProofs` proves, for any number of conversations, versions, items, entries of the store, turns and
reviews, and for indexes of any age: `TypeOK`, `AnswersAreGoverned`, `ContextIsEarned` and `AmbiguityIsAsked`. The
assumptions are the typing of the data (`ChatAssumption`, `ItemAssumption`). `StoreSound` and
`StoreEarned` speak of the entries, `TurnTyped`, `TurnSound` and `TurnEarned` of the turn: a turn keeps what it loaded
and loads what another kept, so the two are proved together. `Governed` says of each phase which of the
items in hand have been reviewed while the turn ran; the heart of it is that the second validation covers
everything that expansion adds, and that selection and the decision only take things away. `AskedBack` follows a
homonym through narrowing, search and fusion to the decision: two readings of the best score stay two until
a screen is named. A limit cuts the weakest first, so a homonym is only lost to as many items that are found at least
as well: that the question then names more than the limits let through (`Crowded`) is shown by counting them. The
proofs about rankings use that an order of a finite set by a strict total order exists,
which is shown by the ranks its members take.

`ChatContextProofs` proves `ContextIsKept` on top of that invariant, for any number of modules, screens and parts.
It is the one proof that needs to know what a parent may be: `ParentTypes`, a part of `ItemAssumption`, is what
`PARENT_KEYS` finds in each kind of payload and what `validator.py:65` refuses otherwise, so a screen hangs
from a module or the system, its parts from it, columns and transitions from a table or a state. The chain of parents
that the code climbs up to a bound is then at most two steps below a screen, and `Home` names the screen of an item
without climbing. A walk that starts in a screen leaves it only over an edge between modules and screens
(`TakenWalk` of `ChatTurnsProofs` says which edges a path took); the kinds of relation an intent may follow, the
items the question is about and what evidence a plan accepts then keep what is outside away from the answer.
`InContext` states this phase by phase: what narrowing leaves, the seeds, the paths, the selection and the ids of the
answer. The screen keeping its title and its review (`OnScreen`) is a condition, as in the property: the review that
breaks it may come between any two steps. So are the limits of the resolver, which cut before the narrowing.

`SublistTheorems` has what the proofs about the crawler and about the turns say of lists. The models write `Within(s, S)`, the elements of `s` in a
set, where the code has a loop with a condition: `SelectSeq` takes the condition as an operator, which the
provers cannot instantiate. That `Within` has its elements and keeps their order is again shown at the smallest length
at which it would fail; the existence of the recursive function is part of it. Induction in these proofs is always
that argument, from the well-foundedness of the naturals, because the library's induction rules take an operator.

Only model-checked are liveness and termination (`EveryJobSettles`, `TransactionsEnd`, `Terminates`), which are out
of the prover's reach. Every safety property of a passing run has its theorem.

## Findings

1. **Duplicate projection jobs** (`jobs_duplicate`). `pipeline_jobs.py:99` searches without a lock
   and no index forbids two active rows; the 409 "Ya existe un job ..." that
   `tests/api/test_pipeline_jobs_api.py:712` expects is not given to two concurrent requests.
   The single worker runs them one after the other, so the cost is a second synchronisation.
2. **An archived version is projected** (`gov_stale`). The test "La versión dejó de ser ACTIVE"
   after the lock (`sync_service.py:64`, `structural_sync_service.py:228`) is made on the object read
   before it. The successor's own synchronisation removes the late entries only if it runs later.
3. **A lost review** (`gov_lost_review`). "Conflicto de revisión concurrente"
   (`knowledge_review_service.py:184`) cannot be raised over HTTP, because the route loads the item
   first: of two concurrent reviews the second overwrites the first at the same revision.

### Weaknesses the models make visible

No run is spent on these. Where one would break a property, the property names it, by an observation variable
or a condition, and says that there is no other; the rest are stated here because the models follow the
code in them.

- Governance: the gate reads the candidate's items without locking them, so a reset that commits before the
  promotion publishes a version with a PENDING item; reviews of the ACTIVE version made after the candidate
  was imported are not carried to it; a version replaced by `import_canonical(activate=True)` leaves its
  projection behind, because there is no promotion record; without `replace_version` Neo4j keeps, while
  the SyncJob says SUCCEEDED, the optional property that a correction dropped (`neo4j/repository.py:48`) and the node of
  an item rejected after it was projected, until a replacement or the next promotion (`merged`); an approved item
  without a safe label has no document, which the SyncJob only counts (`structural_sync_service.py:100`); a synchronisation cut by a crash leaves the
  SyncJob with the status it had before, which may be SUCCEEDED.
- Candidates: a version whose import committed before a restart has no origin (`orphaned`): it can neither be
  reviewed for removals nor replace an ACTIVE version, whatever is done, because importing its content again is
  skipped and claims nothing. While nothing is ACTIVE the skipped import does name it (`job_service.py:156`),
  which is all the bootstrap gate asks (`knowledge_promotion_service.py:713`), so it may become the first version; decisions may change between the commit and the success of their
  reconciliation (`overtaken`, `removal_reconciliation_review_service.py:402`); a reconciliation that retains
  nothing yields the candidate itself and is refused at the reimport (`canonical_import.py:355`); a review set
  is unique per candidate and stays tied to the ACTIVE version it was prepared against; the validator does not
  check the screen a link leads to.
- Semantics: two publishable proposals for one screen block the next version, and no route
  resets an approved one; two requests may review one proposal, the second on the row the first had read
  (`overlapped`); the collection is written without a lock after the last check; a corrected item that was moved
  and then approved drops out of the evidence.
- Answers: the limits of the resolver cut silently: a question that names more than 12 items or 48 rows
  (`entity_resolver.py:291`, `:354`) may lose one of two homonyms and be answered with the other, and a question of a
  conversation is resolved within the limits first and narrowed to its screen afterwards (`retriever.py:279`), so that
  homonyms of other screens can push the screen's own item out, which a direct question that names the screen avoids
  (`entity_resolver.py:242`); `Crowded` says when. The version is read twice in a turn and a promotion in between makes the conversation foreign; the
  resolver compares the corrected label only while the status is CORRECTED (`entity_resolver.py:273`), so an item
  corrected and then approved is found under its old title only; the state kept after a turn may pair an
  inherited screen with a newer module only in the order `ContextIsEarned` allows; an inherited screen may have
  been rejected since and still be called validated in the prompt; sources are returned with abstentions.
- Crawl: a session that expires turns into routes that are not allowed and are dropped silently
  (`route_crawler.py:573`), so `CertifiedIsComplete` needs `~expired`; a state first seen at the depth limit is never
  queued when seen nearer (`tooDeep`); a route queued too deep is not queued again; click failures do not
  block the certificate; a result out of the module when it was tried is not kept, though its screen may join
  the module later (`routes` of an exploration); a page explored by a longer trajectory is not explored again when
  a shorter one allows other menus; a page passed on the way into a module is explored only if a route opens it,
  because it is registered and so never new (`Passed`); a write that raises while a page is being recorded leaves
  its transition without its node, links and turn, and the crawl ends "done" all the same (`torn`), not certified, but
  with a screen that may have lost its menu; one that raises before a screen is indexed leaves it visited and
  registered and out of the index; after the session is over, entering a module may register the login page as a
  state with a transition (`FlowIsReal` names both its ends).
- Build: in a full crawl a link known before gets no edge from the menu that reveals it, so its screen may have
  no module; a state two screens lead to is dropped with its transitions, and with them the evidence that a
  control writes; a screen too deep to visit is attributed, in parts, to the one that leads to it; of two menus at
  one depth the first by name is taken; a screen whose link is on a page that two branches lead to may be given to
  the branch that was not crawled, which `OneBranch` excludes from `ScreensKeepTheirMenu`.

## Not modelled

The extraction of pages, signatures and the classification of events are data of an application; privacy rules
are a set of hidden names, prompts and the wording rules of the validators, scoring of texts, embeddings and the
wording of answers are text processing. The non-isolated mode of the crawler, tabs and dialogs that share a route, the
readiness check of a module crawl and the edges of the graph between events, states and transitions are
left out. In `KnowledgeGovernance` the provenance conditions of the gate are taken to hold
(`CandidatePipeline` has them, without the certificates and hashes, which are the values they are computed
from), and relationships of the graph follow their nodes. The admin UI and the inspection, audit and evaluation
scripts read only; migrations and settings are not behaviour.

What remains worth doing: a run in which the reviews of `KnowledgeGovernance` act on the candidates of
`CandidatePipeline`, with the write skew of the gate.
