------------------------- MODULE CandidatePipeline -------------------------
(***************************************************************************)
(* From a crawl to a replacement of the ACTIVE knowledge: the pipeline     *)
(* jobs canonical_build, canonical_merge, canonical_import,                *)
(* canonical_reconciliation and the import of its result, the human        *)
(* decisions on removed items (removal_reconciliation_review_service.py)   *)
(* and the promotion gate's view of their provenance.                      *)
(*                                                                         *)
(* One worker runs the queued jobs in order (PipelineJobs has the details  *)
(* of the queue).  An executor commits its own transaction first and the   *)
(* runner marks the job SUCCEEDED in a later one: a job is "done" between  *)
(* the two, and a crash there fails the job but not what it committed.     *)
(* Routes, executors and the promotion lock the rows they check, so each   *)
(* is one step here; a review locks its decision, checks and commits.      *)
(***************************************************************************)
EXTENDS CanonicalContent, Sequences, Functions

CONSTANTS
    Observe,       \* Observe[s]: the contents a crawl of scope s may yield
    FirstContent,  \* what the first crawl of the ERP found
    MaxCrawls,     \* bound on the crawls ever queued
    MaxRepeats,    \* MaxRepeats[s]: bound on those of scope s
    MaxUses,       \* bound on the jobs of one kind ever queued from one source
    MaxOpen,       \* bound on the jobs queued at a time
    MaxRevision,   \* bound on the changes of the decisions of a review set
    MaxFaults      \* bound on restarts of the API

NoContent == <<>>
Scopes == DOMAIN Observe
FullScope == [kind |-> "full", target |-> None]

ASSUME ObserveAssumption ==
    LET Content(c) ==
            Valid(c) /\ DOMAIN c \subseteq Item /\ \A i \in DOMAIN c : c[i] \in Payload
    IN  /\ \A s \in Scopes :
               s.kind \in {"full", "module", "screen"} /\ \A c \in Observe[s] : Content(c)
        /\ Content(FirstContent)
ASSUME BoundAssumption == {MaxCrawls, MaxUses, MaxOpen, MaxRevision, MaxFaults} \subseteq Nat

VARIABLES
    version,    \* version[v]: status and document (the job that wrote its content)
    job,        \* job[j]: the pipeline job rows, in the order they were queued
    review,     \* review[v]: the removal review set of candidate v, if prepared
    change,     \* the review transaction that holds a decision row, or None
    confirmed,  \* observation: items confirmed removed against the current ACTIVE
    overtaken,  \* observation: candidates reviewed while their reconciliation ended
    orphaned,   \* observation: versions whose import committed but did not succeed
    faults

vars == <<version, job, review, change, confirmed, overtaken, orphaned, faults>>

-----------------------------------------------------------------------------
Pending == "pending"
Retain == "retain_from_active"
Remove == "confirmed_remove"

Versions == DOMAIN version
WithStatus(st) == {v \in Versions : version[v].status = st}
Active == IF WithStatus("active") = {} THEN 0 ELSE CHOOSE v \in WithStatus("active") : TRUE
ContentOf(v) == job[version[v].document].content
IsImported(v) == v \in WithStatus("imported")
IsActive(v) == v \in WithStatus("active")
Stored(c) == {v \in Versions : ContentOf(v) = c}

Succeeded(j, k) == job[j].kind = k /\ job[j].status = "succeeded"
Open == {j \in DOMAIN job : job[j].status \in {"queued", "done"}}
Current == CHOOSE j \in Open : \A k \in Open : j <= k

NewJob(kind, scope, source, base, raw) ==
    [kind |-> kind, scope |-> scope, source |-> source, base |-> base, raw |-> raw,
     status |-> "queued", content |-> NoContent, version |-> 0, fresh |-> FALSE,
     taken |-> <<>>]

\* The successful imports that name a version, those that skipped its content included.
Namings(v) == {j \in DOMAIN job : job[j].version = v /\ job[j].status = "succeeded"}

\* The origin of a version: those of them that report it as "imported".
Origins(v) == {j \in Namings(v) : job[j].fresh}
Governed(v) == Cardinality(Origins(v)) = 1
Origin(v) == CHOOSE j \in Origins(v) : TRUE
Source(v) == job[job[Origin(v)].source]

\* _validate_canonical_provenance: a build of a full crawl, or a merge.
CanonicalOrigin(v) == Governed(v) /\ job[Origin(v)].kind = "import"
MergedFrom(v) == CanonicalOrigin(v) /\ Source(v).kind = "merge"

-----------------------------------------------------------------------------
(* Removal review: the plan of a candidate and its persisted decisions. *)

\* VersionDiff and _validate_partial_base: the candidate can be compared with ACTIVE.
Plannable(v) ==
    /\ IsImported(v) /\ Active # 0 /\ CanonicalOrigin(v)
    /\ MergedFrom(v) => Source(v).base = Active

PlannedRemovals(v) == Removed(ContentOf(Active), ContentOf(v))

Prepared(v) == v \in DOMAIN review

\* _ensure_versions_still_reviewable: RAW and ACTIVE are those of the set.
StillReviewable(v) == IsImported(v) /\ review[v].active = Active

\* _validate_set: the plan is the one the set was prepared from.
SetValid(v) == Prepared(v) /\ StillReviewable(v) /\ Plannable(v)

\* confirm_retain, confirm_remove and reset_to_pending, by the decision they leave.
Operations == {Retain, Remove, Pending}

\* _validated_latest_action: a row says what its history of actions ends with.
Decision(v, i) == review[v].decision[i].value


\* Mutant of Decided: a set with open decisions counts as resolved.
AlwaysDecided(v) == Prepared(v)

Decided(v) == \A i \in DOMAIN review[v].decision : Decision(v, i) # Pending


\* Mutant of Consumed: a review does not look for reconciliations.
NeverConsumed(v) == Prepared(v) /\ FALSE

Consumed(v) == \E j \in DOMAIN job : /\ job[j].raw = v /\ Succeeded(j, "reconcile")
                                     /\ DOMAIN job[j].taken # {}

Prepare(v) ==
    /\ ~Prepared(v) /\ Plannable(v)
    /\ review' = [w \in DOMAIN review \cup {v} |->
                     IF w = v
                     THEN [active |-> Active,
                           decision |-> [i \in PlannedRemovals(v) |->
                                            [value |-> Pending, revision |-> 0]]]
                     ELSE review[w]]
    /\ UNCHANGED <<version, job, change, confirmed, overtaken, orphaned, faults>>

Permitted(old, new) == (new = Pending) # (old = Pending)

Changes(v) == FoldFunction(LAMBDA d, n : d.revision + n, 0, review[v].decision)

\* A reconciliation of the candidate that committed and has not been marked SUCCEEDED.
Ending(v) == \E j \in DOMAIN job : /\ job[j].kind = "reconcile" /\ job[j].raw = v
                                   /\ job[j].status = "done"

\* confirm_retain, confirm_remove, reset_to_pending: lock the decision and check.  A
\* request made on another revision than the locked one is refused and changes nothing.
LockDecision(v, i, value) ==
    /\ change = None
    /\ Permitted(Decision(v, i), value)
    /\ Changes(v) < MaxRevision
    /\ SetValid(v) /\ ~Consumed(v)
    /\ change' = [candidate |-> v, item |-> i, value |-> value]
    /\ overtaken' = IF Ending(v) THEN overtaken \cup {v} ELSE overtaken
    /\ UNCHANGED <<version, job, review, confirmed, orphaned, faults>>

CommitDecision ==
    /\ change # None
    /\ LET v == change.candidate
           i == change.item
           old == review[v].decision[i]
       IN /\ review' = [review EXCEPT ![v].decision[i] =
                            [value |-> change.value, revision |-> old.revision + 1]]
          /\ confirmed' = IF change.value = Remove /\ review[v].active = Active
                          THEN confirmed \cup {i} ELSE confirmed
    /\ change' = None
    /\ UNCHANGED <<version, job, overtaken, orphaned, faults>>

-----------------------------------------------------------------------------
(* The routes that queue jobs. *)

Alike(row) == {j \in DOMAIN job : /\ job[j].kind = row.kind
                                  /\ job[j].source = row.source /\ job[j].raw = row.raw}

Enqueue(row) ==
    /\ Cardinality(Open) < MaxOpen
    /\ Cardinality(Alike(row)) < (IF row.kind = "build" THEN MaxCrawls ELSE MaxUses)
    /\ row.kind = "build" =>
           Cardinality({j \in Alike(row) : job[j].scope = row.scope}) < MaxRepeats[row.scope]
    /\ job' = Append(job, row)
    /\ UNCHANGED <<version, review, change, confirmed, overtaken, orphaned, faults>>

\* create_crawl_job and create_canonical_build_job: a partial crawl is pinned to ACTIVE.
QueueBuild(s) ==
    /\ s.kind # "full" => Active # 0 /\ s.target \in DOMAIN ContentOf(Active)
    /\ Enqueue(NewJob("build", s, 0, IF s.kind = "full" THEN 0 ELSE Active, 0))

QueueMerge(j) ==
    /\ Succeeded(j, "build") /\ job[j].scope.kind # "full"
    /\ IsActive(job[j].base)
    /\ Enqueue(NewJob("merge", job[j].scope, j, job[j].base, 0))

QueueImport(j) ==
    /\ \/ Succeeded(j, "build") /\ job[j].scope.kind = "full"
       \/ Succeeded(j, "merge") /\ IsActive(job[j].base)
    /\ Enqueue(NewJob("import", FullScope, j, job[j].base, 0))

QueueReconcile(v) ==
    /\ SetValid(v) /\ Decided(v)
    /\ Enqueue(NewJob("reconcile", FullScope, 0, Active, v))

QueueReimport(j) ==
    /\ Succeeded(j, "reconcile")
    /\ IsImported(job[j].raw) /\ IsActive(job[j].base)
    /\ Enqueue(NewJob("reimport", FullScope, j, job[j].base, job[j].raw))

-----------------------------------------------------------------------------
(* The executors. *)

Running(k) == Open # {} /\ job[Current].status = "queued" /\ job[Current].kind = k

Commit(row) == job' = [job EXCEPT ![Current] = [row EXCEPT !.status = "done"]]
Fail == job' = [job EXCEPT ![Current].status = "failed"]

\* validate_certified_quality_source: the crawl passed its quality gate; NoContent
\* stands for one that did not.
Certified(c) == c # NoContent

\* The crawl and the canonical build from its artifacts, which must show the target.
RunBuild ==
    /\ Running("build")
    /\ \E c \in Observe[job[Current].scope] :
           IF Certified(c) /\ job[Current].scope.target \in DOMAIN c \cup {None}
           THEN Commit([job[Current] EXCEPT !.content = c])
           ELSE Fail
    /\ UNCHANGED <<version, review, change, confirmed, overtaken, orphaned, faults>>

RunMerge ==
    /\ Running("merge")
    /\ LET partial == job[job[Current].source].content
           base == job[Current].base
           s == job[Current].scope
       IN IF IsActive(base) /\ Mergeable(ContentOf(base), partial, s)
          THEN Commit([job[Current] EXCEPT !.content = Merged(ContentOf(base), partial, s)])
          ELSE Fail
    /\ UNCHANGED <<version, review, change, confirmed, overtaken, orphaned, faults>>


\* Mutant of Import: the skipped import of a stored content is reported as imported.
ImportReportingSkips(content, document) ==
    IF Stored(content) # {}
    THEN /\ Commit([job[Current] EXCEPT !.version = CHOOSE v \in Stored(content) : TRUE,
                                      !.fresh = TRUE])
         /\ UNCHANGED version
    ELSE /\ Commit([job[Current] EXCEPT !.version = Len(version) + 1, !.fresh = TRUE])
         /\ version' = Append(version, [status |-> "imported", document |-> document])

\* Mutant of Import: the content hash is not looked up.
ImportAgain(content, document) ==
    /\ Commit([job[Current] EXCEPT !.version = Len(version) + 1, !.fresh = TRUE])
    /\ version' = Append(version, [status |-> "imported", document |-> document])

\* _pinned_versions: the versions job j was queued for are still what they were.
PinsHold(j) ==
    /\ job[j].base # 0 => IsActive(job[j].base)
    /\ job[j].raw # 0 => IsImported(job[j].raw)

\* The artifacts of the source of job j, checked against its result.
SourceContent(j) == job[job[j].source].content

\* import_canonical with activate=False: a content that is stored already is skipped.
Import(content, document) ==
    IF Stored(content) # {}
    THEN /\ Commit([job[Current] EXCEPT !.version = CHOOSE v \in Stored(content) : TRUE])
         /\ UNCHANGED version
    ELSE /\ Commit([job[Current] EXCEPT !.version = Len(version) + 1, !.fresh = TRUE])
         /\ version' = Append(version, [status |-> "imported", document |-> document])

RunImport ==
    /\ Running("import")
    /\ IF PinsHold(Current)
       THEN Import(SourceContent(Current), job[Current].source)
       ELSE Fail /\ UNCHANGED version
    /\ UNCHANGED <<review, change, confirmed, overtaken, orphaned, faults>>

\* _pinned_versions and _validate_result: the versions are those of the job and every
\* decision on them was taken.
Reconcilable(j) == SetValid(job[j].raw) /\ job[j].base = Active /\ Decided(job[j].raw)

\* _normalized_decisions: the decisions the result reports, with their revisions.
Taken(v) == review[v].decision

\* What is exported, once read again: the candidate with the items retained.
Exported(v) ==
    Reconciled(ContentOf(v), ContentOf(Active), {i \in DOMAIN Taken(v) : Decision(v, i) = Retain})

\* Waits for the decision rows of a review in course, then uses what it committed.
RunReconcile ==
    /\ Running("reconcile")
    /\ LET v == job[Current].raw
       IN /\ change # None => change.candidate # v
          /\ IF Reconcilable(Current) /\ Valid(Exported(v))
             THEN Commit([job[Current] EXCEPT !.content = Exported(v), !.taken = Taken(v)])
             ELSE Fail
    /\ UNCHANGED <<version, review, change, confirmed, overtaken, orphaned, faults>>

\* _execute_reconciliation_source: a stored content must come from the same document.
RunReimport ==
    /\ Running("reimport")
    /\ LET source == job[Current].source
           content == SourceContent(Current)
       IN IF /\ PinsHold(Current)
             /\ \A v \in Stored(content) : version[v].document = source /\ IsImported(v)
          THEN Import(content, source)
          ELSE Fail /\ UNCHANGED version
    /\ UNCHANGED <<review, change, confirmed, overtaken, orphaned, faults>>

\* The runner's own transaction: PipelineJobService.succeed.
Succeed ==
    /\ Open # {} /\ job[Current].status = "done"
    /\ job' = [job EXCEPT ![Current].status = "succeeded"]
    /\ UNCHANGED <<version, review, change, confirmed, overtaken, orphaned, faults>>

\* The API restarts: recover_orphaned_jobs fails every job that had not ended.
Restart ==
    /\ faults < MaxFaults /\ Open # {}
    /\ faults' = faults + 1
    /\ job' = [j \in DOMAIN job |->
                  IF j \in Open THEN [job[j] EXCEPT !.status = "failed"] ELSE job[j]]
    /\ orphaned' = orphaned \cup {job[j].version : j \in {k \in Open : job[k].fresh}}
    /\ change' = None
    /\ UNCHANGED <<version, review, confirmed, overtaken>>

-----------------------------------------------------------------------------
(* The promotion gate: provenance of the first version and of a replacement. *)


\* Mutant of Activate: the previous ACTIVE version is not archived.
ActivateBeside(v) ==
    /\ version' = [version EXCEPT ![v].status = "active"]
    /\ confirmed' = {}
    /\ UNCHANGED <<job, review, change, overtaken, orphaned, faults>>

Activate(v) ==
    /\ version' = [w \in Versions |->
                      IF w = v THEN [version[w] EXCEPT !.status = "active"]
                      ELSE IF IsActive(w) THEN [version[w] EXCEPT !.status = "archived"]
                      ELSE version[w]]
    /\ confirmed' = {}
    /\ UNCHANGED <<job, review, change, overtaken, orphaned, faults>>

\* _pipeline_provenance: the last import that names the version took a canonical
\* document, whether it stored the version or found its content stored.
LastNaming(v) == CHOOSE j \in Namings(v) : \A k \in Namings(v) : k <= j
NamedByCanonical(v) == Namings(v) # {} /\ job[LastNaming(v)].kind = "import"

\* Mutant of PromoteBootstrap: an ACTIVE version does not stop a bootstrap.
PromoteBootstrapAgain(v) ==
    /\ IsImported(v) /\ NamedByCanonical(v)
    /\ Activate(v)

PromoteBootstrap(v) ==
    /\ IsImported(v) /\ Active = 0
    /\ NamedByCanonical(v)
    /\ Activate(v)


\* _validate_reconciled_provenance, _resolved_removal_decisions_valid and the final
\* count of removals against the confirmed ones.
ReconciledFor(v, a) ==
    /\ Governed(v) /\ job[Origin(v)].kind = "reimport"
    /\ LET source == Source(v)
       IN /\ source.status = "succeeded" /\ source.base = a
          /\ IsImported(source.raw) /\ CanonicalOrigin(source.raw)
          /\ source.content = ContentOf(v)
          /\ \A i \in DOMAIN source.taken : source.taken[i].value # Pending
          /\ Cardinality(Removed(ContentOf(a), ContentOf(v))) =
                Cardinality({i \in DOMAIN source.taken : source.taken[i].value = Remove})

PromoteReplacement(v) ==
    /\ IsImported(v) /\ Active # 0
    /\ ReconciledFor(v, Active)
    /\ Activate(v)

-----------------------------------------------------------------------------
\* A first full crawl has been built and imported, and nothing is published yet.
Init ==
    /\ version = <<[status |-> "imported", document |-> 1]>>
    /\ job = <<[NewJob("build", FullScope, 0, 0, 0) EXCEPT
                    !.status = "succeeded", !.content = FirstContent],
               [NewJob("import", FullScope, 1, 0, 0) EXCEPT
                    !.status = "succeeded", !.version = 1, !.fresh = TRUE]>>
    /\ review = <<>> /\ change = None
    /\ confirmed = {} /\ overtaken = {} /\ orphaned = {} /\ faults = 0

Submit ==
    \/ \E s \in Scopes : QueueBuild(s)
    \/ \E j \in DOMAIN job : QueueMerge(j) \/ QueueImport(j) \/ QueueReimport(j)
    \/ \E v \in Versions : QueueReconcile(v)

Work == RunBuild \/ RunMerge \/ RunImport \/ RunReconcile \/ RunReimport \/ Succeed

Person ==
    \/ \E v \in Versions : Prepare(v) \/ PromoteBootstrap(v) \/ PromoteReplacement(v)
    \/ \E v \in DOMAIN review : \E i \in DOMAIN review[v].decision :
           \E x \in Operations : LockDecision(v, i, x)
    \/ CommitDecision

Next == Submit \/ Work \/ Person \/ Restart

Spec == Init /\ [][Next]_vars

-----------------------------------------------------------------------------
\* At most one version is ACTIVE; a job names documents and versions that are there and was
\* queued after the job whose document it takes; a removal review is about a version and no
\* decision is revised beyond its bound.
TypeOK ==
    /\ \A v \in Versions : /\ version[v].status \in {"imported", "active", "archived"}
                           /\ version[v].document \in DOMAIN job
    /\ Cardinality(WithStatus("active")) <= 1
    /\ \A j \in DOMAIN job :
           /\ job[j].kind \in {"build", "merge", "import", "reconcile", "reimport"}
           /\ job[j].status \in {"queued", "done", "succeeded", "failed"}
           /\ {job[j].base, job[j].raw, job[j].version} \subseteq 0 .. Len(version)
           /\ job[j].source < j
    /\ DOMAIN review \subseteq Versions
    /\ \A v \in DOMAIN review : \A i \in DOMAIN review[v].decision :
           /\ review[v].decision[i].value \in {Pending, Retain, Remove}
           /\ review[v].decision[i].revision \in 0 .. MaxRevision
    /\ confirmed \subseteq Item /\ overtaken \cup orphaned \subseteq Versions
    /\ faults \in 0 .. MaxFaults

\* Whatever merges, removals and retentions produced it, the items of a version that is
\* stored refer only to items it has, its modules form a forest, and no other version
\* says the same.
StoredVersionsAreSound ==
    [][Len(version') > Len(version) =>
          (Valid(ContentOf(Len(version))) /\ Cardinality(Stored(ContentOf(Len(version)))) = 1)']_vars

\* Every stored version can be traced to exactly one import, unless the API restarted
\* between the commit of its import and the success of the job.  What is published was at
\* least named by a successful import.  Of the versions that lost their origin one at most
\* is ever published, the first of the ERP, whose gate takes a later import that skipped
\* the content for its origin; none of them replaces an ACTIVE version.
OriginIsUnique ==
    /\ \A v \in Versions :
          \/ v \in orphaned /\ Origins(v) = {}
          \/ Governed(v)
          \/ \E j \in Open : job[j].fresh /\ job[j].version = v
    /\ \A v \in Versions : IsImported(v) \/ Namings(v) # {}
    /\ \A v, w \in Versions :
          ~IsImported(v) /\ ~IsImported(w) /\ Origins(v) = {} /\ Origins(w) = {} => v = w

\* The decisions a successful reconciliation was made from are the ones on record
\* from then on, unless a review slipped in between its commit and its success.
DecisionsAreFinal ==
    \A j \in DOMAIN job : Succeeded(j, "reconcile") =>
        /\ Prepared(job[j].raw)
        /\ job[j].raw \notin overtaken => job[j].taken = review[job[j].raw].decision

\* A reconciled version never loses what it was told to keep: it has everything of the
\* candidate as crawled and everything retained as the ACTIVE version has it.
NothingElseIsLost ==
    \A v \in Versions : Governed(v) /\ job[Origin(v)].kind = "reimport" =>
        LET s == Source(v)
            a == ContentOf(s.base)
            raw == ContentOf(s.raw)
        IN \A i \in DOMAIN a \cup DOMAIN raw :
               \/ i \in DOMAIN ContentOf(v) /\ ContentOf(v)[i] = (IF i \in DOMAIN raw THEN raw[i] ELSE a[i])
               \/ i \in DOMAIN s.taken /\ s.taken[i].value = Remove

\* A replacement that comes from a crawl of a module or a screen changes nothing outside
\* of it: the rest of the ACTIVE version it replaces is carried over item by item, minus
\* the transitions into the scope, and a screen crawl does not move its screen.
OnlyTheScopeChanges ==
    [][\A v \in Versions :
          IsImported(v) /\ version'[v].status = "active" /\ Active # 0 =>
              LET raw == Source(v).raw
                  s == Source(raw).scope
                  old == ContentOf(Active)
              IN MergedFrom(raw) =>
                    /\ \A i \in Outside(old, s) :
                           i \in DOMAIN ContentOf(v) /\ ContentOf(v)[i] = old[i]
                    /\ s.kind = "screen" => ContentOf(v)[s.target].at = old[s.target].at]_vars

\* No item of the ACTIVE version disappears without a confirmed removal.
Published == INSTANCE PublishedKnowledge WITH
                 published <- IF Active = 0 THEN NoContent ELSE ContentOf(Active),
                 removable <- confirmed
PublishesOnlyConfirmedRemovals == Published!Spec

=============================================================================
