------------------------- MODULE SemanticLifecycle -------------------------
(***************************************************************************)
(* What the assistant may say about the purpose of a screen: a language    *)
(* model proposes it from the screen's evidence, a person reviews it, a    *)
(* later version inherits it or has it proposed again, the semantic sync   *)
(* projects it to Chroma and an answer uses it if PostgreSQL still agrees  *)
(* (semantic_inference.py, semantic_lifecycle_planner.py,                  *)
(* semantic_proposal_service.py, semantic_review_service.py,               *)
(* semantic_sync_service.py, semantic_retrieval_authorization_service.py). *)
(*                                                                         *)
(* The worker runs one job at a time, each in several transactions: the    *)
(* model is called between two of them, the embeddings are computed and    *)
(* Chroma is written outside any.  Structural reviews and promotions       *)
(* (KnowledgeGovernance) happen at any time.  A semantic review reads the  *)
(* proposal before it locks it, and the locked row is the object it read.  *)
(***************************************************************************)
EXTENDS SemanticEvidence, SequencesExt

CONSTANTS
    Contents,       \* what the knowledge promoted may say of the screen's items
    FirstContent,         \* the content of the first version
    FirstDraft,     \* what the model answered for it
    Drafts,         \* what the language model may answer, acceptable or not
    Models,         \* generation models the API may be configured with
    Reviewers,      \* requests that review proposals
    MaxVersions,    \* bound on promotions
    MaxProposals,   \* bound on the proposals generated
    Contested,      \* bound on the items whose structural review may change
    MaxInferences,  \* bound on the inference jobs queued
    MaxSyncs,       \* bound on the sync jobs queued
    MaxReviews,     \* bound on the review requests
    MaxChanges      \* bound on the structural reviews and restarts of the API together

ASSUME LifecycleAssumption ==
    /\ {MaxVersions, MaxProposals, MaxInferences, MaxSyncs, MaxReviews, MaxChanges} \subseteq Nat
    /\ MaxVersions > 0

\* The first answer was parsed too: the schema wants claims with references.
ASSUME FirstDraftAssumption == \A n \in DOMAIN FirstDraft : FirstDraft[n].refs # {}

VARIABLES
    knowledge,   \* knowledge[v]: the items of version v; the last version is ACTIVE
    proposal,    \* proposal[q]: the semantic proposal rows
    touched,     \* the proposals, the one updated last first
    model,       \* the generation model the API runs with
    job,         \* the job of the worker, NoJob when it has none
    review,      \* review[r]: the review request of r, NoReview when it has none
    store,       \* the documents of the semantic Chroma collection
    overlapped,  \* observation: proposals reviewed by two requests at once
    inferences, syncs, reviews, changes

vars == <<knowledge, proposal, touched, model, job, review, store, overlapped,
          inferences, syncs, reviews, changes>>
counters == <<inferences, syncs, reviews, changes>>

NoJob == [kind |-> "none", phase |-> "none"]
NoReview == [proposal |-> 0]
NoWords == [summary |-> "none", claims |-> <<>>]
NoPlan == [decision |-> "none", source |-> 0]

Active == Len(knowledge)
PackageOf(v) == Package(v, knowledge[v])
Current == PackageOf(Active)
Proposals == DOMAIN proposal
Of(v) == {q \in Proposals : proposal[q].version = v}
PublishableOf(v) == {q \in Of(v) : proposal[q].status \in Publishable}

\* SemanticEffectivePayloadService.effective_payload.
PayloadOf(p) == IF p.status = "corrected" /\ p.correction # NoWords THEN p.correction ELSE p.payload

-----------------------------------------------------------------------------
(* SemanticLifecyclePlanner: what is to be done for the ACTIVE version. *)

SameGeneration(p, m) ==
    {q \in Of(Active) : proposal[q].evidence = p /\ proposal[q].model = m}

\* The previous version had a reviewed proposal and this one has none.
Inherits(v) == v > 1 /\ Of(v) = {} /\ PublishableOf(v - 1) # {}

Source(v) == CHOOSE q \in PublishableOf(v - 1) : TRUE


\* Mutant of Reusable: the evidence of the source is not compared with its version's.
ReusableStale(q, v) ==
    /\ proposal[q].model = model
    /\ PackageOf(v - 1) # NoPackage
    /\ Compatible(PackageOf(v - 1), PackageOf(v))

\* No reason for another inference: the source still says what was reviewed, it was
\* generated in the same way and the evidence did not change with the version.
Reusable(q, v) ==
    /\ proposal[q].model = model
    /\ PackageOf(v - 1) = proposal[q].evidence
    /\ Compatible(PackageOf(v - 1), PackageOf(v))

Blocked(v) ==
    \/ ~Eligible(PackageOf(v))
    \/ SameGeneration(PackageOf(v), model) # {}
    \/ Inherits(v) /\ Cardinality(PublishableOf(v - 1)) > 1

Plan(v) ==
    IF Blocked(v) THEN [decision |-> "blocked", source |-> 0]
    ELSE IF ~Inherits(v) THEN [decision |-> "generate", source |-> 0]
    ELSE LET q == Source(v)
         IN [decision |-> IF Reusable(q, v) THEN "carry_forward" ELSE "reinference_required",
             source |-> q, status |-> proposal[q].status, revision |-> proposal[q].revision,
             payload |-> PayloadOf(proposal[q])]

-----------------------------------------------------------------------------
(* Semantic inference: SemanticInferenceJobExecutor. *)

\* create_semantic_inference_job pins the evidence the person saw.
QueueInference ==
    /\ job = NoJob /\ Eligible(Current)
    /\ inferences < MaxInferences /\ inferences' = inferences + 1
    /\ job' = [kind |-> "inference", phase |-> "queued", version |-> Active,
               evidence |-> Current, plan |-> NoPlan, answer |-> NoWords]
    /\ UNCHANGED <<knowledge, proposal, touched, model, review, store, overlapped,
                   syncs, reviews, changes>>

\* _require_context and _validated_package.
ContextHolds ==
    /\ job.version = Active
    /\ LET p == Current IN job.evidence = p /\ Eligible(p)

InJob(kind, phase) == job.kind = kind /\ job.phase = phase
Finish == job' = NoJob

PlanInference ==
    /\ InJob("inference", "queued")
    /\ LET plan == Plan(Active)
       IN IF /\ ContextHolds /\ SameGeneration(Current, model) = {}
             /\ plan.decision # "blocked"
          THEN job' = [job EXCEPT !.plan = plan,
                                  !.phase = IF plan.decision = "carry_forward"
                                            THEN "answered" ELSE "calling"]
          ELSE Finish
    /\ UNCHANGED <<knowledge, proposal, touched, model, review, store, overlapped, counters>>

\* The model answers, in time or not; a draft that is not grounded fails the job.
Answer ==
    /\ InJob("inference", "calling")
    /\ \/ \E d \in Drafts : /\ Acceptable(d, job.evidence)
                            /\ job' = [job EXCEPT !.answer = Parsed(d), !.phase = "answered"]
       \/ Finish
    /\ UNCHANGED <<knowledge, proposal, touched, model, review, store, overlapped, counters>>

Proposed ==
    [version |-> Active, evidence |-> Current, model |-> model, correction |-> NoWords,
     origin |-> job.plan.decision, source |-> job.plan.source, revision |-> 0,
     decided |-> FALSE,
     status |-> IF job.plan.decision = "carry_forward" THEN job.plan.status
                ELSE "pending_review",
     payload |-> IF job.plan.decision = "carry_forward" THEN job.plan.payload ELSE job.answer]

Add(p) ==
    /\ Len(proposal) < MaxProposals
    /\ proposal' = Append(proposal, p)
    /\ touched' = <<Len(proposal) + 1>> \o touched


\* Mutant of Persist: the answer is stored without looking at the evidence again.
PersistLate ==
    /\ InJob("inference", "answered")
    /\ IF job.version = Active /\ Buildable(knowledge[Active])
       THEN Add(Proposed)
       ELSE UNCHANGED <<proposal, touched>>
    /\ Finish
    /\ UNCHANGED <<knowledge, model, review, store, overlapped, counters>>

\* The second transaction locks the version and the screen and plans again; a plan
\* that is not the one it started from stores nothing.
Persist ==
    /\ InJob("inference", "answered")
    /\ IF ContextHolds /\ Plan(Active) = job.plan
       THEN Add(Proposed)
       ELSE UNCHANGED <<proposal, touched>>
    /\ Finish
    /\ UNCHANGED <<knowledge, model, review, store, overlapped, counters>>

-----------------------------------------------------------------------------
(* Semantic review: _review of routes/semantic_review.py. *)

\* _current_evidence_for_review.
EvidenceCurrent(q) ==
    /\ proposal[q].version = Active
    /\ LET p == Current IN proposal[q].evidence = p /\ Eligible(p)


\* Mutant of BeginReview: a decided proposal may be reviewed again.
BeginAnyReview(r, q, action) ==
    /\ review[r] = NoReview /\ reviews < MaxReviews /\ reviews' = reviews + 1
    /\ action # "rejected" => EvidenceCurrent(q)
    /\ review' = [review EXCEPT ![r] =
                     [proposal |-> q, action |-> action, revision |-> proposal[q].revision]]
    /\ UNCHANGED <<knowledge, proposal, touched, model, job, store, overlapped, inferences,
                   syncs, changes>>

\* The request reads the proposal; only a pending one may change.
BeginReview(r, q, action) ==
    /\ review[r] = NoReview /\ reviews < MaxReviews /\ reviews' = reviews + 1
    /\ proposal[q].status = "pending_review"
    /\ action # "rejected" => EvidenceCurrent(q)
    /\ review' = [review EXCEPT ![r] =
                     [proposal |-> q, action |-> action, revision |-> proposal[q].revision]]
    /\ UNCHANGED <<knowledge, proposal, touched, model, job, store, overlapped, inferences,
                   syncs, changes>>

Correction(r, q) == [proposal[q].payload EXCEPT !.summary = r]

\* _transition on the object read at the beginning: what another request committed in
\* between is overwritten; its action stays in the history.  Of two corrections the one
\* with the later created_at is in force, which the commit order does not tell.
Decide(r) ==
    LET q == review[r].proposal
        old == proposal[q]
        action == review[r].action
        kept == IF old.correction # NoWords THEN {old.correction} ELSE {}
        new == IF action = "corrected" THEN {Correction(r, q)} ELSE {}
    IN /\ \E c \in IF kept \cup new = {} THEN {NoWords} ELSE kept \cup new :
              proposal' = [proposal EXCEPT ![q] =
                              [old EXCEPT !.status = action, !.decided = TRUE,
                                          !.revision = review[r].revision + 1,
                                          !.correction = c]]
       /\ overlapped' = IF old.revision # review[r].revision
                        THEN overlapped \cup {q} ELSE overlapped

CommitReview(r) ==
    /\ review[r] # NoReview
    /\ Decide(r)
    /\ touched' = LET q == review[r].proposal IN <<q>> \o RemoveFirst(touched, q)
    /\ review' = [review EXCEPT ![r] = NoReview]
    /\ UNCHANGED <<knowledge, model, job, store, counters>>

-----------------------------------------------------------------------------
(* Semantic sync: SemanticChromaSyncJobExecutor and SemanticChromaSyncService. *)

Document(q) ==
    [proposal |-> q, version |-> proposal[q].version, status |-> proposal[q].status,
     revision |-> proposal[q].revision, evidence |-> proposal[q].evidence,
     text |-> PayloadOf(proposal[q])]

\* The checks of prepare and of authorize_hits on the proposal itself.
Usable(q) ==
    /\ proposal[q].version = Active /\ proposal[q].status \in Publishable
    /\ LET p == Current
       IN Eligible(p) /\ proposal[q].evidence = p /\ Grounded(PayloadOf(proposal[q]), p)

\* prepare: the usable proposal of the screen that was updated last.
Prepared ==
    LET latest == SelectInSeq(touched, Usable)
    IN IF latest = 0 THEN {} ELSE {Document(touched[latest])}

QueueSync ==
    /\ job = NoJob
    /\ syncs < MaxSyncs /\ syncs' = syncs + 1
    /\ job' = [kind |-> "sync", phase |-> "queued", version |-> Active, documents |-> {}]
    /\ UNCHANGED <<knowledge, proposal, touched, model, review, store, overlapped,
                   inferences, reviews, changes>>

PrepareSync ==
    /\ InJob("sync", "queued")
    /\ IF job.version = Active
       THEN job' = [job EXCEPT !.phase = "embedding", !.documents = Prepared]
       ELSE Finish
    /\ UNCHANGED <<knowledge, proposal, touched, model, review, store, overlapped, counters>>

\* publish_prepared: prepared again after the embeddings; the write is not locked.
CheckSync ==
    /\ InJob("sync", "embedding")
    /\ IF job.version = Active /\ Prepared = job.documents
       THEN job' = [job EXCEPT !.phase = "writing"]
       ELSE Finish
    /\ UNCHANGED <<knowledge, proposal, touched, model, review, store, overlapped, counters>>

\* SemanticChromaRepository.sync: an upsert by id ...
Upsert ==
    /\ InJob("sync", "writing")
    /\ store' = {d \in store : \A e \in job.documents : e.proposal # d.proposal}
                \cup job.documents
    /\ job' = [job EXCEPT !.phase = "cleaning"]
    /\ UNCHANGED <<knowledge, proposal, touched, model, review, overlapped, counters>>


\* Mutant of Clean: only documents of the version synchronised are deleted.
CleanVersion ==
    /\ InJob("sync", "cleaning")
    /\ store' = {d \in store : \/ d.version # job.version
                              \/ \E e \in job.documents : e.proposal = d.proposal}
    /\ Finish
    /\ UNCHANGED <<knowledge, proposal, touched, model, review, overlapped, counters>>

\* ... and then the deletion of every other document of the ERP.
Clean ==
    /\ InJob("sync", "cleaning")
    /\ store' = {d \in store : \E e \in job.documents : e.proposal = d.proposal}
    /\ Finish
    /\ UNCHANGED <<knowledge, proposal, touched, model, review, overlapped, counters>>

-----------------------------------------------------------------------------
(* Retrieval: SemanticRetrievalAuthorizationService.authorize_hits. *)

\* _projection_matches.
Matches(d) ==
    /\ d.status = proposal[d.proposal].status /\ d.revision = proposal[d.proposal].revision
    /\ d.evidence = proposal[d.proposal].evidence

Authorized == {d \in store : Matches(d) /\ Usable(d.proposal)}

-----------------------------------------------------------------------------
(* The structural knowledge under it. *)

NextStatuses(status) ==
    CASE status = "pending_review" -> Publishable \cup {"rejected"}
      [] status = "approved" -> {"corrected", "rejected"}
      [] status = "rejected" -> {"pending_review"}
      [] status = "corrected" -> {"approved", "rejected"}

\* A structural review, from the API or, of an archived version, from the script.
ReviewItem(v, i, status) ==
    /\ changes < MaxChanges /\ changes' = changes + 1
    /\ i \in DOMAIN knowledge[v] /\ status \in NextStatuses(knowledge[v][i].status)
    /\ status = "corrected" => Corrected[i] # knowledge[v][i].source
    /\ knowledge' = [knowledge EXCEPT ![v][i] =
                        [@ EXCEPT !.status = status,
                                  !.fixed = CASE status = "corrected" -> TRUE
                                              [] status = "pending_review" -> FALSE
                                              [] OTHER -> @]]
    /\ UNCHANGED <<proposal, touched, model, job, review, store, overlapped, inferences,
                   syncs, reviews>>

\* A version is imported, reviewed and promoted; unchanged items keep their review.
Promote(c) ==
    /\ Active < MaxVersions
    /\ knowledge' = Append(knowledge,
           [i \in DOMAIN c |->
               IF i \in DOMAIN knowledge[Active] /\ knowledge[Active][i].source = c[i]
               THEN knowledge[Active][i]
               ELSE [source |-> c[i], status |-> "approved", fixed |-> FALSE]])
    /\ UNCHANGED <<proposal, touched, model, job, review, store, overlapped, counters>>

\* The API restarts, perhaps with another model: requests and the job are gone.
Restart ==
    /\ changes < MaxChanges /\ changes' = changes + 1
    /\ model' \in Models
    /\ job' = NoJob /\ review' = [r \in Reviewers |-> NoReview]
    /\ UNCHANGED <<knowledge, proposal, touched, store, overlapped, inferences, syncs,
                   reviews>>

-----------------------------------------------------------------------------
\* The first version is ACTIVE; what the model said of its screen was approved and synced.
Init ==
    /\ knowledge = <<[i \in DOMAIN FirstContent |->
                         [source |-> FirstContent[i], status |-> "approved", fixed |-> FALSE]]>>
    /\ model \in Models
    /\ proposal = <<[version |-> 1, evidence |-> Current, model |-> model,
                     correction |-> NoWords, origin |-> "generate", source |-> 0,
                     revision |-> 1, decided |-> TRUE, status |-> "approved",
                     payload |-> Parsed(FirstDraft)]>>
    /\ touched = <<1>> /\ store = {Document(1)}
    /\ job = NoJob /\ review = [r \in Reviewers |-> NoReview] /\ overlapped = {}
    /\ inferences = 0 /\ syncs = 0 /\ reviews = 0 /\ changes = 0

Inference == QueueInference \/ PlanInference \/ Answer \/ Persist
Sync == QueueSync \/ PrepareSync \/ CheckSync \/ Upsert \/ Clean
Review ==
    \E r \in Reviewers :
        \/ \E q \in Proposals, a \in {"approved", "corrected", "rejected"} : BeginReview(r, q, a)
        \/ CommitReview(r)
Govern ==
    \/ \E v \in DOMAIN knowledge, i \in Contested,
          s \in Publishable \cup {"rejected", "pending_review"} : ReviewItem(v, i, s)
    \/ \E c \in Contents : Promote(c)

Next == Inference \/ Sync \/ Review \/ Govern \/ Restart

Spec == Init /\ [][Next]_vars

-----------------------------------------------------------------------------
\* Every proposal belongs to a version there is and is later than the one it was carried
\* from; the order of the last updates has each once; the requests, the job and the
\* collection refer to proposals there are.
TypeOK ==
    /\ Active \in 1 .. MaxVersions
    /\ \A q \in Proposals :
           /\ proposal[q].version \in 1 .. Active /\ proposal[q].source < q
           /\ proposal[q].origin \in {"generate", "reinference_required", "carry_forward"}
           /\ proposal[q].status \in Publishable \cup {"pending_review", "rejected"}
           /\ proposal[q].revision \in 0 .. 1
    /\ ToSet(touched) = Proposals /\ Len(touched) = Len(proposal)
    /\ job.kind \in {"none", "inference", "sync"} /\ model \in Models
    /\ \A r \in Reviewers : review[r].proposal \in 0 .. Len(proposal)
    /\ \A d \in store : d.proposal \in Proposals
    /\ overlapped \subseteq Proposals

\* Where the words of a proposal were reviewed: itself, or what it was carried from.
Root(q) ==
    LET root[p \in Proposals] ==
            IF proposal[p].origin = "carry_forward" THEN root[proposal[p].source] ELSE p
    IN root[q]

\* Whatever an answer may use has been decided by a person, through any number of
\* versions that carried it forward, and for the very evidence the screen has now; the
\* words are the ones decided on, unless two requests reviewed them at once.
AnswersUseReviewedWords ==
    \A d \in Authorized :
        LET p == proposal[d.proposal]
            root == proposal[Root(d.proposal)]
        IN /\ root.decided /\ Compatible(root.evidence, Current)
           /\ Root(d.proposal) \in overlapped \/ PayloadOf(p) = PayloadOf(root)

\* Every reference of a statement an answer may use is an item of the ACTIVE version
\* that is approved or corrected at this moment, and so is the screen and its module.
AnswersAreSupported ==
    \A d \in Authorized :
        LET claims == PayloadOf(proposal[d.proposal]).claims
            k == knowledge[Active]
            owner == Effective(k, Screen).of
        IN /\ Reviewed(k, Screen) /\ owner # None => Reviewed(k, owner)
           /\ \A s \in DOMAIN claims : claims[s] # {} /\ \A i \in claims[s] : Reviewed(k, i)

\* Whatever happened while the model was thinking, a proposal enters for the evidence
\* that the ACTIVE version has then, once per model, and a decision it inherits is the
\* one on record for the only reviewed proposal of the version before.
ProposalsEnterOnce ==
    [][Len(proposal') > Len(proposal) =>
          LET p == proposal'[Len(proposal')]
          IN /\ p.evidence = Current /\ Eligible(Current)
             /\ SameGeneration(Current, p.model) = {}
             /\ p.origin = "carry_forward" =>
                    /\ PublishableOf(Active - 1) = {p.source}
                    /\ p.status = proposal[p.source].status
                    /\ p.payload = PayloadOf(proposal[p.source])]_vars

\* The collection is a projection of the ACTIVE version only: a sync whose documents are
\* still the right ones when it ends leaves nothing else, whatever interrupted syncs,
\* promotions and reviews left there before.
SyncLeavesTheUsableOnly ==
    [][InJob("sync", "cleaning") /\ job' = NoJob /\ changes' = changes
          /\ Prepared = job.documents =>
          store' = Prepared]_vars

=============================================================================
