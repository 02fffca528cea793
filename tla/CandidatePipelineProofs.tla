----------------------- MODULE CandidatePipelineProofs -----------------------
(***************************************************************************)
(* What CandidatePipeline promises whatever the crawls observe and however *)
(* many jobs, versions, reviews and restarts there are.  The inductive     *)
(* invariant has eight parts, and four more for the types:                 *)
(*   Typed       the types of the job and version rows                     *)
(*   Sourced     a stored content was made and validated by a job that     *)
(*               succeeded; one version at most is ACTIVE                  *)
(*   Recorded    what a successful reconciliation took is on record        *)
(*   Traced      a version has one job that says it imported it            *)
(*   Documented  and that job read the document the version names          *)
(*   Reviews     a review set is about all that its candidate would remove *)
(*   Resolved    a reconciliation removes what was confirmed, and no more  *)
(*   Merges      a merge put a crawl of its scope into its base, and what  *)
(*               was reconciled against another version was merged into it *)
(*   Itemised    documents are about the items that the crawls observed    *)
(*   Referring   jobs name earlier jobs and versions that are there        *)
(*   Counted     a decision changes no more often than its set allows      *)
(*   Observed    and the observations are about items and versions         *)
(* Typed and Sourced carry the others; Resolved needs Reviews.             *)
(***************************************************************************)
EXTENDS CandidatePipeline, TLAPS, WellFoundedInduction, FiniteSetTheorems, SequenceTheorems

-----------------------------------------------------------------------------
(* Rows.  The sets of contents and decisions are whatever the crawls and   *)
(* the reviews make of them.                                               *)

\* The kinds of jobs, and those that write a document.
Kinds == {"build", "merge", "import", "reconcile", "reimport"}
Makers == {"build", "merge", "reconcile"}
Row(B) ==
    [kind : Kinds, scope : B, source : Nat, base : Nat, raw : Nat,
     status : {"queued", "done", "succeeded", "failed"}, content : B, version : Nat,
     fresh : BOOLEAN, taken : B]
\* A row of the version table: its status and the job whose document it stores.
VersionRow == [status : {"imported", "active", "archived"}, document : Nat]

\* The rows and their columns.
Typed ==
    /\ \E B : job \in Seq(Row(B))
    /\ version \in Seq(VersionRow)

\* The initial state has the types.
LEMMA InitTyped == Init => Typed
  <1> SUFFICES ASSUME Init PROVE Typed
    OBVIOUS
  <1> DEFINE B == {FullScope, FirstContent, NoContent}
             a == [NewJob("build", FullScope, 0, 0, 0) EXCEPT
                    !.status = "succeeded", !.content = FirstContent]
             b == [NewJob("import", FullScope, 1, 0, 0) EXCEPT
                    !.status = "succeeded", !.version = 1, !.fresh = TRUE]
  <1>1. a \in Row(B) /\ b \in Row(B)
    BY DEF NewJob, Row, Kinds, NoContent
  <1>2. job = <<a, b>> /\ version = <<[status |-> "imported", document |-> 1]>>
    BY DEF Init
  <1> HIDE DEF a, b, B
  <1>3. job \in Seq(Row(B))
    BY <1>1, <1>2
  <1>4. version \in Seq(VersionRow)
    BY <1>2 DEF VersionRow
  <1> QED BY <1>3, <1>4 DEF Typed

\* The rows of the job and version tables are numbered from 1.
LEMMA RowFacts ==
    ASSUME Typed
    PROVE  /\ Len(job) \in Nat /\ DOMAIN job = 1 .. Len(job)
           /\ Len(version) \in Nat /\ Versions = 1 .. Len(version)
           /\ \A v \in Versions : version[v] \in VersionRow
           /\ \E B : \A j \in DOMAIN job : job[j] \in Row(B)
  BY DEF Typed, Versions

\* A set of naturals that is not empty has a smallest element.
LEMMA Smallest ==
    ASSUME NEW S \in SUBSET Nat, S # {}
    PROVE  \E j \in S : \A k \in S : j <= k
  <1> DEFINE R == OpToRel(<, Nat)
  <1>1. IsWellFoundedOn(R, Nat)
    BY NatLessThanWellFounded
  <1>2. PICK j \in S : \A y \in S : ~(<<y, j>> \in R)
    <2> HIDE DEF R
    <2> QED BY <1>1, WFMin
  <1>3. \A y \in S : ~(y < j)
    BY <1>2 DEF OpToRel
  <1> QED BY <1>3

\* The current job is one of the open ones.
LEMMA CurrentFacts ==
    ASSUME Typed, Open # {}
    PROVE  Current \in Open /\ Current \in DOMAIN job
  <1>1. Open \in SUBSET Nat
    BY RowFacts DEF Open
  <1> QED BY <1>1, Smallest DEF Current, Open

\* A row over some data is a row over more.
LEMMA RowGrows ==
    ASSUME NEW C, NEW D, C \subseteq D
    PROVE  Row(C) \subseteq Row(D)
  BY DEF Row

\* A job that is queued.
LEMMA AppendFacts ==
    ASSUME Typed, NEW B, NEW row \in Row(B), job' = Append(job, row)
    PROVE  /\ \E C : job' \in Seq(Row(C))
           /\ Len(job) + 1 \notin DOMAIN job
           /\ DOMAIN job' = DOMAIN job \cup {Len(job) + 1}
           /\ job'[Len(job) + 1] = row
           /\ \A j \in DOMAIN job : job'[j] = job[j]
  <1>1. PICK C : job \in Seq(Row(C))
    BY DEF Typed
  <1> DEFINE D == B \cup C
  <1>2. Row(C) \subseteq Row(D) /\ row \in Row(D)
    BY RowGrows
  <1>3. job \in Seq(Row(D))
    BY <1>1, <1>2, SeqMonotonic
  <1> HIDE DEF D
  <1> QED BY <1>2, <1>3, AppendProperties, LenProperties

\* A job that goes on.
LEMMA UpdateFacts ==
    ASSUME Typed, NEW c \in DOMAIN job, NEW B, NEW row \in Row(B), job' = [job EXCEPT ![c] = row]
    PROVE  /\ \E C : job' \in Seq(Row(C))
           /\ DOMAIN job' = DOMAIN job
           /\ job'[c] = row
           /\ \A j \in DOMAIN job \ {c} : job'[j] = job[j]
  <1>1. PICK C : job \in Seq(Row(C))
    BY DEF Typed
  <1> DEFINE D == B \cup C
  <1>2. Row(C) \subseteq Row(D) /\ row \in Row(D)
    BY RowGrows
  <1>3. job \in Seq(Row(D))
    BY <1>1, <1>2, SeqMonotonic
  <1> HIDE DEF D
  <1> QED BY <1>2, <1>3, ExceptSeq, LenProperties

\* Where a job came from: the artifacts of a job that succeeded.
Made(j) == j \in DOMAIN job /\ job[j].status = "succeeded" /\ job[j].kind \in Makers

\* What a queued row says.
LEMMA NewJobFacts ==
    ASSUME NEW k \in Kinds, NEW s, NEW source \in Nat, NEW base \in Nat, NEW raw \in Nat
    PROVE  /\ NewJob(k, s, source, base, raw) \in Row({s, NoContent})
           /\ NewJob(k, s, source, base, raw).status = "queued"
           /\ ~NewJob(k, s, source, base, raw).fresh
           /\ NewJob(k, s, source, base, raw).kind = k
           /\ NewJob(k, s, source, base, raw).scope = s
           /\ NewJob(k, s, source, base, raw).source = source
  BY DEF NewJob, Row, NoContent

\* The routes queue a row that claims nothing yet.
LEMMA SubmitFacts ==
    ASSUME Typed, Submit
    PROVE  /\ \E B : \E row \in Row(B) :
                 /\ job' = Append(job, row) /\ row.status = "queued" /\ ~row.fresh
                 /\ row.kind = "build" => row.scope \in Scopes
                 /\ row.kind \in {"import", "reimport"} => Made(row.source)
                 /\ row.kind = "reimport" => job[row.source].kind = "reconcile"
           /\ UNCHANGED <<version, review, change, confirmed, overtaken, orphaned>>
  <1> DEFINE Goal(row) ==
                 /\ job' = Append(job, row) /\ row.status = "queued" /\ ~row.fresh
                 /\ row.kind = "build" => row.scope \in Scopes
                 /\ row.kind \in {"import", "reimport"} => Made(row.source)
                 /\ row.kind = "reimport" => job[row.source].kind = "reconcile"
                 /\ UNCHANGED <<version, review, change, confirmed, overtaken, orphaned>>
  <1>0. /\ Active \in Nat /\ DOMAIN job \subseteq Nat /\ Versions \subseteq Nat
        /\ \A j \in DOMAIN job : job[j].base \in Nat /\ job[j].raw \in Nat
    <2>1. Active \in Nat
      BY RowFacts DEF Active, WithStatus
    <2> QED BY <2>1, RowFacts DEF Row
  <1>2. ASSUME NEW s \in Scopes, QueueBuild(s) PROVE \E B : \E row \in Row(B) : Goal(row)
    <2> DEFINE base == IF s.kind = "full" THEN 0 ELSE Active
               row == NewJob("build", s, 0, base, 0)
    <2>1. row \in Row({s, NoContent}) /\ row.status = "queued" /\ ~row.fresh
          /\ row.kind = "build" /\ row.scope = s
      BY <1>0, NewJobFacts DEF Kinds
    <2>2. Enqueue(row)
      BY <1>2 DEF QueueBuild
    <2> HIDE DEF row
    <2> QED BY <2>1, <2>2 DEF Enqueue
  <1>3. ASSUME NEW j \in DOMAIN job, QueueMerge(j) PROVE \E B : \E row \in Row(B) : Goal(row)
    <2> DEFINE row == NewJob("merge", job[j].scope, j, job[j].base, 0)
    <2>1. row \in Row({job[j].scope, NoContent}) /\ row.status = "queued" /\ ~row.fresh
          /\ row.kind = "merge"
      BY <1>0, NewJobFacts DEF Kinds
    <2>2. Enqueue(row)
      BY <1>3 DEF QueueMerge
    <2> HIDE DEF row
    <2> QED BY <2>1, <2>2 DEF Enqueue
  <1>4. ASSUME NEW j \in DOMAIN job, QueueImport(j) PROVE \E B : \E row \in Row(B) : Goal(row)
    <2> DEFINE row == NewJob("import", FullScope, j, job[j].base, 0)
    <2>1. row \in Row({FullScope, NoContent}) /\ row.status = "queued" /\ ~row.fresh
          /\ row.kind = "import" /\ row.source = j
      BY <1>0, NewJobFacts DEF Kinds
    <2>2. Enqueue(row) /\ Made(j)
      BY <1>4 DEF QueueImport, Made, Succeeded, Makers
    <2> HIDE DEF row
    <2> QED BY <2>1, <2>2 DEF Enqueue
  <1>5. ASSUME NEW j \in DOMAIN job, QueueReimport(j) PROVE \E B : \E row \in Row(B) : Goal(row)
    <2> DEFINE row == NewJob("reimport", FullScope, j, job[j].base, job[j].raw)
    <2>1. row \in Row({FullScope, NoContent}) /\ row.status = "queued" /\ ~row.fresh
          /\ row.kind = "reimport" /\ row.source = j
      BY <1>0, NewJobFacts DEF Kinds
    <2>2. Enqueue(row) /\ Made(j) /\ job[j].kind = "reconcile"
      BY <1>5 DEF QueueReimport, Made, Succeeded, Makers
    <2> HIDE DEF row
    <2> QED BY <2>1, <2>2 DEF Enqueue
  <1>6. ASSUME NEW v \in Versions, QueueReconcile(v) PROVE \E B : \E row \in Row(B) : Goal(row)
    <2> DEFINE row == NewJob("reconcile", FullScope, 0, Active, v)
    <2>1. row \in Row({FullScope, NoContent}) /\ row.status = "queued" /\ ~row.fresh
          /\ row.kind = "reconcile"
      BY <1>0, NewJobFacts DEF Kinds
    <2>2. Enqueue(row)
      BY <1>6 DEF QueueReconcile
    <2> HIDE DEF row
    <2> QED BY <2>1, <2>2 DEF Enqueue
  <1>7. \E B : \E row \in Row(B) : Goal(row)
    BY <1>2, <1>3, <1>4, <1>5, <1>6 DEF Submit
  <1> QED BY <1>7

\* The current job goes on: its row keeps what it was queued with.
Goes(row) ==
    /\ Open # {} /\ job[Current].status = "queued"
    /\ job' = [job EXCEPT ![Current] = row]
    /\ row.status \in {"done", "failed"}
    /\ row.kind = job[Current].kind /\ row.source = job[Current].source
    /\ row.base = job[Current].base /\ row.raw = job[Current].raw

\* The transaction of an executor changes its own row only.
LEMMA CommitFacts ==
    ASSUME Typed, Open # {}, job[Current].status = "queued", NEW B, NEW r \in Row(B),
           r.kind = job[Current].kind, r.source = job[Current].source,
           r.base = job[Current].base, r.raw = job[Current].raw, Commit(r)
    PROVE  \E row \in Row(B) :
              /\ Goes(row) /\ row.status = "done" /\ row.content = r.content
              /\ row.taken = r.taken /\ row.version = r.version /\ (row.fresh <=> r.fresh)
  <1> DEFINE row == [r EXCEPT !.status = "done"]
  <1>1. /\ row \in Row(B) /\ row.status = "done" /\ row.content = r.content
        /\ row.taken = r.taken /\ row.version = r.version /\ (row.fresh <=> r.fresh)
        /\ row.kind = r.kind /\ row.source = r.source /\ row.base = r.base /\ row.raw = r.raw
    BY DEF Row
  <1>2. job' = [job EXCEPT ![Current] = row]
    BY DEF Commit
  <1> HIDE DEF row
  <1> QED BY <1>1, <1>2 DEF Goes

\* A job that fails keeps the rest of its row.
LEMMA FailFacts ==
    ASSUME Typed, Open # {}, job[Current].status = "queued", Fail
    PROVE  \E B : \E row \in Row(B) :
              /\ Goes(row) /\ row.status = "failed" /\ row.version = job[Current].version
              /\ row.fresh <=> job[Current].fresh
  <1>1. PICK B : job[Current] \in Row(B)
    BY RowFacts, CurrentFacts
  <1> DEFINE row == [job[Current] EXCEPT !.status = "failed"]
  <1>2. /\ row \in Row(B) /\ row.status = "failed" /\ row.version = job[Current].version
        /\ row.fresh <=> job[Current].fresh
        /\ row.kind = job[Current].kind /\ row.source = job[Current].source
        /\ row.base = job[Current].base /\ row.raw = job[Current].raw
    BY <1>1 DEF Row
  <1>3. job' = [job EXCEPT ![Current] = row]
    BY CurrentFacts DEF Fail, Typed
  <1> HIDE DEF row
  <1> QED BY <1>2, <1>3 DEF Goes

\* The row of the current job.
LEMMA CurrentRow ==
    ASSUME Typed, Open # {}, job[Current].status = "queued"
    PROVE  \E B : job[Current] \in Row(B)
  BY RowFacts, CurrentFacts

\* A build or a merge that commits has validated what it wrote.
LEMMA MakeFacts ==
    ASSUME Typed, RunBuild \/ RunMerge,
           \A j \in DOMAIN job : job[j].kind = "build" /\ job[j].status = "queued" => job[j].scope \in Scopes
    PROVE  /\ \E B : \E row \in Row(B) :
                 /\ Goes(row) /\ row.kind \in {"build", "merge"}
                 /\ row.status = "done" => Valid(row.content)
                 /\ row.version = job[Current].version /\ (row.fresh <=> job[Current].fresh)
           /\ UNCHANGED <<version, review, change, confirmed, overtaken, orphaned>>
  <1> DEFINE old == job[Current]
  <1>0. /\ Open # {} /\ old.status = "queued" /\ old.kind \in {"build", "merge"}
        /\ UNCHANGED <<version, review, change, confirmed, overtaken, orphaned>>
    BY DEF RunBuild, RunMerge, Running
  <1>1. PICK B : old \in Row(B)
    BY <1>0, CurrentRow
  <1>2. ASSUME NEW c, Valid(c), Commit([old EXCEPT !.content = c])
        PROVE  \E C : \E row \in Row(C) :
                 /\ Goes(row) /\ row.kind \in {"build", "merge"}
                 /\ row.status = "done" => Valid(row.content)
                 /\ row.version = job[Current].version /\ (row.fresh <=> job[Current].fresh)
    <2> DEFINE r == [old EXCEPT !.content = c]
    <2>1. /\ r \in Row(B \cup {c}) /\ r.content = c /\ r.version = old.version
          /\ (r.fresh <=> old.fresh) /\ r.kind = old.kind /\ r.source = old.source
          /\ r.base = old.base /\ r.raw = old.raw
      BY <1>1 DEF Row
    <2>2. Commit(r)
      BY <1>2
    <2> HIDE DEF r
    <2>5. PICK row \in Row(B \cup {c}) :
              /\ Goes(row) /\ row.status = "done" /\ row.content = c
              /\ row.version = old.version /\ (row.fresh <=> old.fresh)
      BY <1>0, <2>1, <2>2, CommitFacts
    <2> QED BY <1>0, <1>2, <2>5 DEF Goes
  <1>3. CASE Fail
    BY <1>0, <1>3, FailFacts DEF Goes
  <1>4. CASE RunBuild
    <2>1. old.scope \in Scopes
      BY <1>0, <1>4, CurrentFacts DEF RunBuild, Running
    <2>2. \A c \in Observe[old.scope] : Valid(c)
      BY <2>1, ObserveAssumption
    <2> QED BY <1>0, <1>2, <1>3, <1>4, <2>2 DEF RunBuild
  <1>5. CASE RunMerge
    <2> DEFINE m == Merged(ContentOf(old.base), job[old.source].content, old.scope)
    <2>1. Fail \/ (Valid(m) /\ Commit([old EXCEPT !.content = m]))
      BY <1>5 DEF RunMerge, Mergeable
    <2> HIDE DEF m
    <2> QED BY <1>0, <1>2, <1>3, <2>1
  <1> QED BY <1>4, <1>5

\* A reconciliation that commits has used decisions that were all taken, on the versions it
\* was queued for, and no review of the candidate was about to commit.
LEMMA ReconcileFacts ==
    ASSUME Typed, RunReconcile
    PROVE  /\ \E B : \E row \in Row(B) :
                 /\ Goes(row) /\ row.kind = "reconcile"
                 /\ row.status = "done" =>
                       /\ SetValid(row.raw) /\ row.base = Active /\ Decided(row.raw)
                       /\ row.content = Exported(row.raw) /\ row.taken = Taken(row.raw)
                       /\ Valid(row.content)
                       /\ change # None => change.candidate # row.raw
                 /\ row.version = job[Current].version /\ (row.fresh <=> job[Current].fresh)
           /\ UNCHANGED <<version, review, change, confirmed, overtaken, orphaned>>
  <1> DEFINE old == job[Current]
             v == old.raw
             c == Exported(v)
             d == Taken(v)
  <1>0. /\ Open # {} /\ old.status = "queued" /\ old.kind = "reconcile"
        /\ UNCHANGED <<version, review, change, confirmed, overtaken, orphaned>>
        /\ change # None => change.candidate # v
    BY DEF RunReconcile, Running
  <1>1. PICK B : old \in Row(B)
    BY <1>0, CurrentRow
  <1>2. CASE Fail
    BY <1>0, <1>2, FailFacts DEF Goes
  <1>3. CASE Reconcilable(Current) /\ Valid(c) /\ Commit([old EXCEPT !.content = c, !.taken = d])
    <2>1. SetValid(v) /\ old.base = Active /\ Decided(v)
      BY <1>3 DEF Reconcilable
    <2> DEFINE r == [old EXCEPT !.content = c, !.taken = d]
    <2>2. /\ r \in Row(B \cup {c, d}) /\ r.content = c /\ r.taken = d /\ r.version = old.version
          /\ (r.fresh <=> old.fresh) /\ r.kind = old.kind /\ r.source = old.source
          /\ r.base = old.base /\ r.raw = old.raw
      <3> HIDE DEF c, d, v
      <3> QED BY <1>1 DEF Row
    <2>4. Commit(r)
      BY <1>3
    <2> HIDE DEF r
    <2>7. PICK row \in Row(B \cup {c, d}) :
              /\ Goes(row) /\ row.status = "done" /\ row.content = c /\ row.taken = d
              /\ row.version = old.version /\ (row.fresh <=> old.fresh)
      <3> HIDE DEF c, d
      <3> QED BY <1>0, <2>2, <2>4, CommitFacts
    <2>8. row.raw = v /\ row.base = old.base
      BY <2>7 DEF Goes
    <2>9. row.content = Exported(row.raw) /\ row.taken = Taken(row.raw) /\ Valid(row.content)
      BY <1>3, <2>7, <2>8
    <2>10. row.kind = "reconcile" /\ (change # None => change.candidate # row.raw)
      BY <1>0, <2>7, <2>8 DEF Goes
    <2> QED BY <1>0, <2>1, <2>7, <2>8, <2>9, <2>10
  <1> QED BY <1>2, <1>3 DEF RunReconcile

\* An import stores a content that no version has, from the artifacts it was queued for, or
\* stores nothing.
LEMMA ImportFacts ==
    ASSUME Typed, RunImport \/ RunReimport
    PROVE  /\ \E B : \E row \in Row(B) :
                 /\ Goes(row) /\ row.kind \in {"import", "reimport"}
                 /\ \/ UNCHANGED version /\ (row.fresh <=> job[Current].fresh)
                    \/ /\ row.status = "done" /\ row.fresh /\ row.version = Len(version) + 1
                       /\ Stored(SourceContent(Current)) = {}
                       /\ version' = Append(version, [status |-> "imported", document |-> row.source])
           /\ UNCHANGED <<review, change, confirmed, overtaken, orphaned>>
  <1> DEFINE old == job[Current]
             c == SourceContent(Current)
             Goal(row) ==
                 /\ Goes(row) /\ row.kind \in {"import", "reimport"}
                 /\ \/ UNCHANGED version /\ (row.fresh <=> old.fresh)
                    \/ /\ row.status = "done" /\ row.fresh /\ row.version = Len(version) + 1
                       /\ Stored(c) = {}
                       /\ version' = Append(version, [status |-> "imported", document |-> row.source])
  <1>0. /\ Open # {} /\ old.status = "queued" /\ old.kind \in {"import", "reimport"}
        /\ UNCHANGED <<review, change, confirmed, overtaken, orphaned>>
    BY DEF RunImport, RunReimport, Running
  <1>1. PICK B : old \in Row(B)
    BY <1>0, CurrentRow
  <1>2. Import(c, old.source) \/ (Fail /\ UNCHANGED version)
    BY DEF RunImport, RunReimport
  <1>3. CASE Fail /\ UNCHANGED version
    <2>1. PICK C : \E row \in Row(C) :
              /\ Goes(row) /\ row.status = "failed" /\ row.version = job[Current].version
              /\ row.fresh <=> job[Current].fresh
      BY <1>0, <1>3, FailFacts
    <2> QED BY <1>0, <1>3, <2>1 DEF Goes
  <1>4. CASE Import(c, old.source) /\ Stored(c) # {}
    <2> DEFINE v == CHOOSE u \in Stored(c) : TRUE
               r == [old EXCEPT !.version = v]
    <2>1. v \in Nat
      <3> HIDE DEF c
      <3>1. v \in Stored(c)
        BY <1>4
      <3> QED BY <3>1, RowFacts DEF Stored
    <2>2. Commit(r) /\ UNCHANGED version
      BY <1>4, Zenon DEF Import
    <2> HIDE DEF v
    <2>3. /\ r \in Row(B) /\ (r.fresh <=> old.fresh) /\ r.kind = old.kind
          /\ r.source = old.source /\ r.base = old.base /\ r.raw = old.raw
      BY <1>1, <2>1 DEF Row
    <2> HIDE DEF r
    <2>4. PICK row \in Row(B) :
              /\ Goes(row) /\ row.status = "done" /\ row.content = r.content
              /\ row.taken = r.taken /\ row.version = r.version /\ (row.fresh <=> r.fresh)
      BY <1>0, <2>2, <2>3, CommitFacts
    <2>5. row.kind = old.kind /\ (row.fresh <=> old.fresh)
      BY <2>3, <2>4 DEF Goes
    <2>6. Goal(row)
      <3> HIDE DEF c
      <3> QED BY <1>0, <2>2, <2>4, <2>5
    <2> QED BY <1>0, <2>6
  <1>5. CASE Import(c, old.source) /\ Stored(c) = {}
    <2> DEFINE r == [old EXCEPT !.version = Len(version) + 1, !.fresh = TRUE]
    <2>1. /\ Commit(r)
          /\ version' = Append(version, [status |-> "imported", document |-> old.source])
      BY <1>5 DEF Import
    <2>2. /\ r \in Row(B) /\ r.fresh /\ r.version = Len(version) + 1 /\ r.kind = old.kind
          /\ r.source = old.source /\ r.base = old.base /\ r.raw = old.raw
      <3> DEFINE n == Len(version) + 1
      <3>1. n \in Nat
        BY RowFacts
      <3>0. r = [old EXCEPT !.version = n, !.fresh = TRUE]
        OBVIOUS
      <3> HIDE DEF n, r
      <3>2. r \in Row(B)
        BY <1>1, <3>0, <3>1 DEF Row
      <3>3. r.version = n /\ r.kind = old.kind /\ r.source = old.source /\ r.base = old.base
            /\ r.raw = old.raw
        BY <1>1, <3>0 DEF Row
      <3>4. "fresh" \in DOMAIN old /\ old = [f \in DOMAIN old |-> old[f]]
        BY <1>1 DEF Row
      <3>5. r.fresh
        BY <3>0, <3>4, Zenon
      <3> QED BY <3>2, <3>3, <3>5 DEF n
    <2> HIDE DEF r
    <2>3. PICK row \in Row(B) :
              /\ Goes(row) /\ row.status = "done" /\ row.content = r.content
              /\ row.taken = r.taken /\ row.version = r.version /\ (row.fresh <=> r.fresh)
      BY <1>0, <2>1, <2>2, CommitFacts
    <2>4. row.source = old.source /\ row.kind = old.kind
      BY <2>3 DEF Goes
    <2>5. row.fresh /\ row.version = Len(version) + 1
      BY <2>2, <2>3
    <2>6. Goal(row)
      <3> HIDE DEF c
      <3> QED BY <1>0, <1>5, <2>1, <2>3, <2>4, <2>5
    <2> QED BY <1>0, <2>6
  <1> QED BY <1>2, <1>3, <1>4, <1>5

\* The runner closes the current job and keeps what it committed.
LEMMA SucceedFacts ==
    ASSUME Typed, Succeed
    PROVE  /\ \E B : \E row \in Row(B) :
                 /\ Current \in Open /\ job[Current].status = "done"
                 /\ job' = [job EXCEPT ![Current] = row]
                 /\ row.status = "succeeded" /\ row.kind = job[Current].kind
                 /\ row.source = job[Current].source /\ row.base = job[Current].base
                 /\ row.raw = job[Current].raw /\ row.content = job[Current].content
                 /\ row.taken = job[Current].taken /\ row.version = job[Current].version
                 /\ row.fresh <=> job[Current].fresh
           /\ UNCHANGED <<version, review, change, confirmed, overtaken, orphaned>>
  <1>0. Current \in Open /\ Current \in DOMAIN job
    BY CurrentFacts DEF Succeed
  <1>1. PICK B : job[Current] \in Row(B)
    BY <1>0, RowFacts
  <1> DEFINE row == [job[Current] EXCEPT !.status = "succeeded"]
  <1>2. /\ row \in Row(B) /\ row.status = "succeeded" /\ row.kind = job[Current].kind
        /\ row.source = job[Current].source /\ row.base = job[Current].base
        /\ row.raw = job[Current].raw /\ row.content = job[Current].content
        /\ row.taken = job[Current].taken /\ row.version = job[Current].version
        /\ row.fresh <=> job[Current].fresh
    BY <1>1 DEF Row
  <1>3. job' = [job EXCEPT ![Current] = row]
    BY <1>0 DEF Succeed, Typed
  <1> HIDE DEF row
  <1> QED BY <1>0, <1>2, <1>3 DEF Succeed

\* A restart fails the open jobs and remembers the versions they stored.
LEMMA RestartFacts ==
    ASSUME Typed, Restart
    PROVE  /\ \E B : job' \in Seq(Row(B))
           /\ DOMAIN job' = DOMAIN job
           /\ \A j \in DOMAIN job : j \notin Open => job'[j] = job[j]
           /\ \A j \in Open :
                 /\ job'[j].status = "failed" /\ job'[j].kind = job[j].kind
                 /\ job'[j].source = job[j].source /\ job'[j].base = job[j].base
                 /\ job'[j].raw = job[j].raw /\ job'[j].version = job[j].version
                 /\ job'[j].fresh <=> job[j].fresh
                 /\ job[j].fresh => job[j].version \in orphaned'
           /\ orphaned \subseteq orphaned' /\ change' = None
           /\ UNCHANGED <<version, review, confirmed, overtaken>>
  <1>0. PICK B : job \in Seq(Row(B))
    BY DEF Typed
  <1>1. \A j \in DOMAIN job : job[j] \in Row(B)
    BY <1>0
  <1>2. job' = [j \in DOMAIN job |->
                  IF j \in Open THEN [job[j] EXCEPT !.status = "failed"] ELSE job[j]]
    BY DEF Restart
  <1>3. ASSUME NEW j \in DOMAIN job
        PROVE  LET r == [job[j] EXCEPT !.status = "failed"] IN
               /\ r \in Row(B) /\ r.status = "failed" /\ r.kind = job[j].kind
               /\ r.source = job[j].source /\ r.base = job[j].base
               /\ r.raw = job[j].raw /\ r.version = job[j].version
               /\ r.fresh <=> job[j].fresh
    BY <1>1 DEF Row
  <1>4. Open \subseteq DOMAIN job
    BY DEF Open
  <1>5. job' \in [1 .. Len(job) -> Row(B)]
    BY <1>1, <1>2, <1>3, RowFacts
  <1>6. job' \in Seq(Row(B))
    BY <1>5, SeqDef, RowFacts
  <1>7. /\ orphaned' = orphaned \cup {job[j].version : j \in {k \in Open : job[k].fresh}}
        /\ change' = None /\ UNCHANGED <<version, review, confirmed, overtaken>>
    BY DEF Restart
  <1>8. \A j \in Open : job[j].fresh => job[j].version \in orphaned'
    BY <1>7
  <1> QED BY <1>2, <1>3, <1>4, <1>6, <1>7, <1>8

-----------------------------------------------------------------------------
(* Provenance.                                                             *)

\* Every stored content was made by a job that succeeded and validated it; one version at
\* most is ACTIVE.
Sourced ==
    /\ \A j \in DOMAIN job :
          /\ job[j].kind = "build" /\ job[j].status = "queued" => job[j].scope \in Scopes
          /\ job[j].kind \in {"import", "reimport"} => Made(job[j].source)
          /\ job[j].kind = "reimport" => job[job[j].source].kind = "reconcile"
          /\ job[j].kind \in Makers /\ job[j].status \in {"done", "succeeded"} => Valid(job[j].content)
    /\ \A v \in Versions : Made(version[v].document)
    /\ \A u, v \in WithStatus("active") : u = v

\* What no step takes back: a job keeps what it was queued with, and its row once it ended.
RowsKept ==
    /\ \E B : job' \in Seq(Row(B))
    /\ DOMAIN job \subseteq DOMAIN job'
    /\ \A j \in DOMAIN job :
          /\ job'[j].kind = job[j].kind /\ job'[j].source = job[j].source
          /\ job'[j].base = job[j].base /\ job'[j].raw = job[j].raw
          /\ job[j].status \in {"succeeded", "failed"} => job'[j] = job[j]
          /\ job'[j].status = "queued" => job'[j] = job[j]

\* A job that goes on takes nothing back.
LEMMA GoesKept ==
    ASSUME Typed, NEW B, NEW row \in Row(B), Goes(row)
    PROVE  /\ RowsKept /\ DOMAIN job' = DOMAIN job /\ Current \in DOMAIN job /\ job'[Current] = row
           /\ \A j \in DOMAIN job \ {Current} : job'[j] = job[j]
  <1>1. Current \in DOMAIN job /\ job[Current].status = "queued"
    BY CurrentFacts DEF Goes
  <1>2. /\ \E C : job' \in Seq(Row(C))
        /\ DOMAIN job' = DOMAIN job
        /\ job'[Current] = row
        /\ \A j \in DOMAIN job \ {Current} : job'[j] = job[j]
    BY <1>1, UpdateFacts DEF Goes
  <1> QED BY <1>1, <1>2 DEF Goes, RowsKept

\* A job that is queued takes nothing back.
LEMMA AppendKept ==
    ASSUME Typed, NEW B, NEW row \in Row(B), job' = Append(job, row)
    PROVE  RowsKept
  BY AppendFacts DEF RowsKept

\* Reviews and promotions do not touch the jobs.
LEMMA PersonKeepsRows ==
    ASSUME Person
    PROVE  UNCHANGED <<job, orphaned, faults>>
  BY DEF Person, Prepare, PromoteBootstrap, PromoteReplacement, Activate, LockDecision, CommitDecision

\* No step takes back what a job row says.
LEMMA StepRows ==
    ASSUME Typed, Sourced, [Next]_vars
    PROVE  RowsKept
  <1>1. CASE UNCHANGED job
    BY <1>1 DEF RowsKept, Typed
  <1>2. CASE Submit
    BY <1>2, SubmitFacts, AppendKept
  <1>3. CASE RunBuild \/ RunMerge
    BY <1>3, MakeFacts, GoesKept DEF Sourced
  <1>4. CASE RunReconcile
    BY <1>4, ReconcileFacts, GoesKept
  <1>5. CASE RunImport \/ RunReimport
    BY <1>5, ImportFacts, GoesKept
  <1>6. CASE Succeed
    <2>1. PICK B : \E row \in Row(B) :
                 /\ Current \in Open /\ job[Current].status = "done"
                 /\ job' = [job EXCEPT ![Current] = row]
                 /\ row.status = "succeeded" /\ row.kind = job[Current].kind
                 /\ row.source = job[Current].source /\ row.base = job[Current].base
                 /\ row.raw = job[Current].raw
      BY <1>6, SucceedFacts
    <2>2. PICK row \in Row(B) :
                 /\ Current \in Open /\ job[Current].status = "done"
                 /\ job' = [job EXCEPT ![Current] = row]
                 /\ row.status = "succeeded" /\ row.kind = job[Current].kind
                 /\ row.source = job[Current].source /\ row.base = job[Current].base
                 /\ row.raw = job[Current].raw
      BY <2>1
    <2>3. Current \in DOMAIN job
      BY <2>2 DEF Open
    <2>4. /\ \E C : job' \in Seq(Row(C))
          /\ DOMAIN job' = DOMAIN job
          /\ job'[Current] = row
          /\ \A j \in DOMAIN job \ {Current} : job'[j] = job[j]
      BY <2>2, <2>3, UpdateFacts
    <2> QED BY <2>2, <2>3, <2>4 DEF RowsKept
  <1>7. CASE Restart
    <2>1. \A j \in Open : job[j].status \in {"queued", "done"}
      BY DEF Open
    <2> QED BY <1>7, <2>1, RestartFacts DEF RowsKept
  <1> QED BY <1>1, <1>2, <1>3, <1>4, <1>5, <1>6, <1>7, PersonKeepsRows DEF Next, vars, Work

\* Versions are appended as IMPORTED or published by a promotion.
Stores(d) == version' = Append(version, [status |-> "imported", document |-> d])

\* An import adds an IMPORTED version and leaves the others alone.
LEMMA StoreFacts ==
    ASSUME Typed, NEW d \in Nat, Stores(d)
    PROVE  /\ version' \in Seq(VersionRow)
           /\ Versions' = Versions \cup {Len(version) + 1} /\ Len(version) + 1 \notin Versions
           /\ \A v \in Versions : version'[v] = version[v]
           /\ version'[Len(version) + 1] = [status |-> "imported", document |-> d]
  <1>1. [status |-> "imported", document |-> d] \in VersionRow /\ version \in Seq(VersionRow)
    BY DEF VersionRow, Typed
  <1> QED BY <1>1, AppendProperties, LenProperties DEF Stores, Versions

\* A promotion archives the ACTIVE version and changes no document.
LEMMA ActivateFacts ==
    ASSUME Typed, NEW v \in Versions, Activate(v)
    PROVE  /\ version' \in Seq(VersionRow) /\ Versions' = Versions
           /\ \A w \in Versions : version'[w].document = version[w].document
           /\ version'[v].status = "active"
           /\ \A w \in Versions \ {v} :
                 version'[w].status = IF IsActive(w) THEN "archived" ELSE version[w].status
  <1>1. \A w \in Versions : version[w] \in VersionRow
    BY RowFacts
  <1>2. version' = [w \in Versions |->
                      IF w = v THEN [version[w] EXCEPT !.status = "active"]
                      ELSE IF IsActive(w) THEN [version[w] EXCEPT !.status = "archived"]
                      ELSE version[w]]
    BY DEF Activate
  <1>3. ASSUME NEW w \in Versions, NEW st \in {"active", "archived"}
        PROVE  /\ [version[w] EXCEPT !.status = st] \in VersionRow
               /\ [version[w] EXCEPT !.status = st].status = st
               /\ [version[w] EXCEPT !.status = st].document = version[w].document
    BY <1>1 DEF VersionRow
  <1>4. version' \in [1 .. Len(version) -> VersionRow]
    BY <1>1, <1>2, <1>3, RowFacts
  <1>5. version' \in Seq(VersionRow)
    BY <1>4, SeqDef, RowFacts
  <1>6. Versions' = Versions
    BY <1>2 DEF Versions
  <1> QED BY <1>2, <1>3, <1>5, <1>6

\* The three ways in which the versions change, or do not.
LEMMA StepVersions ==
    ASSUME Typed, Sourced, [Next]_vars
    PROVE  \/ UNCHANGED version
           \/ \E d : Made(d) /\ Stores(d) /\ (RunImport \/ RunReimport)
           \/ \E v \in Versions :
                 Activate(v) /\ IsImported(v) /\ (PromoteBootstrap(v) \/ PromoteReplacement(v))
  <1>1. CASE RunImport \/ RunReimport
    <2>1. PICK B : \E row \in Row(B) :
                 /\ Goes(row) /\ row.kind \in {"import", "reimport"}
                 /\ UNCHANGED version \/ Stores(row.source)
      BY <1>1, ImportFacts DEF Stores
    <2>2. PICK row \in Row(B) :
                 /\ Goes(row) /\ row.kind \in {"import", "reimport"}
                 /\ UNCHANGED version \/ Stores(row.source)
      BY <2>1
    <2>3. Made(row.source)
      BY <2>2, CurrentFacts DEF Goes, Sourced
    <2> QED BY <1>1, <2>2, <2>3
  <1>2. ASSUME NEW v \in Versions, PromoteBootstrap(v) \/ PromoteReplacement(v)
        PROVE  Activate(v) /\ IsImported(v)
    BY <1>2 DEF PromoteBootstrap, PromoteReplacement
  <1>3. CASE Submit \/ RunBuild \/ RunMerge \/ RunReconcile \/ Succeed \/ Restart
    BY <1>3, SubmitFacts DEF RunBuild, RunMerge, RunReconcile, Succeed, Restart
  <1>4. ASSUME \/ \E v \in Versions : Prepare(v)
               \/ \E v \in DOMAIN review : \E i \in DOMAIN review[v].decision :
                     \E x \in Operations : LockDecision(v, i, x)
               \/ CommitDecision
        PROVE  UNCHANGED version
    BY <1>4 DEF Prepare, LockDecision, CommitDecision
  <1> QED BY <1>1, <1>2, <1>3, <1>4 DEF Next, vars, Work, Person

\* What a job made stays made.
LEMMA MadeKept ==
    ASSUME Typed, Sourced, [Next]_vars, NEW d, Made(d)
    PROVE  Made(d)' /\ job'[d] = job[d]
  BY StepRows DEF Made, RowsKept

\* A version keeps its content, and is never IMPORTED again.
LEMMA VersionsKept ==
    ASSUME Typed, Sourced, [Next]_vars
    PROVE  /\ version' \in Seq(VersionRow)
           /\ Versions \subseteq Versions'
           /\ \A v \in Versions :
                 /\ version'[v].document = version[v].document
                 /\ ContentOf(v)' = ContentOf(v)
                 /\ version[v].status # "imported" => version'[v].status # "imported"
  <1>0. \A v \in Versions : job'[version[v].document] = job[version[v].document]
    BY MadeKept DEF Sourced
  <1>1. CASE UNCHANGED version
    BY <1>0, <1>1 DEF Typed, Versions, ContentOf
  <1>2. ASSUME NEW d, Made(d), Stores(d)
        PROVE  /\ version' \in Seq(VersionRow)
               /\ Versions \subseteq Versions'
               /\ \A v \in Versions : version'[v] = version[v]
    <2>1. d \in Nat
      BY <1>2, RowFacts DEF Made
    <2> QED BY <1>2, <2>1, StoreFacts
  <1>3. ASSUME NEW v \in Versions, Activate(v)
        PROVE  /\ version' \in Seq(VersionRow)
               /\ Versions \subseteq Versions'
               /\ \A w \in Versions : /\ version'[w].document = version[w].document
                                      /\ version[w].status # "imported" => version'[w].status # "imported"
    BY <1>3, ActivateFacts
  <1> QED BY <1>0, <1>1, <1>2, <1>3, StepVersions DEF ContentOf

\* Every step keeps the types.
LEMMA StepTyped ==
    ASSUME Typed, Sourced, [Next]_vars
    PROVE  Typed'
  BY StepRows, VersionsKept DEF Typed, RowsKept

-----------------------------------------------------------------------------
(* What a step does to one row. *)

Kept(j) == j \in DOMAIN job /\ job'[j] = job[j]
Queues(j) == j \notin DOMAIN job /\ job'[j].status = "queued" /\ ~job'[j].fresh
Ends(j) ==
    /\ j \in Open /\ job'[j].status \in {"succeeded", "failed"} /\ job'[j].version = job[j].version
    /\ job'[j].status = "succeeded" =>
          job[j].status = "done" /\ job'[j].content = job[j].content /\ job'[j].taken = job[j].taken
    /\ job'[j].fresh <=> job[j].fresh
    /\ job'[j].status = "failed" /\ job[j].fresh => job[j].version \in orphaned'
Runs(j) ==
    /\ j \in DOMAIN job /\ j = Current
    /\ job[j].status = "queued" /\ job'[j].status \in {"done", "failed"}
Makes(j) ==
    /\ Runs(j) /\ job'[j].kind \in {"build", "merge"}
    /\ job'[j].status = "done" => Valid(job'[j].content)
    /\ job'[j].fresh <=> job[j].fresh
Reconciles(j) ==
    /\ Runs(j) /\ job'[j].kind = "reconcile"
    /\ job'[j].status = "done" =>
          /\ SetValid(job'[j].raw) /\ job'[j].base = Active /\ Decided(job'[j].raw)
          /\ job'[j].content = Exported(job'[j].raw) /\ job'[j].taken = Taken(job'[j].raw)
          /\ Valid(job'[j].content)
          /\ change # None => change.candidate # job'[j].raw
    /\ job'[j].fresh <=> job[j].fresh
    /\ UNCHANGED <<version, review, change, confirmed, overtaken, orphaned>>
Imports(j) ==
    /\ Runs(j) /\ job'[j].kind \in {"import", "reimport"}
    /\ \/ UNCHANGED version /\ (job'[j].fresh <=> job[j].fresh)
       \/ /\ job'[j].status = "done" /\ job'[j].fresh /\ job'[j].version = Len(version) + 1
          /\ Stored(SourceContent(j)) = {} /\ Stores(job'[j].source)

\* A row stays as it is, is queued, runs or ends.
LEMMA StepRow ==
    ASSUME Typed, Sourced, [Next]_vars, NEW j \in DOMAIN job'
    PROVE  Kept(j) \/ Queues(j) \/ Ends(j) \/ Makes(j) \/ Reconciles(j) \/ Imports(j)
  <1>1. CASE UNCHANGED job
    BY <1>1 DEF Kept
  <1>2. CASE Submit
    <2>1. PICK B : \E row \in Row(B) : job' = Append(job, row) /\ row.status = "queued" /\ ~row.fresh
      BY <1>2, SubmitFacts
    <2>2. PICK row \in Row(B) : job' = Append(job, row) /\ row.status = "queued" /\ ~row.fresh
      BY <2>1
    <2>3. /\ DOMAIN job' = DOMAIN job \cup {Len(job) + 1}
          /\ Len(job) + 1 \notin DOMAIN job
          /\ job'[Len(job) + 1] = row
          /\ \A i \in DOMAIN job : job'[i] = job[i]
      BY <2>2, AppendFacts
    <2> QED BY <2>2, <2>3 DEF Kept, Queues
  <1>3. CASE RunBuild \/ RunMerge
    <2>1. PICK B : \E row \in Row(B) :
                 /\ Goes(row) /\ row.kind \in {"build", "merge"}
                 /\ row.status = "done" => Valid(row.content)
                 /\ row.version = job[Current].version /\ (row.fresh <=> job[Current].fresh)
      BY <1>3, MakeFacts DEF Sourced
    <2>2. PICK row \in Row(B) :
                 /\ Goes(row) /\ row.kind \in {"build", "merge"}
                 /\ row.status = "done" => Valid(row.content)
                 /\ row.version = job[Current].version /\ (row.fresh <=> job[Current].fresh)
      BY <2>1
    <2>3. /\ DOMAIN job' = DOMAIN job /\ Current \in DOMAIN job /\ job'[Current] = row
          /\ \A i \in DOMAIN job \ {Current} : job'[i] = job[i]
      BY <2>2, GoesKept
    <2>4. CASE j = Current
      BY <2>2, <2>3, <2>4 DEF Makes, Runs, Goes
    <2> QED BY <2>3, <2>4 DEF Kept
  <1>4. CASE RunReconcile
    <2> DEFINE Good(row) ==
                 /\ Goes(row) /\ row.kind = "reconcile"
                 /\ row.status = "done" =>
                       /\ SetValid(row.raw) /\ row.base = Active /\ Decided(row.raw)
                       /\ row.content = Exported(row.raw) /\ row.taken = Taken(row.raw)
                       /\ Valid(row.content)
                       /\ change # None => change.candidate # row.raw
                 /\ row.version = job[Current].version /\ (row.fresh <=> job[Current].fresh)
                 /\ UNCHANGED <<version, review, change, confirmed, overtaken, orphaned>>
    <2>1. PICK B : \E row \in Row(B) : Good(row)
      BY <1>4, ReconcileFacts
    <2>2. PICK row \in Row(B) : Good(row)
      BY <2>1
    <2>3. /\ DOMAIN job' = DOMAIN job /\ Current \in DOMAIN job /\ job'[Current] = row
          /\ \A i \in DOMAIN job \ {Current} : job'[i] = job[i]
      BY <2>2, GoesKept
    <2>4. CASE j = Current
      BY <2>2, <2>3, <2>4 DEF Reconciles, Runs, Goes
    <2> QED BY <2>3, <2>4 DEF Kept
  <1>5. CASE RunImport \/ RunReimport
    <2> DEFINE Good(row) ==
                 /\ Goes(row) /\ row.kind \in {"import", "reimport"}
                 /\ \/ UNCHANGED version /\ (row.fresh <=> job[Current].fresh)
                    \/ /\ row.status = "done" /\ row.fresh /\ row.version = Len(version) + 1
                       /\ Stored(SourceContent(Current)) = {}
                       /\ version' = Append(version, [status |-> "imported", document |-> row.source])
    <2>1. PICK B : \E row \in Row(B) : Good(row)
      BY <1>5, ImportFacts
    <2>2. PICK row \in Row(B) : Good(row)
      BY <2>1
    <2>3. /\ DOMAIN job' = DOMAIN job /\ Current \in DOMAIN job /\ job'[Current] = row
          /\ \A i \in DOMAIN job \ {Current} : job'[i] = job[i]
      BY <2>2, GoesKept
    <2>4. CASE j = Current
      BY <2>2, <2>3, <2>4 DEF Imports, Runs, Goes, Stores
    <2> QED BY <2>3, <2>4 DEF Kept
  <1>6. CASE Succeed
    <2> DEFINE Good(row) ==
                 /\ Current \in Open /\ job[Current].status = "done"
                 /\ job' = [job EXCEPT ![Current] = row]
                 /\ row.status = "succeeded" /\ row.content = job[Current].content
                 /\ row.taken = job[Current].taken /\ row.version = job[Current].version
                 /\ row.fresh <=> job[Current].fresh
    <2>1. PICK B : \E row \in Row(B) : Good(row)
      BY <1>6, SucceedFacts
    <2>2. PICK row \in Row(B) : Good(row)
      BY <2>1
    <2>3. Current \in DOMAIN job
      BY <2>2 DEF Open
    <2>4. /\ DOMAIN job' = DOMAIN job /\ job'[Current] = row
          /\ \A i \in DOMAIN job \ {Current} : job'[i] = job[i]
      BY <2>2, <2>3, UpdateFacts
    <2>5. CASE j = Current
      BY <2>2, <2>4, <2>5 DEF Ends
    <2> QED BY <2>4, <2>5 DEF Kept
  <1>7. CASE Restart
    <2>1. CASE j \in Open
      BY <1>7, <2>1, RestartFacts DEF Ends
    <2>2. CASE j \notin Open
      BY <1>7, <2>2, RestartFacts DEF Kept
    <2> QED BY <2>1, <2>2
  <1> QED BY <1>1, <1>2, <1>3, <1>4, <1>5, <1>6, <1>7, PersonKeepsRows DEF Next, vars, Work

\* The first crawl made the first version.
LEMMA InitSourced == Init => Sourced
  <1> SUFFICES ASSUME Init PROVE Sourced
    OBVIOUS
  <1>1. /\ DOMAIN job = {1, 2} /\ job[1].kind = "build" /\ job[1].status = "succeeded"
        /\ job[1].content = FirstContent /\ job[2].kind = "import" /\ job[2].source = 1
        /\ job[2].status = "succeeded"
    <2> DEFINE a == [NewJob("build", FullScope, 0, 0, 0) EXCEPT
                      !.status = "succeeded", !.content = FirstContent]
               b == [NewJob("import", FullScope, 1, 0, 0) EXCEPT
                      !.status = "succeeded", !.version = 1, !.fresh = TRUE]
    <2>1. a.kind = "build" /\ a.status = "succeeded" /\ a.content = FirstContent
      BY DEF NewJob
    <2>2. b.kind = "import" /\ b.status = "succeeded" /\ b.source = 1
      BY DEF NewJob
    <2>3. job = <<a, b>>
      BY DEF Init
    <2> HIDE DEF a, b
    <2> QED BY <2>1, <2>2, <2>3
  <1>2. Versions = {1} /\ version[1].document = 1 /\ version[1].status = "imported"
    BY DEF Init, Versions
  <1> QED BY <1>1, <1>2, ObserveAssumption DEF Sourced, Made, Makers, WithStatus

\* Every step keeps the provenance of the contents.
LEMMA StepSourced ==
    ASSUME Typed, Sourced, [Next]_vars
    PROVE  Sourced'
  <1> DEFINE Makes1(d) == d \in DOMAIN job' /\ job'[d].status = "succeeded" /\ job'[d].kind \in Makers
  <1>0. RowsKept /\ \A d : Made(d) => Makes1(d) /\ job'[d] = job[d]
    BY StepRows, MadeKept DEF Made
  <1>1. ASSUME NEW j \in DOMAIN job'
        PROVE  /\ job'[j].kind = "build" /\ job'[j].status = "queued" => job'[j].scope \in Scopes
               /\ job'[j].kind \in {"import", "reimport"} => Makes1(job'[j].source)
               /\ job'[j].kind = "reimport" => job'[job'[j].source].kind = "reconcile"
    <2>1. CASE j \in DOMAIN job
      <3>1. job'[j].status = "queued" => job'[j] = job[j]
        BY <1>0, <2>1 DEF RowsKept
      <3>2. job'[j].kind = job[j].kind /\ job'[j].source = job[j].source
        BY <1>0, <2>1 DEF RowsKept
      <3> HIDE DEF Makes1
      <3> QED BY <1>0, <2>1, <3>1, <3>2 DEF Sourced
    <2>2. CASE j \notin DOMAIN job
      <3>0. ~UNCHANGED job
        BY <2>2
      <3>1. Submit
        <4>1. ASSUME RunBuild \/ RunMerge \/ RunReconcile \/ RunImport \/ RunReimport \/ Succeed \/ Restart
              PROVE  DOMAIN job' = DOMAIN job
          BY <4>1, CurrentFacts, RestartFacts
             DEF RunBuild, RunMerge, RunReconcile, RunImport, RunReimport, Succeed, Commit, Fail, Import
        <4> QED BY <2>2, <3>0, <4>1, PersonKeepsRows DEF Next, vars, Work
      <3>2. PICK B : \E row \in Row(B) :
                 /\ job' = Append(job, row)
                 /\ row.kind = "build" => row.scope \in Scopes
                 /\ row.kind \in {"import", "reimport"} => Made(row.source)
                 /\ row.kind = "reimport" => job[row.source].kind = "reconcile"
        BY <3>1, SubmitFacts
      <3>3. PICK row \in Row(B) :
                 /\ job' = Append(job, row)
                 /\ row.kind = "build" => row.scope \in Scopes
                 /\ row.kind \in {"import", "reimport"} => Made(row.source)
                 /\ row.kind = "reimport" => job[row.source].kind = "reconcile"
        BY <3>2
      <3>4. job'[j] = row
        BY <2>2, <3>3, AppendFacts
      <3> HIDE DEF Makes1
      <3> QED BY <1>0, <3>3, <3>4
    <2> QED BY <2>1, <2>2
  <1>2. ASSUME NEW j \in DOMAIN job', job'[j].kind \in Makers, job'[j].status \in {"done", "succeeded"}
        PROVE  Valid(job'[j].content)
    <2>1. j \in DOMAIN job => job'[j].kind = job[j].kind
      BY <1>0 DEF RowsKept
    <2>2. j \in DOMAIN job /\ job[j].status \in {"done", "succeeded"} => Valid(job[j].content)
      BY <1>2, <2>1 DEF Sourced
    <2>3. CASE Kept(j)
      BY <1>2, <2>2, <2>3 DEF Kept
    <2>4. CASE Ends(j)
      BY <1>2, <2>2, <2>4 DEF Ends, Open
    <2>5. CASE Queues(j) \/ Imports(j)
      BY <1>2, <2>5 DEF Queues, Imports, Makers
    <2>6. CASE Makes(j) \/ Reconciles(j)
      BY <1>2, <2>6 DEF Makes, Reconciles, Runs
    <2> QED BY <2>3, <2>4, <2>5, <2>6, StepRow
  <1>3. ASSUME NEW v \in Versions'
        PROVE  Makes1(version'[v].document)
    <2>1. CASE v \in Versions
      <3> HIDE DEF Makes1
      <3> QED BY <1>0, <2>1, VersionsKept DEF Sourced
    <2>2. CASE v \notin Versions
      <3>1. PICK d : Made(d) /\ Stores(d)
        BY <2>2, StepVersions, ActivateFacts DEF Versions
      <3>2. d \in Nat
        BY <3>1, RowFacts DEF Made
      <3> HIDE DEF Makes1
      <3>3. v = Len(version) + 1 /\ version'[v] = [status |-> "imported", document |-> d]
        BY <2>2, <3>1, <3>2, StoreFacts
      <3> QED BY <1>0, <3>1, <3>3
    <2> QED BY <2>1, <2>2
  <1>4. ASSUME NEW u \in Versions', NEW v \in Versions',
               version'[u].status = "active", version'[v].status = "active"
        PROVE  u = v
    <2>1. \A x, y \in Versions : version[x].status = "active" /\ version[y].status = "active" => x = y
      BY DEF Sourced, WithStatus
    <2>2. CASE UNCHANGED version
      BY <1>4, <2>1, <2>2 DEF Versions
    <2>3. ASSUME NEW d, Made(d), Stores(d) PROVE u = v
      <3>1. d \in Nat
        BY <2>3, RowFacts DEF Made
      <3>2. /\ Versions' = Versions \cup {Len(version) + 1}
            /\ \A x \in Versions : version'[x] = version[x]
            /\ version'[Len(version) + 1] = [status |-> "imported", document |-> d]
        BY <2>3, <3>1, StoreFacts
      <3> QED BY <1>4, <2>1, <3>2
    <2>4. ASSUME NEW w \in Versions, Activate(w) PROVE u = v
      BY <1>4, <2>4, ActivateFacts DEF IsActive, WithStatus
    <2> QED BY <2>2, <2>3, <2>4, StepVersions
  <1> QED BY <1>1, <1>2, <1>3, <1>4 DEF Sourced, Made, Versions, WithStatus

\* A version that is added is valid and repeats no stored content.
LEMMA StepSound ==
    ASSUME Typed, Sourced, [Next]_vars, Len(version') > Len(version)
    PROVE  (Valid(ContentOf(Len(version))) /\ Cardinality(Stored(ContentOf(Len(version)))) = 1)'
  <1>0. PICK n : n = Len(version) + 1
    OBVIOUS
  <1>1. ~UNCHANGED version /\ \A v \in Versions : ~Activate(v)
    <2>1. ASSUME NEW v \in Versions, Activate(v) PROVE Len(version') = Len(version)
      <3>1. version' \in Seq(VersionRow) /\ DOMAIN version' = DOMAIN version
        BY <2>1, ActivateFacts DEF Versions
      <3> QED BY <3>1, LenProperties DEF Typed
    <2> QED BY <2>1, RowFacts
  <1>2. RunImport \/ RunReimport
    BY <1>1, StepVersions
  <1>3. PICK B : \E row \in Row(B) :
              /\ Goes(row) /\ row.kind \in {"import", "reimport"}
              /\ Stored(SourceContent(Current)) = {} /\ Stores(row.source)
    BY <1>1, <1>2, ImportFacts DEF Stores
  <1>4. PICK row \in Row(B) :
              /\ Goes(row) /\ row.kind \in {"import", "reimport"}
              /\ Stored(SourceContent(Current)) = {} /\ Stores(row.source)
    BY <1>3
  <1> DEFINE d == job[Current].source
  <1>5. Stores(d) /\ Stored(job[d].content) = {}
    BY <1>4 DEF Goes, SourceContent
  <1>6. Made(d) /\ d \in Nat
    <2>1. Made(d)
      BY <1>4, CurrentFacts DEF Goes, Sourced
    <2> QED BY <2>1, RowFacts DEF Made
  <1> DEFINE c == job[d].content
  <1>7. job'[d].content = c /\ Valid(c)
    BY <1>6, MadeKept DEF Sourced, Made
  <1> HIDE DEF d
  <1>8. /\ Versions' = Versions \cup {n} /\ n \notin Versions
        /\ version'[n] = [status |-> "imported", document |-> d]
    BY <1>0, <1>5, <1>6, StoreFacts
  <1>9. Len(version') = n
    BY <1>0, <1>5, <1>8, RowFacts, VersionsKept, LenProperties DEF Versions, Stores
  <1>10. ContentOf(n)' = c
    BY <1>7, <1>8 DEF ContentOf, Versions
  <1>11. \A v \in Versions : ContentOf(v)' = ContentOf(v) /\ ContentOf(v) # c
    BY <1>5, VersionsKept DEF Stored
  <1> HIDE DEF c
  <1>12. Stored(ContentOf(Len(version)))' = {n}
    <2>1. ContentOf(Len(version))' = c
      BY <1>9, <1>10 DEF ContentOf
    <2> QED BY <1>8, <1>10, <1>11, <2>1 DEF Stored
  <1>13. Valid(ContentOf(Len(version)))'
    BY <1>7, <1>9, <1>10 DEF ContentOf
  <1>14. Cardinality({n}) = 1
    BY FS_Singleton
  <1> QED BY <1>12, <1>13, <1>14

\* SoundVersions: import_canonical (canonical_import_service.py) only ever stores content
\* that passed validation when its build, merge or reconciliation wrote it, and never stores
\* the same content twice, whatever the crawls observed.
THEOREM SoundVersions == Spec => StoredVersionsAreSound
  <1>1. Typed /\ Sourced /\ [Next]_vars =>
          [Len(version') > Len(version) =>
             (Valid(ContentOf(Len(version))) /\ Cardinality(Stored(ContentOf(Len(version)))) = 1)']_vars
    BY StepSound
  <1> QED BY <1>1, InitTyped, InitSourced, StepTyped, StepSourced, PTL DEF Spec, StoredVersionsAreSound

-----------------------------------------------------------------------------
(* Decisions.                                                              *)

\* What a reconciliation was made from is on record from its commit on, and no review of
\* the candidate is about to change it, unless one slipped in before its success.
Recorded ==
    \A j \in DOMAIN job :
        job[j].kind = "reconcile" /\ job[j].status \in {"done", "succeeded"} =>
            /\ Prepared(job[j].raw)
            /\ job[j].raw \notin overtaken =>
                  /\ job[j].taken = review[job[j].raw].decision
                  /\ change # None => change.candidate # job[j].raw

\* Nothing is reconciled at the start.
LEMMA InitRecorded == Init => Recorded
  <1> SUFFICES ASSUME Init PROVE Recorded
    OBVIOUS
  <1> DEFINE a == [NewJob("build", FullScope, 0, 0, 0) EXCEPT
                    !.status = "succeeded", !.content = FirstContent]
             b == [NewJob("import", FullScope, 1, 0, 0) EXCEPT
                    !.status = "succeeded", !.version = 1, !.fresh = TRUE]
  <1>1. a.kind = "build" /\ b.kind = "import"
    BY DEF NewJob
  <1>2. job = <<a, b>>
    BY DEF Init
  <1> HIDE DEF a, b
  <1> QED BY <1>1, <1>2 DEF Recorded

\* What a step does to the review sets and to the decisions about to be taken.
LEMMA PersonReviews ==
    ASSUME [Next]_vars
    PROVE  \/ UNCHANGED <<review, overtaken>> /\ (UNCHANGED change \/ change' = None)
           \/ \E v \in Versions : Prepare(v)
           \/ \E v \in DOMAIN review : \E i \in DOMAIN review[v].decision :
                 \E x \in Operations : LockDecision(v, i, x)
           \/ CommitDecision
  <1>1. Submit => UNCHANGED <<review, overtaken, change>>
    BY DEF Submit, QueueBuild, QueueMerge, QueueImport, QueueReconcile, QueueReimport, Enqueue
  <1>2. Work => UNCHANGED <<review, overtaken, change>>
    BY DEF Work, RunBuild, RunMerge, RunImport, RunReconcile, RunReimport, Succeed
  <1>3. Restart => UNCHANGED <<review, overtaken>> /\ change' = None
    BY DEF Restart
  <1>4. \A v : PromoteBootstrap(v) \/ PromoteReplacement(v) => UNCHANGED <<review, overtaken, change>>
    BY DEF PromoteBootstrap, PromoteReplacement, Activate
  <1> QED BY <1>1, <1>2, <1>3, <1>4 DEF Next, Person, vars

\* Every step keeps the record of the decisions taken.
LEMMA StepRecorded ==
    ASSUME Typed, Sourced, Recorded, [Next]_vars
    PROVE  Recorded'
  <1> SUFFICES ASSUME NEW j \in DOMAIN job', job'[j].kind = "reconcile",
                      job'[j].status \in {"done", "succeeded"}
               PROVE  /\ job'[j].raw \in DOMAIN review'
                      /\ job'[j].raw \notin overtaken' =>
                            /\ job'[j].taken = review'[job'[j].raw].decision
                            /\ change' # None => change'.candidate # job'[j].raw
    BY DEF Recorded, Prepared
  <1>1. CASE Reconciles(j)
    BY <1>1 DEF Reconciles, Runs, SetValid, Prepared, Taken
  <1>2. CASE ~Reconciles(j)
    <2>1. /\ j \in DOMAIN job /\ job[j].kind = "reconcile" /\ job'[j].raw = job[j].raw
          /\ job[j].status \in {"done", "succeeded"} /\ job'[j].taken = job[j].taken
          /\ job'[j].status = "done" => job[j].status = "done"
          /\ job[j].status = "succeeded" => job'[j].status = "succeeded"
      <3>1. Kept(j) \/ Ends(j) \/ Makes(j) \/ Imports(j)
        BY <1>2, StepRow DEF Queues
      <3>2. j \in DOMAIN job
        BY <3>1 DEF Kept, Ends, Makes, Imports, Runs, Open
      <3>3. job'[j].kind = job[j].kind /\ job'[j].raw = job[j].raw
        BY <3>2, StepRows DEF RowsKept
      <3> QED BY <3>1, <3>2, <3>3 DEF Kept, Ends, Makes, Imports
    <2> DEFINE v == job[j].raw
    <2>2. /\ v \in DOMAIN review
          /\ v \notin overtaken =>
                job[j].taken = review[v].decision /\ (change # None => change.candidate # v)
      BY <2>1 DEF Recorded, Prepared
    <2> HIDE DEF v
    <2> SUFFICES /\ v \in DOMAIN review'
                 /\ v \notin overtaken' =>
                       job[j].taken = review'[v].decision /\ (change' # None => change'.candidate # v)
      BY <2>1 DEF v
    <2>3. CASE UNCHANGED <<review, overtaken>> /\ (UNCHANGED change \/ change' = None)
      BY <2>2, <2>3
    <2>4. ASSUME NEW w \in Versions, Prepare(w)
          PROVE  v \in DOMAIN review' /\ review'[v] = review[v] /\ UNCHANGED <<overtaken, change>>
      BY <2>2, <2>4 DEF Prepare, Prepared
    <2>5. ASSUME NEW w \in DOMAIN review, NEW i \in DOMAIN review[w].decision, NEW x,
                 LockDecision(w, i, x)
          PROVE  /\ UNCHANGED review /\ overtaken \subseteq overtaken' /\ change'.candidate = w
                 /\ v \notin overtaken' => w # v
      <3>1. UNCHANGED review /\ overtaken \subseteq overtaken' /\ change'.candidate = w /\ ~Consumed(w)
            /\ (Ending(w) => w \in overtaken')
        BY <2>5 DEF LockDecision
      <3>2. ASSUME w = v, v \notin overtaken' PROVE FALSE
        <4>1. v \notin overtaken /\ ~Ending(v)
          BY <3>1, <3>2
        <4>2. job[j].status = "succeeded"
          BY <2>1, <4>1 DEF Ending, v
        <4>3. i \in DOMAIN job[j].taken
          BY <2>2, <3>2, <4>1
        <4>4. Consumed(v)
          BY <2>1, <4>2, <4>3 DEF Consumed, Succeeded, v
        <4> QED BY <3>1, <3>2, <4>4
      <3> QED BY <3>1, <3>2
    <2>6. CASE CommitDecision
      <3>1. /\ DOMAIN review' = DOMAIN review /\ UNCHANGED overtaken /\ change' = None /\ change # None
            /\ \A w \in DOMAIN review \ {change.candidate} : review'[w] = review[w]
        BY <2>6 DEF CommitDecision
      <3> QED BY <2>2, <3>1
    <2> QED BY <2>2, <2>3, <2>4, <2>5, <2>6, PersonReviews
  <1> QED BY <1>1, <1>2

\* Decisions: the decisions a successful reconciliation took (_normalized_decisions) are those
\* the review set has for good, because removal_reconciliation_review_service.py locks the
\* decision and refuses the change of a consumed set; only a review between the commit and
\* the success of the job escapes, which overtaken records.
THEOREM Decisions == Spec => []DecisionsAreFinal
  <1>1. Recorded => DecisionsAreFinal
    BY DEF Recorded, DecisionsAreFinal, Succeeded
  <1> QED BY <1>1, InitTyped, InitSourced, InitRecorded, StepTyped, StepSourced, StepRecorded, PTL DEF Spec

-----------------------------------------------------------------------------
(* Origins.                                                                *)

\* Exactly one row claims to have stored a version; it is being ended, ended well, or was
\* ended by a restart that left the version without an origin.
Traced ==
    /\ \A j \in DOMAIN job : job[j].fresh =>
          /\ job[j].version \in Versions /\ job[j].status # "queued"
          /\ job[j].status = "failed" => job[j].version \in orphaned
    /\ \A i, j \in DOMAIN job :
          job[i].fresh /\ job[j].fresh /\ job[i].version = job[j].version => i = j
    /\ \A v \in Versions : \E j \in DOMAIN job : job[j].fresh /\ job[j].version = v

\* The first version has its import.
LEMMA InitTraced == Init => Traced
  <1> SUFFICES ASSUME Init PROVE Traced
    OBVIOUS
  <1> DEFINE a == [NewJob("build", FullScope, 0, 0, 0) EXCEPT
                    !.status = "succeeded", !.content = FirstContent]
             b == [NewJob("import", FullScope, 1, 0, 0) EXCEPT
                    !.status = "succeeded", !.version = 1, !.fresh = TRUE]
  <1>1. ~a.fresh /\ b.fresh /\ b.version = 1 /\ b.status = "succeeded"
    BY DEF NewJob
  <1>2. job = <<a, b>>
    BY DEF Init
  <1>3. Versions = {1}
    BY DEF Init, Versions
  <1> HIDE DEF a, b
  <1> QED BY <1>1, <1>2, <1>3 DEF Traced

\* Every step keeps one import per version.
LEMMA StepTraced ==
    ASSUME Typed, Sourced, Traced, [Next]_vars
    PROVE  Traced'
  <1>1. orphaned \subseteq orphaned'
    <2>1. Submit => UNCHANGED orphaned
      BY DEF Submit, QueueBuild, QueueMerge, QueueImport, QueueReconcile, QueueReimport, Enqueue
    <2>2. Work => UNCHANGED orphaned
      BY DEF Work, RunBuild, RunMerge, RunImport, RunReconcile, RunReimport, Succeed
    <2>3. Restart => orphaned \subseteq orphaned'
      BY DEF Restart
    <2> QED BY <2>1, <2>2, <2>3, PersonKeepsRows DEF Next, vars
  <1>2. Versions \subseteq Versions' /\ DOMAIN job \subseteq DOMAIN job'
    BY VersionsKept, StepRows DEF RowsKept
  <1>3. ASSUME NEW j \in DOMAIN job, job[j].fresh
        PROVE  /\ job'[j].fresh /\ job'[j].version = job[j].version /\ job'[j].status # "queued"
               /\ job'[j].status = "failed" => job'[j].version \in orphaned'
    <2>1. /\ job[j].version \in Versions /\ job[j].status # "queued"
          /\ job[j].status = "failed" => job[j].version \in orphaned
      BY <1>3 DEF Traced
    <2>2. Kept(j) \/ Ends(j)
      BY <1>2, <2>1, StepRow DEF Queues, Makes, Reconciles, Imports, Runs
    <2> QED BY <1>1, <1>3, <2>1, <2>2 DEF Kept, Ends
  <1>4. ASSUME NEW j \in DOMAIN job', job'[j].fresh
        PROVE  \/ j \in DOMAIN job /\ job[j].fresh
               \/ /\ j = Current /\ job'[j].status = "done" /\ job'[j].version = Len(version) + 1
                  /\ Stores(job'[j].source) /\ job'[j].source \in Nat
    <2>1. CASE Imports(j)
      <3>1. job'[j].source = job[j].source /\ job[j].source \in Nat
        BY <2>1, StepRows, RowFacts DEF Imports, Runs, RowsKept, Row
      <3> QED BY <1>4, <2>1, <3>1 DEF Imports, Runs
    <2>2. CASE ~Imports(j)
      BY <1>4, <2>2, StepRow DEF Kept, Queues, Ends, Makes, Reconciles, Runs, Open
    <2> QED BY <2>1, <2>2
  <1>5. ASSUME NEW j \in DOMAIN job', job'[j].fresh
        PROVE  /\ job'[j].version \in Versions' /\ job'[j].status # "queued"
               /\ job'[j].status = "failed" => job'[j].version \in orphaned'
    <2>1. CASE j \in DOMAIN job /\ job[j].fresh
      BY <1>2, <1>3, <2>1 DEF Traced
    <2>2. CASE Stores(job'[j].source) /\ job'[j].source \in Nat /\ job'[j].status = "done"
               /\ job'[j].version = Len(version) + 1
      BY <2>2, StoreFacts
    <2> QED BY <1>4, <1>5, <2>1, <2>2
  <1>6. ASSUME NEW i \in DOMAIN job', NEW j \in DOMAIN job', job'[i].fresh, job'[j].fresh,
               job'[i].version = job'[j].version
        PROVE  i = j
    <2>1. Len(version) + 1 \notin Versions
      BY RowFacts
    <2>2. \A k \in DOMAIN job : job[k].fresh => job[k].version \in Versions
      BY DEF Traced
    <2> QED BY <1>3, <1>4, <1>6, <2>1, <2>2 DEF Traced
  <1>7. ASSUME NEW v \in Versions' PROVE \E j \in DOMAIN job' : job'[j].fresh /\ job'[j].version = v
    <2>1. CASE v \in Versions
      <3>1. PICK j \in DOMAIN job : job[j].fresh /\ job[j].version = v
        BY <2>1 DEF Traced
      <3> QED BY <1>2, <1>3, <3>1
    <2>2. CASE v \notin Versions
      <3>1. RunImport \/ RunReimport
        BY <2>2, StepVersions, ActivateFacts DEF Versions
      <3>2. PICK B : \E row \in Row(B) : /\ Goes(row) /\ row.fresh /\ row.version = Len(version) + 1
                                         /\ Stores(row.source)
        BY <2>2, <3>1, ImportFacts DEF Versions, Stores
      <3>3. PICK row \in Row(B) : /\ Goes(row) /\ row.fresh /\ row.version = Len(version) + 1
                                  /\ Stores(row.source)
        BY <3>2
      <3>4. row.source \in Nat /\ v = Len(version) + 1
        <4>1. row.source \in Nat
          BY DEF Row
        <4> QED BY <2>2, <3>3, <4>1, StoreFacts
      <3>5. Current \in DOMAIN job' /\ job'[Current] = row
        BY <3>3, GoesKept
      <3> QED BY <3>3, <3>4, <3>5
    <2> QED BY <2>1, <2>2
  <1> QED BY <1>5, <1>6, <1>7 DEF Traced, Versions

-----------------------------------------------------------------------------
(* Removals.                                                               *)

\* Active picks the ACTIVE version when there is one.
LEMMA ActiveIs ==
    ASSUME Active # 0 PROVE Active \in Versions /\ version[Active].status = "active"
  <1>1. PICK v : v \in WithStatus("active")
    BY DEF Active
  <1>2. (CHOOSE x \in WithStatus("active") : TRUE) \in WithStatus("active")
    BY <1>1
  <1> QED BY <1>1, <1>2, Zenon DEF Active, WithStatus

\* Version v, IMPORTED so far, becomes the ACTIVE one.
Promotes(v) ==
    /\ Activate(v) /\ IsImported(v) /\ Active' = v /\ v # 0
    /\ PromoteBootstrap(v) \/ PromoteReplacement(v)

\* A promotion makes its version the ACTIVE one.
LEMMA PromotionFacts ==
    ASSUME Typed, NEW v \in Versions, PromoteBootstrap(v) \/ PromoteReplacement(v)
    PROVE  Promotes(v)
  <1> DEFINE Pick(S) == IF S = {} THEN 0 ELSE CHOOSE w \in S : TRUE
  <1>0. Active' = Pick(WithStatus("active")')
    BY Zenon DEF Active
  <1> HIDE DEF Pick
  <1>1. Activate(v) /\ IsImported(v)
    BY DEF PromoteBootstrap, PromoteReplacement
  <1>2. /\ Versions' = Versions /\ version'[v].status = "active"
        /\ \A w \in Versions \ {v} : version'[w].status # "active"
    BY <1>1, ActivateFacts DEF IsActive, WithStatus
  <1>3. \A x : x \in WithStatus("active")' <=> x = v
    BY <1>2 DEF WithStatus
  <1>4. WithStatus("active")' = {v}
    BY <1>3
  <1>5. Active' = v
    BY <1>0, <1>4 DEF Pick
  <1> QED BY <1>1, <1>5, RowFacts DEF Promotes

\* ACTIVE stays and no confirmation is forgotten, or a version that was IMPORTED takes its
\* place.
LEMMA StepActive ==
    ASSUME Typed, Sourced, [Next]_vars
    PROVE  \/ Active' = Active /\ confirmed \subseteq confirmed'
           \/ \E v \in Versions : Promotes(v)
  <1> DEFINE Pick(S) == IF S = {} THEN 0 ELSE CHOOSE v \in S : TRUE
  <1>0. Active = Pick(WithStatus("active")) /\ Active' = Pick(WithStatus("active")')
    BY Zenon DEF Active
  <1> HIDE DEF Pick
  <1>1. ASSUME WithStatus("active")' = WithStatus("active") PROVE Active' = Active
    BY <1>0, <1>1
  <1>2. ASSUME NEW v \in Versions, PromoteBootstrap(v) \/ PromoteReplacement(v) PROVE Promotes(v)
    BY <1>2, PromotionFacts
  <1>3. ASSUME UNCHANGED version PROVE Active' = Active
    <2>1. WithStatus("active")' = WithStatus("active")
      BY <1>3 DEF WithStatus, Versions
    <2> QED BY <1>1, <2>1
  <1>4. ASSUME NEW d, Made(d), Stores(d) PROVE Active' = Active
    <2>1. d \in Nat
      BY <1>4, RowFacts DEF Made
    <2>2. /\ Versions' = Versions \cup {Len(version) + 1} /\ Len(version) + 1 \notin Versions
          /\ \A v \in Versions : version'[v] = version[v]
          /\ version'[Len(version) + 1] = [status |-> "imported", document |-> d]
      BY <1>4, <2>1, StoreFacts
    <2>3. WithStatus("active")' = WithStatus("active")
      BY <2>2 DEF WithStatus
    <2> QED BY <1>1, <2>3
  <1>5. \/ confirmed \subseteq confirmed'
        \/ \E v \in Versions : PromoteBootstrap(v) \/ PromoteReplacement(v)
    <2>1. Submit \/ Work \/ Restart => UNCHANGED confirmed
      BY DEF Submit, QueueBuild, QueueMerge, QueueImport, QueueReconcile, QueueReimport, Enqueue,
             Work, RunBuild, RunMerge, RunImport, RunReconcile, RunReimport, Succeed, Restart
    <2>2. CommitDecision => confirmed \subseteq confirmed'
      BY DEF CommitDecision
    <2>3. \A v \in Versions : Prepare(v) => UNCHANGED confirmed
      BY DEF Prepare
    <2>4. \A v, i, x : LockDecision(v, i, x) => UNCHANGED confirmed
      BY DEF LockDecision
    <2> QED BY <2>1, <2>2, <2>3, <2>4 DEF Next, Person, vars
  <1> QED BY <1>2, <1>3, <1>4, <1>5, StepVersions

\* What is published was named by a successful import, there is no archived version without an
\* ACTIVE one, and one published version at most is without an origin.
Sole ==
    /\ \A v \in Versions : version[v].status # "imported" => Namings(v) # {} /\ Active # 0
    /\ \A v, w \in Versions :
          /\ version[v].status # "imported" /\ version[w].status # "imported"
          /\ Origins(v) = {} /\ Origins(w) = {}
          => v = w

\* Nothing is published yet.
LEMMA InitSole == Init => Sole
  <1>1. Init => \A v \in Versions : version[v].status = "imported"
    BY DEF Init, Versions
  <1> QED BY <1>1 DEF Sole

\* A version keeps the imports that name it.
LEMMA NamingsKept ==
    ASSUME Typed, Sourced, [Next]_vars, NEW v
    PROVE  Namings(v) \subseteq Namings(v)' /\ Origins(v) \subseteq Origins(v)'
  <1>1. RowsKept
    BY StepRows
  <1>2. \A j \in DOMAIN job : job[j].status = "succeeded" => j \in DOMAIN job' /\ job'[j] = job[j]
    BY <1>1 DEF RowsKept
  <1> QED BY <1>2 DEF Namings, Origins

\* What a promotion publishes was named by a successful import, and has an origin unless
\* nothing was published before.
LEMMA PromotedIsNamed ==
    ASSUME NEW v, PromoteBootstrap(v) \/ PromoteReplacement(v)
    PROVE  Namings(v) # {} /\ (Active # 0 => Origins(v) # {})
  <1>1. CASE PromoteBootstrap(v)
    BY <1>1 DEF PromoteBootstrap, NamedByCanonical
  <1>2. CASE PromoteReplacement(v)
    <2>1. Governed(v)
      BY <1>2 DEF PromoteReplacement, ReconciledFor
    <2>2. CASE Origins(v) = {}
      <3>1. Cardinality(Origins(v)) = 0
        BY <2>2, FS_EmptySet
      <3> QED BY <2>1, <3>1 DEF Governed
    <2>3. CASE Origins(v) # {}
      BY <2>3 DEF Origins, Namings
    <2> QED BY <2>2, <2>3
  <1> QED BY <1>1, <1>2

\* Every step leaves at most one published version without an origin.
LEMMA StepSole ==
    ASSUME Typed, Sourced, Sole, [Next]_vars
    PROVE  Sole'
  <1> DEFINE Out(v) == v \in Versions /\ version[v].status # "imported"
  <1>1. \A v : Namings(v) \subseteq Namings(v)' /\ Origins(v) \subseteq Origins(v)'
    BY NamingsKept
  <1>2. CASE Active' = Active /\ ~(\E v \in Versions : Promotes(v))
    <2>1. \A v : Out(v)' => Out(v)
      <3>1. CASE UNCHANGED version
        BY <3>1 DEF Versions
      <3>2. ASSUME NEW d, Made(d), Stores(d) PROVE \A v : Out(v)' => Out(v)
        <4>1. d \in Nat
          BY <3>2, RowFacts DEF Made
        <4>2. /\ Versions' = Versions \cup {Len(version) + 1}
              /\ \A v \in Versions : version'[v] = version[v]
              /\ version'[Len(version) + 1] = [status |-> "imported", document |-> d]
          BY <3>2, <4>1, StoreFacts
        <4> QED BY <4>2
      <3> QED BY <1>2, <3>1, <3>2, StepVersions, PromotionFacts
    <2>2. \A v : Out(v) => Namings(v) # {} /\ Active # 0
      BY DEF Sole
    <2>3. \A v, w : Out(v) /\ Out(w) /\ Origins(v) = {} /\ Origins(w) = {} => v = w
      BY DEF Sole
    <2>4. \A v : Out(v)' => Namings(v)' # {} /\ Active' # 0
      BY <1>1, <1>2, <2>1, <2>2
    <2>5. \A v, w : Out(v)' /\ Out(w)' /\ Origins(v)' = {} /\ Origins(w)' = {} => v = w
      BY <1>1, <2>1, <2>3
    <2> QED BY <2>4, <2>5 DEF Sole
  <1>3. ASSUME NEW p \in Versions, Promotes(p) PROVE Sole'
    <2>1. /\ Versions' = Versions
          /\ \A w \in Versions \ {p} : version'[w].status # "imported" => version[w].status # "imported"
      BY <1>3, ActivateFacts DEF Promotes, IsActive, WithStatus
    <2>2. /\ PromoteBootstrap(p) \/ PromoteReplacement(p)
          /\ Active' = p /\ p # 0
      BY <1>3 DEF Promotes
    <2>3. Namings(p) # {} /\ (Active # 0 => Origins(p) # {})
      BY <2>2, PromotedIsNamed
    <2>4. ASSUME NEW v \in Versions', version'[v].status # "imported"
          PROVE  Namings(v)' # {} /\ Active' # 0
      <3>1. v = p \/ (v \in Versions /\ version[v].status # "imported")
        BY <2>1, <2>4
      <3>2. Namings(v) # {}
        BY <2>3, <3>1 DEF Sole
      <3> QED BY <1>1, <2>2, <3>2
    <2>5. ASSUME NEW v \in Versions', NEW w \in Versions',
                 version'[v].status # "imported", version'[w].status # "imported",
                 Origins(v)' = {}, Origins(w)' = {}
          PROVE  v = w
      <3>1. Origins(v) = {} /\ Origins(w) = {}
        BY <1>1, <2>5
      <3>2. CASE Active = 0
        <4>1. \A x \in Versions : version[x].status = "imported"
          BY <3>2 DEF Sole
        <4> QED BY <2>1, <2>5, <4>1
      <3>3. CASE Active # 0
        <4>1. v # p /\ w # p
          BY <2>3, <3>1, <3>3
        <4>2. /\ v \in Versions /\ version[v].status # "imported"
              /\ w \in Versions /\ version[w].status # "imported"
          BY <2>1, <2>5, <4>1
        <4> QED BY <3>1, <4>2 DEF Sole
      <3> QED BY <3>2, <3>3
    <2> QED BY <2>4, <2>5 DEF Sole
  <1> QED BY <1>2, <1>3, StepActive

\* Traceability: import_canonical skips a stored content without claiming it, so exactly one
\* successful import answers for a version, or is about to, or was cut off by a restart
\* between its commit and PipelineJobService.succeed.  A successful import names what
\* is published, and of the versions cut off from theirs one at most ever is: the bootstrap
\* gate accepts an import that only skipped the content, the replacement gate does not.
THEOREM Traceability == Spec => []OriginIsUnique
  <1>1. ASSUME Typed, Traced, Sole PROVE OriginIsUnique
    <2>0. /\ \A v \in Versions : IsImported(v) \/ Namings(v) # {}
          /\ \A v, w \in Versions :
                ~IsImported(v) /\ ~IsImported(w) /\ Origins(v) = {} /\ Origins(w) = {} => v = w
      BY <1>1 DEF Sole, IsImported, WithStatus
    <2> SUFFICES ASSUME NEW v \in Versions
                 PROVE  \/ v \in orphaned /\ Origins(v) = {}
                        \/ Governed(v)
                        \/ \E j \in Open : job[j].fresh /\ job[j].version = v
      BY <2>0 DEF OriginIsUnique
    <2>1. PICK j \in DOMAIN job : job[j].fresh /\ job[j].version = v
      BY <1>1 DEF Traced
    <2>2. Origins(v) \subseteq {j}
      BY <1>1, <2>1 DEF Origins, Namings, Traced
    <2>3. job[j].status \in {"queued", "done", "succeeded", "failed"}
      BY <1>1, RowFacts DEF Row
    <2>4. CASE job[j].status = "succeeded"
      <3>1. Origins(v) = {j}
        BY <2>1, <2>2, <2>4 DEF Origins, Namings
      <3>2. Cardinality({j}) = 1
        BY FS_Singleton
      <3> QED BY <3>1, <3>2 DEF Governed
    <2>5. CASE job[j].status = "failed"
      BY <1>1, <2>1, <2>2, <2>5 DEF Traced, Origins, Namings
    <2>6. CASE job[j].status \in {"queued", "done"}
      BY <2>1, <2>6 DEF Open
    <2> QED BY <2>3, <2>4, <2>5, <2>6
  <1> QED BY <1>1, InitTyped, InitSourced, InitTraced, InitSole, StepTyped, StepSourced, StepTraced,
             StepSole, PTL DEF Spec

\* A confirmation against the ACTIVE version stays on record while that version is ACTIVE.
LEMMA StillConfirmed ==
    ASSUME Typed, Sourced, [Next]_vars, NEW a \in Versions, version[a].status # "imported",
           NEW i, a = Active => i \in confirmed
    PROVE  a = Active' => i \in confirmed'
  BY StepActive DEF Promotes, IsImported, WithStatus

\* What a reconciliation has made of candidate raw and of base, the version to replace.
ResolvedRow(raw, base, taken, content) ==
    /\ {raw, base} \subseteq Versions
    /\ version[base].status # "imported"
    /\ DOMAIN taken = Removed(ContentOf(base), ContentOf(raw))
    /\ content = Reconciled(ContentOf(raw), ContentOf(base), {i \in DOMAIN taken : taken[i].value = Retain})
    /\ \A i \in DOMAIN taken :
          /\ taken[i].value \in {Retain, Remove}
          /\ taken[i].value = Remove /\ base = Active => i \in confirmed

\* Every reconciliation that committed.
Resolved ==
    \A j \in DOMAIN job :
        job[j].kind = "reconcile" /\ job[j].status \in {"done", "succeeded"} =>
            ResolvedRow(job[j].raw, job[j].base, job[j].taken, job[j].content)

\* The shape of a review set.
SetOf(v) == [active : Versions, decision : {review[v].decision}]

\* A set holds a decision on every item its candidate would remove from the version that
\* was ACTIVE when it was prepared, and its removals are confirmed while that one is ACTIVE.
Reviews ==
    /\ \A v \in DOMAIN review :
          /\ v \in Versions /\ review[v] \in SetOf(v)
          /\ version[review[v].active].status # "imported"
          /\ DOMAIN review[v].decision = Removed(ContentOf(review[v].active), ContentOf(v))
          /\ \A i \in DOMAIN review[v].decision :
                /\ Decision(v, i) \in Operations
                /\ Decision(v, i) = Remove /\ review[v].active = Active => i \in confirmed
    /\ change # None =>
          /\ change.candidate \in DOMAIN review /\ change.value \in Operations
          /\ change.item \in DOMAIN review[change.candidate].decision

\* The import of a version read the document the version names.
Documented ==
    \A j \in DOMAIN job : job[j].fresh => version[job[j].version].document = job[j].source

\* Every step keeps the document of a version with its import.
LEMMA StepDocumented ==
    ASSUME Typed, Sourced, Traced, Documented, [Next]_vars
    PROVE  Documented'
  <1> SUFFICES ASSUME NEW j \in DOMAIN job', job'[j].fresh
               PROVE  version'[job'[j].version].document = job'[j].source
    BY DEF Documented
  <1>1. CASE j \in DOMAIN job /\ job[j].fresh
    <2>1. job[j].version \in Versions /\ job[j].status # "queued"
      BY <1>1 DEF Traced
    <2>2. job'[j].source = job[j].source /\ job'[j].version = job[j].version
      BY <1>1, <2>1, StepRow, StepRows
         DEF Kept, Queues, Ends, Makes, Reconciles, Imports, Runs, RowsKept
    <2> QED BY <1>1, <2>1, <2>2, VersionsKept DEF Documented
  <1>2. CASE ~(j \in DOMAIN job /\ job[j].fresh)
    <2>1. Imports(j) /\ job'[j].version = Len(version) + 1 /\ Stores(job'[j].source)
      BY <1>2, StepRow DEF Kept, Queues, Ends, Makes, Reconciles, Imports, Runs, Open
    <2>2. job'[j].source = job[j].source /\ job[j].source \in Nat
      BY <2>1, StepRows, RowFacts DEF Imports, Runs, RowsKept, Row
    <2>3. PICK d : d = job'[j].source
      OBVIOUS
    <2>4. version'[Len(version) + 1] = [status |-> "imported", document |-> d]
      BY <2>1, <2>2, <2>3, StoreFacts
    <2> QED BY <2>1, <2>3, <2>4
  <1> QED BY <1>1, <1>2

\* What a reconciliation has made of two versions stays so.
LEMMA ResolvedKept ==
    ASSUME Typed, Sourced, [Next]_vars, NEW raw, NEW base, NEW taken, NEW content,
           ResolvedRow(raw, base, taken, content)
    PROVE  ResolvedRow(raw, base, taken, content)'
  <1>1. /\ raw \in Versions /\ base \in Versions /\ version[base].status # "imported"
        /\ DOMAIN taken = Removed(ContentOf(base), ContentOf(raw))
        /\ content = Reconciled(ContentOf(raw), ContentOf(base),
                                {i \in DOMAIN taken : taken[i].value = Retain})
        /\ \A i \in DOMAIN taken :
              /\ taken[i].value \in {Retain, Remove}
              /\ taken[i].value = Remove => (base = Active => i \in confirmed)
    BY DEF ResolvedRow
  <1>2. /\ ContentOf(raw)' = ContentOf(raw) /\ ContentOf(base)' = ContentOf(base)
        /\ raw \in Versions' /\ base \in Versions' /\ version'[base].status # "imported"
    BY <1>1, VersionsKept
  <1>3. ASSUME NEW i \in DOMAIN taken, taken[i].value = Remove, base = Active'
        PROVE  i \in confirmed'
    BY <1>1, <1>3, StillConfirmed
  <1> QED BY <1>1, <1>2, <1>3 DEF ResolvedRow

\* A reconciliation resolves every removal of its review set.
LEMMA StepResolved ==
    ASSUME Typed, Sourced, Reviews, Resolved, [Next]_vars
    PROVE  Resolved'
  <1> SUFFICES ASSUME NEW j \in DOMAIN job', job'[j].kind = "reconcile",
                      job'[j].status \in {"done", "succeeded"}
               PROVE  ResolvedRow(job[j].raw, job[j].base, job[j].taken, job[j].content)'
    BY DEF Resolved
  <1>1. PICK raw, base, taken, content :
            raw = job'[j].raw /\ base = job'[j].base /\ taken = job'[j].taken /\ content = job'[j].content
    OBVIOUS
  <1>2. ASSUME Reconciles(j) PROVE ResolvedRow(raw, base, taken, content)
    <2>1. /\ SetValid(raw) /\ base = Active /\ Decided(raw)
          /\ content = Exported(raw) /\ taken = review[raw].decision
      BY <1>1, <1>2 DEF Reconciles, Runs, Taken
    <2>2. raw \in DOMAIN review /\ review[raw].active = Active /\ Active # 0
      BY <2>1 DEF SetValid, Prepared, StillReviewable, Plannable
    <2>3. \A i \in DOMAIN taken : Decision(raw, i) = taken[i].value /\ taken[i].value \in {Retain, Remove}
      BY <2>1, <2>2 DEF Reviews, Decided, Operations, Decision
    <2>4. raw \in Versions /\ base \in Versions /\ version[base].status # "imported"
      BY <2>1, <2>2, ActiveIs DEF Reviews
    <2>5. DOMAIN taken = Removed(ContentOf(base), ContentOf(raw))
      BY <2>1, <2>2 DEF Reviews
    <2>6. \A i \in DOMAIN taken : taken[i].value = Remove /\ base = Active => i \in confirmed
      BY <2>1, <2>2, <2>3 DEF Reviews
    <2>7. content = Reconciled(ContentOf(raw), ContentOf(base), {i \in DOMAIN taken : taken[i].value = Retain})
      <3>1. {i \in DOMAIN Taken(raw) : Decision(raw, i) = Retain} = {i \in DOMAIN taken : taken[i].value = Retain}
        BY <2>1, <2>3 DEF Taken
      <3> QED BY <2>1, <3>1 DEF Exported
    <2> QED BY <2>3, <2>4, <2>5, <2>6, <2>7 DEF ResolvedRow
  <1>3. ASSUME ~Reconciles(j) PROVE ResolvedRow(raw, base, taken, content)
    <2>1. /\ j \in DOMAIN job /\ job[j].status \in {"done", "succeeded"}
          /\ job'[j].taken = job[j].taken /\ job'[j].content = job[j].content
      BY <1>3, StepRow DEF Kept, Queues, Ends, Makes, Imports, Open
    <2>2. job[j].kind = "reconcile" /\ job[j].raw = raw /\ job[j].base = base
      BY <1>1, <2>1, StepRows DEF RowsKept
    <2>3. job[j].taken = taken /\ job[j].content = content
      BY <1>1, <2>1
    <2> QED BY <2>1, <2>2, <2>3 DEF Resolved
  <1>4. ResolvedRow(raw, base, taken, content)
    BY <1>2, <1>3
  <1>5. ResolvedRow(raw, base, taken, content)'
    BY <1>4, ResolvedKept
  <1> QED BY <1>1, <1>5 DEF ResolvedRow

\* There is no review, confirmation or reconciliation at the start.
LEMMA PlainInit ==
    ASSUME Init PROVE /\ DOMAIN review = {} /\ change = None /\ confirmed = {}
                      /\ \A j \in DOMAIN job : job[j].kind # "reconcile"
                      /\ Documented
  <1> DEFINE a == [NewJob("build", FullScope, 0, 0, 0) EXCEPT
                    !.status = "succeeded", !.content = FirstContent]
             b == [NewJob("import", FullScope, 1, 0, 0) EXCEPT
                    !.status = "succeeded", !.version = 1, !.fresh = TRUE]
  <1>1. a.kind = "build" /\ ~a.fresh /\ b.kind = "import" /\ b.version = 1 /\ b.source = 1
    BY DEF NewJob
  <1>2. job = <<a, b>> /\ version[1].document = 1
    BY DEF Init
  <1> HIDE DEF a, b
  <1>3. DOMAIN review = {} /\ change = None /\ confirmed = {}
    BY DEF Init
  <1> QED BY <1>1, <1>2, <1>3 DEF Documented

\* The three parts about removals hold at the start.
LEMMA InitRemovals == Init => Resolved /\ Reviews /\ Documented
  BY PlainInit DEF Resolved, Reviews

\* A review set and the decisions in it, at a value of them.
SetRow(v, set) ==
    /\ v \in Versions /\ set \in [active : Versions, decision : {set.decision}]
    /\ version[set.active].status # "imported"
    /\ DOMAIN set.decision = Removed(ContentOf(set.active), ContentOf(v))
    /\ \A i \in DOMAIN set.decision :
          /\ set.decision[i].value \in Operations
          /\ set.decision[i].value = Remove /\ set.active = Active => i \in confirmed

\* What is true of a review set stays true while it is not changed.
LEMMA SetKept ==
    ASSUME Typed, Sourced, [Next]_vars, NEW v, NEW set, SetRow(v, set)
    PROVE  SetRow(v, set)'
  <1>1. /\ v \in Versions /\ set.active \in Versions /\ version[set.active].status # "imported"
        /\ DOMAIN set.decision = Removed(ContentOf(set.active), ContentOf(v))
        /\ set \in [active : Versions, decision : {set.decision}]
        /\ \A i \in DOMAIN set.decision :
              /\ set.decision[i].value \in Operations
              /\ set.decision[i].value = Remove => (set.active = Active => i \in confirmed)
    BY DEF SetRow
  <1>2. /\ ContentOf(v)' = ContentOf(v) /\ ContentOf(set.active)' = ContentOf(set.active)
        /\ v \in Versions' /\ set.active \in Versions' /\ version'[set.active].status # "imported"
        /\ Versions \subseteq Versions'
    BY <1>1, VersionsKept
  <1>3. ASSUME NEW i \in DOMAIN set.decision, set.decision[i].value = Remove, set.active = Active'
        PROVE  i \in confirmed'
    BY <1>1, <1>3, StillConfirmed
  <1>4. set \in [active : Versions', decision : {set.decision}]
    BY <1>1, <1>2
  <1> QED BY <1>1, <1>2, <1>3, <1>4 DEF SetRow

\* A decision does not change the ACTIVE version.
LEMMA CommitKeepsActive ==
    ASSUME Typed, Sourced, [Next]_vars, CommitDecision
    PROVE  Active' = Active
  <1>1. ASSUME NEW v \in Versions, Promotes(v) PROVE FALSE
    <2>1. version'[v].status = "active" /\ version[v].status = "imported"
      BY <1>1, ActivateFacts DEF Promotes, IsImported, WithStatus
    <2> QED BY <2>1 DEF CommitDecision
  <1> QED BY <1>1, StepActive

\* Every step keeps the review sets complete.
LEMMA StepReviews ==
    ASSUME Typed, Sourced, Reviews, [Next]_vars
    PROVE  Reviews'
  <1>0. \A v \in DOMAIN review : SetRow(v, review[v])
    BY DEF Reviews, SetRow, SetOf, Decision
  <1>1. \A v, set : SetRow(v, set) => SetRow(v, set)'
    BY SetKept
  <1> DEFINE Sets == \A v \in DOMAIN review' : \E set : set = review'[v] /\ SetRow(v, set)'
             ChangeHeld == change' # None =>
                         /\ change'.candidate \in DOMAIN review' /\ change'.value \in Operations
                         /\ change'.item \in DOMAIN review'[change'.candidate].decision
  <1>2. ASSUME UNCHANGED review /\ (UNCHANGED change \/ change' = None)
        PROVE  Sets /\ ChangeHeld
    <2>1. ChangeHeld
      BY <1>2 DEF Reviews
    <2>2. Sets
      BY <1>0, <1>1, <1>2
    <2> QED BY <2>1, <2>2
  <1>3. ASSUME NEW v \in Versions, Prepare(v)
        PROVE  Sets /\ ChangeHeld
    <2>1. PICK set : set = [active |-> Active,
                            decision |-> [i \in PlannedRemovals(v) |-> [value |-> Pending, revision |-> 0]]]
      OBVIOUS
    <2>2. /\ v \notin DOMAIN review /\ DOMAIN review' = DOMAIN review \cup {v} /\ review'[v] = set
          /\ \A w \in DOMAIN review : review'[w] = review[w]
          /\ UNCHANGED change /\ Active # 0
      BY <1>3, <2>1 DEF Prepare, Prepared, Plannable
    <2>3. SetRow(v, set)
      <3>1. /\ set.active = Active /\ DOMAIN set.decision = PlannedRemovals(v)
            /\ \A i \in DOMAIN set.decision : set.decision[i].value = Pending
            /\ set \in [active : {Active}, decision : {set.decision}]
        BY <2>1
      <3>2. Pending # Remove /\ Pending \in Operations
        BY DEF Pending, Remove, Operations
      <3>3. Active \in Versions /\ version[Active].status # "imported"
        BY <2>2, ActiveIs
      <3>4. set \in [active : Versions, decision : {set.decision}]
        BY <3>1, <3>3
      <3> QED BY <1>3, <3>1, <3>2, <3>3, <3>4 DEF SetRow, PlannedRemovals
    <2>4. Sets
      BY <1>0, <1>1, <2>2, <2>3
    <2>5. ChangeHeld
      BY <2>2 DEF Reviews
    <2> QED BY <2>4, <2>5
  <1>4. ASSUME NEW v \in DOMAIN review, NEW i \in DOMAIN review[v].decision, NEW x \in Operations,
               LockDecision(v, i, x)
        PROVE  Sets /\ ChangeHeld
    <2>1. UNCHANGED review /\ change' = [candidate |-> v, item |-> i, value |-> x]
      BY <1>4 DEF LockDecision
    <2>2. change'.candidate = v /\ change'.item = i /\ change'.value = x
      BY <2>1
    <2>3. ChangeHeld
      BY <2>1, <2>2
    <2>4. Sets
      BY <1>0, <1>1, <2>1
    <2> QED BY <2>3, <2>4
  <1>5. ASSUME CommitDecision
        PROVE  Sets /\ ChangeHeld
    <2>1. PICK v, i, x : v = change.candidate /\ i = change.item /\ x = change.value
      OBVIOUS
    <2>2. v \in DOMAIN review /\ i \in DOMAIN review[v].decision /\ x \in Operations
      BY <1>5, <2>1 DEF CommitDecision, Reviews
    <2>3. PICK rev : rev = review[v].decision[i].revision + 1
      OBVIOUS
    <2>4. PICK dec : dec = [review[v].decision EXCEPT ![i] = [value |-> x, revision |-> rev]]
      OBVIOUS
    <2>5. PICK set : set = [review[v] EXCEPT !.decision = dec]
      OBVIOUS
    <2>6. /\ change' = None /\ DOMAIN review' = DOMAIN review
          /\ review' = [review EXCEPT ![v] = set]
          /\ confirmed' = IF x = Remove /\ review[v].active = Active THEN confirmed \cup {i} ELSE confirmed
          /\ UNCHANGED version
      BY <1>5, <2>1, <2>3, <2>4, <2>5 DEF CommitDecision
    <2>7. review'[v] = set /\ \A w \in DOMAIN review \ {v} : review'[w] = review[w]
      BY <2>2, <2>6
    <2>8. /\ DOMAIN dec = DOMAIN review[v].decision
          /\ dec[i].value = x
          /\ \A k \in DOMAIN dec \ {i} : dec[k] = review[v].decision[k]
      BY <2>2, <2>4
    <2>9. set.active = review[v].active /\ set.decision = dec /\ set \in [active : Versions, decision : {dec}]
      <3>1. review[v] \in [active : Versions, decision : {review[v].decision}]
        BY <2>2 DEF Reviews, SetOf
      <3> QED BY <2>5, <3>1
    <2>10. Active' = Active
      BY <1>5, CommitKeepsActive
    <2>11. SetRow(v, set)'
      <3>1. /\ v \in Versions /\ review[v].active \in Versions
            /\ version[review[v].active].status # "imported"
            /\ DOMAIN review[v].decision = Removed(ContentOf(review[v].active), ContentOf(v))
            /\ \A k \in DOMAIN review[v].decision :
                  /\ review[v].decision[k].value \in Operations
                  /\ review[v].decision[k].value = Remove /\ review[v].active = Active => k \in confirmed
        BY <1>0, <2>2 DEF SetRow, Reviews, SetOf
      <3>2. /\ v \in Versions' /\ set.active \in Versions' /\ version'[set.active].status # "imported"
            /\ ContentOf(v)' = ContentOf(v) /\ ContentOf(set.active)' = ContentOf(set.active)
            /\ Versions' = Versions
        <4>1. PICK a : a = set.active
          OBVIOUS
        <4>2. a \in Versions /\ version[a].status # "imported"
          BY <2>9, <3>1, <4>1
        <4>3. ContentOf(v)' = ContentOf(v) /\ ContentOf(a)' = ContentOf(a)
          BY <3>1, <4>2, VersionsKept
        <4> QED BY <2>6, <3>1, <4>1, <4>2, <4>3 DEF Versions
      <3>3. DOMAIN set.decision = Removed(ContentOf(set.active)', ContentOf(v)')
        BY <2>8, <2>9, <3>1, <3>2
      <3>4. ASSUME NEW k \in DOMAIN set.decision
            PROVE  /\ set.decision[k].value \in Operations
                   /\ set.decision[k].value = Remove /\ set.active = Active' => k \in confirmed'
        <4>1. CASE k = i
          BY <2>2, <2>6, <2>8, <2>9, <2>10, <4>1
        <4>2. CASE k # i
          BY <2>6, <2>8, <2>9, <2>10, <3>1, <4>2
        <4> QED BY <4>1, <4>2
      <3> QED BY <2>9, <3>2, <3>3, <3>4 DEF SetRow
    <2>12. Sets
      <3>1. ASSUME NEW w \in DOMAIN review \ {v} PROVE \E s : s = review'[w] /\ SetRow(w, s)'
        BY <1>0, <1>1, <2>7, <3>1
      <3> QED BY <2>6, <2>7, <2>11, <3>1
    <2> QED BY <2>6, <2>12
  <1>6. Sets /\ ChangeHeld
    <2> HIDE DEF Sets, ChangeHeld
    <2> QED BY <1>2, <1>3, <1>4, <1>5, PersonReviews
  <1> QED BY <1>6 DEF Reviews, SetRow, SetOf, Decision

\* Where the version of a successful reimport comes from.
LEMMA ReimportSource ==
    ASSUME Typed, Sourced, Documented, Resolved,
           NEW v \in Versions, Governed(v), job[Origin(v)].kind = "reimport"
    PROVE  /\ ContentOf(v) = Source(v).content
           /\ ResolvedRow(Source(v).raw, Source(v).base, Source(v).taken, Source(v).content)
  <1>1. Origins(v) # {}
    <2>1. CASE Origins(v) = {}
      <3>1. Cardinality(Origins(v)) = 0
        BY <2>1, FS_EmptySet
      <3> QED BY <3>1 DEF Governed
    <2> QED BY <2>1
  <1>2. PICK o : o = Origin(v)
    OBVIOUS
  <1>3. o \in Origins(v)
    BY <1>1, <1>2, Zenon DEF Origin
  <1>4. o \in DOMAIN job /\ job[o].version = v /\ job[o].fresh
    BY <1>3 DEF Origins, Namings
  <1>5. PICK s : s = job[o].source
    OBVIOUS
  <1>6. Made(s) /\ job[s].kind = "reconcile"
    BY <1>2, <1>4, <1>5 DEF Sourced
  <1>7. ContentOf(v) = job[s].content
    BY <1>4, <1>5 DEF Documented, ContentOf
  <1>8. ResolvedRow(job[s].raw, job[s].base, job[s].taken, job[s].content)
    BY <1>6 DEF Made, Resolved
  <1>9. Source(v) = job[s]
    BY <1>2, <1>5 DEF Source
  <1> QED BY <1>7, <1>8, <1>9

\* The document of a reimported version is its reconciliation.
LEMMA KeepsTheRest ==
    ASSUME Typed, Sourced, Documented, Resolved
    PROVE  NothingElseIsLost
  <1> SUFFICES ASSUME NEW v \in Versions, Governed(v), job[Origin(v)].kind = "reimport",
                      NEW i \in DOMAIN ContentOf(Source(v).base) \cup DOMAIN ContentOf(Source(v).raw)
               PROVE  \/ /\ i \in DOMAIN ContentOf(v)
                         /\ ContentOf(v)[i] = IF i \in DOMAIN ContentOf(Source(v).raw)
                                              THEN ContentOf(Source(v).raw)[i]
                                              ELSE ContentOf(Source(v).base)[i]
                      \/ i \in DOMAIN Source(v).taken /\ Source(v).taken[i].value = Remove
    BY DEF NothingElseIsLost
  <1>1. PICK raw, base, taken : raw = ContentOf(Source(v).raw) /\ base = ContentOf(Source(v).base)
                                /\ taken = Source(v).taken
    OBVIOUS
  <1>2. /\ ContentOf(v) = Reconciled(raw, base, {k \in DOMAIN taken : taken[k].value = Retain})
        /\ DOMAIN taken = DOMAIN base \ DOMAIN raw
        /\ \A k \in DOMAIN taken : taken[k].value \in {Retain, Remove}
    BY <1>1, ReimportSource DEF ResolvedRow, Removed
  <1>3. CASE i \in DOMAIN raw
    BY <1>1, <1>2, <1>3 DEF Reconciled
  <1>4. CASE i \in DOMAIN taken
    BY <1>1, <1>2, <1>4 DEF Reconciled
  <1> QED BY <1>1, <1>2, <1>3, <1>4

\* Preservation: a version reimported from a reconciliation has everything its candidate had
\* and everything retained as ACTIVE had it; what is missing was decided "confirmed_remove".
THEOREM Preservation == Spec => []NothingElseIsLost
  BY KeepsTheRest, InitTyped, InitSourced, InitTraced, InitRemovals, StepTyped, StepSourced, StepTraced,
     StepReviews, StepResolved, StepDocumented, PTL DEF Spec

-----------------------------------------------------------------------------
(* Scopes.                                                                 *)

\* What the crawls observe are contents: canonical ids with their payloads.
Said(c) == DOMAIN c \subseteq Item /\ \A i \in DOMAIN c : c[i] \in Payload

\* A merge put a partial crawl of scope s into the version it was pinned to.
MergedRow(base, s, content) ==
    /\ base \in Versions
    /\ \E part : /\ Said(part) /\ Mergeable(ContentOf(base), part, s)
                 /\ content = Merged(ContentOf(base), part, s)

\* A reconciled candidate has its import, and was merged into the version it is to replace.
PinnedRow(raw, base) == CanonicalOrigin(raw) /\ (MergedFrom(raw) => Source(raw).base = base)

\* The job committed.
Wrote(row, k) == row.kind = k /\ row.status \in {"done", "succeeded"}

\* A merge took the crawl of a build and put it into its base; a reconciliation is pinned to
\* the base of the merge that its candidate comes from.
RowMerges(row) ==
    /\ Wrote(row, "build") => Said(row.content)
    /\ row.kind = "merge" => Made(row.source) /\ job[row.source].kind = "build"
    /\ Wrote(row, "merge") => MergedRow(row.base, row.scope, row.content)
    /\ Wrote(row, "reconcile") => PinnedRow(row.raw, row.base)

\* Every row of the job table does.
Merges == \A row \in {job[j] : j \in DOMAIN job} : RowMerges(row)

\* Nothing is merged or reconciled at the start.
LEMMA InitMerges == Init => Merges
  <1> SUFFICES ASSUME Init PROVE Merges
    OBVIOUS
  <1> DEFINE a == [NewJob("build", FullScope, 0, 0, 0) EXCEPT
                    !.status = "succeeded", !.content = FirstContent]
             b == [NewJob("import", FullScope, 1, 0, 0) EXCEPT
                    !.status = "succeeded", !.version = 1, !.fresh = TRUE]
  <1>1. a.kind = "build" /\ b.kind = "import" /\ a.content = FirstContent
    BY DEF NewJob
  <1>2. job = <<a, b>>
    BY DEF Init
  <1> HIDE DEF a, b
  <1>3. Said(FirstContent)
    BY ObserveAssumption DEF Said
  <1>4. DOMAIN job = {1, 2} /\ job[1] = a /\ job[2] = b
    BY <1>2
  <1>5. RowMerges(a) /\ RowMerges(b)
    BY <1>1, <1>3 DEF RowMerges, Wrote
  <1> QED BY <1>4, <1>5 DEF Merges

\* A job keeps the scope it was queued with, and reports a version only if it is there.
LEMMA ColumnsKept ==
    ASSUME Typed, Sourced, [Next]_vars, NEW j \in DOMAIN job
    PROVE  /\ job'[j].scope = job[j].scope
           /\ job'[j].version = job[j].version \/ job'[j].version \in Versions'
  <1> DEFINE Good(r) == /\ r.scope = job[Current].scope
                        /\ r.version = job[Current].version \/ r.version \in Versions'
             Goal == /\ job'[j].scope = job[j].scope
                     /\ job'[j].version = job[j].version \/ job'[j].version \in Versions'
  <1>0. PICK B : \A i \in DOMAIN job : job[i] \in Row(B)
    BY RowFacts
  <1>1. ASSUME NEW r, Good(r), job' = [job EXCEPT ![Current] = r]
        PROVE  Goal
    BY <1>1 DEF Typed
  <1>2. CASE Submit
    BY <1>2, SubmitFacts, AppendFacts
  <1>3. ASSUME Open # {}, Fail \/ Succeed PROVE Goal
    <2>0. job[Current] \in Row(B)
      BY <1>0, <1>3, CurrentFacts
    <2>1. PICK x : job' = [job EXCEPT ![Current] = [job[Current] EXCEPT !.status = x]]
      BY <1>3, CurrentFacts DEF Fail, Succeed, Typed
    <2>2. PICK r : r = [job[Current] EXCEPT !.status = x]
      OBVIOUS
    <2>3. r.scope = job[Current].scope /\ r.version = job[Current].version
      BY <2>0, <2>2 DEF Row
    <2> QED BY <1>1, <2>1, <2>2, <2>3
  <1>4. ASSUME Open # {}, NEW x, NEW y,
               \/ Commit([job[Current] EXCEPT !.content = x])
               \/ Commit([job[Current] EXCEPT !.content = x, !.taken = y])
               \/ Commit([job[Current] EXCEPT !.version = x]) /\ x \in Versions'
               \/ Commit([job[Current] EXCEPT !.version = x, !.fresh = TRUE]) /\ x \in Versions'
        PROVE  Goal
    <2>0. job[Current] \in Row(B)
      BY <1>0, <1>4, CurrentFacts
    <2>1. PICK old : old = job[Current]
      OBVIOUS
    <2>2. PICK r : /\ Commit(r)
                   /\ \/ r = [old EXCEPT !.content = x]
                      \/ r = [old EXCEPT !.content = x, !.taken = y]
                      \/ r = [old EXCEPT !.version = x] /\ x \in Versions'
                      \/ r = [old EXCEPT !.version = x, !.fresh = TRUE] /\ x \in Versions'
      BY <1>4, <2>1
    <2>3. PICK row : row = [r EXCEPT !.status = "done"]
      OBVIOUS
    <2>4. row.scope = old.scope /\ (row.version = old.version \/ row.version \in Versions')
      <3>1. CASE r = [old EXCEPT !.content = x] \/ r = [old EXCEPT !.content = x, !.taken = y]
        BY <2>0, <2>1, <2>3, <3>1 DEF Row
      <3>2. CASE r = [old EXCEPT !.version = x] /\ x \in Versions'
        BY <2>0, <2>1, <2>3, <3>2 DEF Row
      <3>3. CASE r = [old EXCEPT !.version = x, !.fresh = TRUE] /\ x \in Versions'
        BY <2>0, <2>1, <2>3, <3>3 DEF Row
      <3> QED BY <2>2, <3>1, <3>2, <3>3
    <2>5. job' = [job EXCEPT ![Current] = row]
      BY <2>2, <2>3 DEF Commit
    <2> QED BY <1>1, <2>1, <2>4, <2>5
  <1>5. ASSUME RunBuild PROVE Goal
    <2>1. Open # {} /\ (Fail \/ \E c : Commit([job[Current] EXCEPT !.content = c]))
      BY <1>5 DEF RunBuild, Running
    <2> HIDE DEF Goal
    <2> QED BY <1>3, <1>4, <2>1
  <1>6. ASSUME RunMerge PROVE Goal
    <2>1. Open # {} /\ (Fail \/ \E c : Commit([job[Current] EXCEPT !.content = c]))
      BY <1>6 DEF RunMerge, Running
    <2> HIDE DEF Goal
    <2> QED BY <1>3, <1>4, <2>1
  <1>7. ASSUME RunReconcile PROVE Goal
    <2>1. Open # {} /\ (Fail \/ \E c, t : Commit([job[Current] EXCEPT !.content = c, !.taken = t]))
      BY <1>7 DEF RunReconcile, Running
    <2> HIDE DEF Goal
    <2> QED BY <1>3, <1>4, <2>1
  <1>8. ASSUME RunImport \/ RunReimport PROVE Goal
    <2>1. Open # {}
      BY <1>8 DEF RunImport, RunReimport, Running
    <2>2. Fail \/ \E c, d : Import(c, d)
      BY <1>8 DEF RunImport, RunReimport
    <2>3. ASSUME NEW c, NEW d, Import(c, d)
          PROVE  \E v : /\ v \in Versions'
                        /\ \/ Commit([job[Current] EXCEPT !.version = v])
                           \/ Commit([job[Current] EXCEPT !.version = v, !.fresh = TRUE])
      <3>1. CASE Stored(c) # {}
        <4>1. PICK v : v = CHOOSE w \in Stored(c) : TRUE
          OBVIOUS
        <4>2. v \in Versions'
          <5>1. v \in Stored(c)
            BY <3>1, <4>1
          <5> QED BY <5>1, VersionsKept DEF Stored
        <4>3. Commit([job[Current] EXCEPT !.version = v])
          BY <2>3, <3>1, <4>1 DEF Import
        <4> QED BY <4>2, <4>3
      <3>2. CASE Stored(c) = {}
        <4>1. Commit([job[Current] EXCEPT !.version = Len(version) + 1, !.fresh = TRUE])
          BY <2>3, <3>2 DEF Import
        <4>2. Len(version) + 1 \in Versions'
          BY <2>3, <3>2 DEF Import, Versions, Typed
        <4> QED BY <4>1, <4>2
      <3> QED BY <3>1, <3>2
    <2> HIDE DEF Goal
    <2> QED BY <1>3, <1>4, <2>1, <2>2, <2>3
  <1>9. CASE Restart
    <2>1. job'[j] = IF j \in Open THEN [job[j] EXCEPT !.status = "failed"] ELSE job[j]
      BY <1>9 DEF Restart
    <2> QED BY <1>0, <2>1 DEF Row
  <1>10. ASSUME Succeed PROVE Goal
    BY <1>3, <1>10 DEF Succeed
  <1>11. CASE UNCHANGED job
    BY <1>11
  <1> QED BY <1>2, <1>5, <1>6, <1>7, <1>8, <1>9, <1>10, <1>11, PersonKeepsRows DEF Next, vars, Work

\* A job that commits a build or a merge is run as one.
LEMMA RunsBy ==
    ASSUME Typed, [Next]_vars, NEW j, Runs(j), job'[j].status = "done"
    PROVE  /\ job[j].kind = "build" => RunBuild
           /\ job[j].kind = "merge" => RunMerge
  <1>0. j \in DOMAIN job /\ j = Current /\ job[j].status = "queued"
    BY DEF Runs
  <1>1. ~Submit /\ ~UNCHANGED job
    BY <1>0, SubmitFacts, AppendFacts
  <1>2. ~Succeed
    BY <1>0 DEF Succeed
  <1>3. ~Restart
    <2>1. j \in Open
      BY <1>0 DEF Open
    <2> QED BY <2>1, RestartFacts
  <1>4. RunBuild \/ RunMerge \/ RunImport \/ RunReconcile \/ RunReimport
    BY <1>1, <1>2, <1>3, PersonKeepsRows DEF Next, vars, Work
  <1>5. /\ RunBuild => job[j].kind = "build"
        /\ RunMerge => job[j].kind = "merge"
        /\ RunImport => job[j].kind = "import"
        /\ RunReconcile => job[j].kind = "reconcile"
        /\ RunReimport => job[j].kind = "reimport"
    BY <1>0 DEF RunBuild, RunMerge, RunImport, RunReconcile, RunReimport, Running
  <1> QED BY <1>4, <1>5

\* A build writes what the crawl observed, a merge what it made of its base and its source.
LEMMA MakesWhat ==
    ASSUME Typed, Sourced, Merges, [Next]_vars, NEW j \in DOMAIN job, Runs(j),
           job'[j].status = "done"
    PROVE  /\ job[j].kind = "build" => Said(job'[j].content)
           /\ job[j].kind = "merge" => MergedRow(job[j].base, job[j].scope, job'[j].content)
  <1>0. j = Current /\ job[j].status = "queued"
    BY DEF Runs
  <1>1. PICK B : job[j] \in Row(B)
    BY RowFacts
  <1>2. ASSUME NEW c, Commit([job[Current] EXCEPT !.content = c])
        PROVE  job'[j].content = c
    <2>1. [[job[j] EXCEPT !.content = c] EXCEPT !.status = "done"].content = c
      BY <1>1 DEF Row
    <2>2. job' = [job EXCEPT ![j] = [[job[j] EXCEPT !.content = c] EXCEPT !.status = "done"]]
      BY <1>0, <1>2 DEF Commit
    <2> QED BY <2>1, <2>2 DEF Typed
  <1>3. ~Fail
    <2>1. [job[j] EXCEPT !.status = "failed"].status = "failed"
      BY <1>1 DEF Row
    <2>2. Fail => job'[j] = [job[j] EXCEPT !.status = "failed"]
      BY <1>0 DEF Fail, Typed
    <2> QED BY <2>1, <2>2
  <1>4. ASSUME job[j].kind = "build" PROVE Said(job'[j].content)
    <2>1. RunBuild
      BY <1>4, RunsBy
    <2>2. job[j].scope \in Scopes
      BY <1>0, <1>4 DEF Sourced
    <2>3. PICK c \in Observe[job[j].scope] : Commit([job[Current] EXCEPT !.content = c])
      BY <1>0, <1>3, <2>1 DEF RunBuild
    <2>4. Said(c)
      BY <2>2, ObserveAssumption DEF Said
    <2> QED BY <1>2, <2>3, <2>4
  <1>5. ASSUME job[j].kind = "merge"
        PROVE  MergedRow(job[j].base, job[j].scope, job'[j].content)
    <2>1. RunMerge
      BY <1>5, RunsBy
    <2>2. PICK part, base, s : part = job[job[j].source].content /\ base = job[j].base /\ s = job[j].scope
      OBVIOUS
    <2>3. /\ IsActive(base) /\ Mergeable(ContentOf(base), part, s)
          /\ Commit([job[Current] EXCEPT !.content = Merged(ContentOf(base), part, s)])
      BY <1>0, <1>3, <2>1, <2>2 DEF RunMerge
    <2>4. job'[j].content = Merged(ContentOf(base), part, s)
      BY <1>2, <2>3
    <2>5. Said(part)
      BY <1>5, <2>2 DEF Merges, RowMerges, Made, Wrote
    <2>6. base \in Versions
      BY <2>3 DEF IsActive, WithStatus
    <2> QED BY <2>2, <2>3, <2>4, <2>5, <2>6 DEF MergedRow
  <1> QED BY <1>4, <1>5

\* What a merge wrote stays so.
LEMMA MergedKept ==
    ASSUME Typed, Sourced, [Next]_vars, NEW base, NEW s, NEW content, MergedRow(base, s, content)
    PROVE  MergedRow(base, s, content)'
  <1>1. base \in Versions /\ base \in Versions' /\ ContentOf(base)' = ContentOf(base)
    BY VersionsKept DEF MergedRow
  <1> QED BY <1>1 DEF MergedRow

\* The one job in a singleton.
LEMMA PickOne == \A o : (CHOOSE x \in {o} : TRUE) = o
  OBVIOUS

\* A version keeps its origin and the job its document comes from.
LEMMA PinnedKept ==
    ASSUME Typed, Sourced, Traced, [Next]_vars, NEW raw, NEW base, PinnedRow(raw, base)
    PROVE  PinnedRow(raw, base)'
  <1> DEFINE Pick(S) == CHOOSE w \in S : TRUE
  <1>0. Origin(raw) = Pick(Origins(raw)) /\ Origin(raw)' = Pick(Origins(raw)')
    BY Zenon DEF Origin
  <1>1. Origins(raw) # {}
    <2>1. CASE Origins(raw) = {}
      <3>1. Cardinality(Origins(raw)) = 0
        BY <2>1, FS_EmptySet
      <3> QED BY <3>1 DEF PinnedRow, CanonicalOrigin, Governed
    <2> QED BY <2>1
  <1>2. PICK o : o = Origin(raw)
    OBVIOUS
  <1>3. o \in Origins(raw)
    BY <1>0, <1>1, <1>2, Zenon
  <1>4. o \in DOMAIN job /\ job[o].version = raw /\ job[o].fresh /\ job[o].status = "succeeded"
    BY <1>3 DEF Origins, Namings
  <1>5. job[o].kind = "import"
    BY <1>2 DEF PinnedRow, CanonicalOrigin
  <1>6. PICK s : s = job[o].source
    OBVIOUS
  <1>7. Made(s) /\ job'[s] = job[s]
    BY <1>4, <1>5, <1>6, MadeKept DEF Sourced
  <1>8. o \in DOMAIN job' /\ job'[o] = job[o]
    BY <1>4, StepRows DEF RowsKept
  <1>9. Origins(raw)' = {o}
    <2>1. o \in Origins(raw)'
      BY <1>4, <1>8 DEF Origins, Namings
    <2>2. Traced'
      BY StepTraced
    <2>3. ASSUME NEW k \in Origins(raw)' PROVE k = o
      BY <1>4, <1>8, <2>2 DEF Origins, Namings, Traced
    <2> QED BY <2>1, <2>3
  <1>10. Origin(raw)' = o
    BY <1>0, <1>9, PickOne
  <1> HIDE DEF Pick
  <1>11. Governed(raw)'
    BY <1>9, FS_Singleton DEF Governed
  <1>12. CanonicalOrigin(raw)'
    BY <1>5, <1>8, <1>10, <1>11 DEF CanonicalOrigin
  <1>13. Source(raw) = job[s] /\ Source(raw)' = job[s]
    BY <1>2, <1>6, <1>7, <1>8, <1>10 DEF Source
  <1>14. MergedFrom(raw)' => job[s].kind = "merge"
    BY <1>13 DEF MergedFrom
  <1>15. job[s].kind = "merge" => job[s].base = base
    BY <1>13 DEF PinnedRow, MergedFrom
  <1> QED BY <1>12, <1>13, <1>14, <1>15 DEF PinnedRow

\* A merge is queued with the crawl of a build that succeeded.
LEMMA MergeQueued ==
    ASSUME Typed, Submit, NEW j \in DOMAIN job' \ DOMAIN job, job'[j].kind = "merge"
    PROVE  Made(job'[j].source) /\ job[job'[j].source].kind = "build"
  <1>0. \A r : job' = Append(job, r) => job'[j] = r
    <2> SUFFICES ASSUME NEW r, job' = Append(job, r) PROVE job'[j] = r
      OBVIOUS
    <2>1. Len(job) \in Nat /\ DOMAIN job = 1 .. Len(job)
      BY RowFacts
    <2>2. DOMAIN job' = 1 .. (Len(job) + 1) /\ job'[Len(job) + 1] = r
      BY DEF Typed
    <2> QED BY <2>1, <2>2
  <1>1. ASSUME NEW k, NEW s, NEW source, NEW base, NEW raw, Enqueue(NewJob(k, s, source, base, raw))
        PROVE  job'[j].kind = k /\ job'[j].source = source
    <2>1. job'[j] = NewJob(k, s, source, base, raw)
      BY <1>0, <1>1 DEF Enqueue
    <2> QED BY <2>1 DEF NewJob
  <1>2. ~\E s \in Scopes : QueueBuild(s)
    BY <1>1 DEF QueueBuild
  <1>3. ~\E v \in Versions : QueueReconcile(v)
    BY <1>1 DEF QueueReconcile
  <1>4. ~\E i \in DOMAIN job : QueueImport(i) \/ QueueReimport(i)
    BY <1>1 DEF QueueImport, QueueReimport
  <1>5. PICK i \in DOMAIN job : QueueMerge(i)
    BY <1>2, <1>3, <1>4 DEF Submit
  <1>6. job'[j].source = i
    BY <1>1, <1>5 DEF QueueMerge
  <1> QED BY <1>5, <1>6 DEF QueueMerge, Succeeded, Made, Makers

\* A row that is new was queued.
LEMMA NewRow ==
    ASSUME Typed, [Next]_vars, NEW j \in DOMAIN job' \ DOMAIN job
    PROVE  Submit
  <1>1. ~UNCHANGED job
    OBVIOUS
  <1>2. ASSUME RunBuild \/ RunMerge \/ RunReconcile \/ RunImport \/ RunReimport \/ Succeed \/ Restart
        PROVE  DOMAIN job' = DOMAIN job
    BY <1>2, CurrentFacts, RestartFacts
       DEF RunBuild, RunMerge, RunReconcile, RunImport, RunReimport, Succeed, Commit, Fail, Import
  <1> QED BY <1>1, <1>2, PersonKeepsRows DEF Next, vars, Work

\* Every step keeps what the merges and the reconciliations were made from.
LEMMA StepMerges ==
    ASSUME Typed, Sourced, Traced, Merges, [Next]_vars
    PROVE  Merges'
  <1> SUFFICES ASSUME NEW j \in DOMAIN job', NEW row, row = job'[j] PROVE RowMerges(row)'
    BY DEF Merges
  <1>0. PICK base, s, raw, content : base = row.base /\ s = row.scope /\ raw = row.raw
                                     /\ content = row.content
    OBVIOUS
  <1>1. ASSUME NEW d, Made(d), job[d].kind = "build"
        PROVE  Made(d)' /\ job'[d].kind = "build"
    BY <1>1, MadeKept
  <1>2. ASSUME row.kind = "merge"
        PROVE  Made(row.source)' /\ job'[row.source].kind = "build"
    <2>1. Made(row.source) /\ job[row.source].kind = "build"
      <3>1. CASE j \in DOMAIN job
        BY <1>2, <3>1, StepRows DEF RowsKept, Merges, RowMerges
      <3>2. CASE j \notin DOMAIN job
        BY <1>2, <3>2, NewRow, MergeQueued
      <3> QED BY <3>1, <3>2
    <2> QED BY <1>1, <2>1
  <1>3. ASSUME job'[j].status \in {"done", "succeeded"}
        PROVE  /\ j \in DOMAIN job /\ job[j].kind = job'[j].kind /\ job[j].base = base
               /\ job[j].raw = raw /\ job[j].scope = s
               /\ \/ job[j].status \in {"done", "succeeded"} /\ job[j].content = content
                  \/ Runs(j) /\ job'[j].status = "done"
    <2>1. \/ Kept(j) \/ Ends(j) \/ Runs(j)
      BY <1>3, StepRow DEF Queues, Makes, Reconciles, Imports
    <2>2. j \in DOMAIN job
      BY <2>1 DEF Kept, Ends, Runs, Open
    <2>3. /\ job'[j].kind = job[j].kind /\ job'[j].base = job[j].base
          /\ job'[j].raw = job[j].raw /\ job'[j].scope = job[j].scope
      BY <2>2, StepRows, ColumnsKept DEF RowsKept
    <2> QED BY <1>0, <1>3, <2>1, <2>2, <2>3 DEF Kept, Ends, Runs
  <1>4. ASSUME job'[j].status \in {"done", "succeeded"}, job'[j].kind = "build" PROVE Said(content)
    BY <1>0, <1>3, <1>4, MakesWhat DEF Merges, RowMerges, Wrote
  <1>5. ASSUME job'[j].status \in {"done", "succeeded"}, job'[j].kind = "merge"
        PROVE  MergedRow(base, s, content)'
    <2>1. MergedRow(base, s, content)
      BY <1>0, <1>3, <1>5, MakesWhat DEF Merges, RowMerges, Wrote
    <2> QED BY <2>1, MergedKept
  <1>6. ASSUME job'[j].status \in {"done", "succeeded"}, job'[j].kind = "reconcile"
        PROVE  PinnedRow(raw, base)'
    <2>1. CASE job[j].status \in {"done", "succeeded"}
      <3>1. PinnedRow(raw, base)
        BY <1>3, <1>6, <2>1 DEF Merges, RowMerges, Wrote
      <3> QED BY <3>1, PinnedKept
    <2>2. CASE Runs(j) /\ job'[j].status = "done"
      <3>1. Reconciles(j)
        BY <1>6, <2>2, StepRow DEF Kept, Queues, Ends, Makes, Imports, Runs
      <3>2. SetValid(raw) /\ base = Active
        BY <1>0, <2>2, <3>1 DEF Reconciles
      <3>3. PinnedRow(raw, base)
        BY <3>2 DEF SetValid, Plannable, PinnedRow
      <3> QED BY <3>3, PinnedKept
    <2> QED BY <1>3, <1>6, <2>1, <2>2
  <1> QED BY <1>0, <1>2, <1>4, <1>5, <1>6 DEF RowMerges, Wrote

\* What a merge of a partial crawl leaves alone.
LEMMA MergeKeeps ==
    ASSUME NEW old, NEW part, NEW s, Said(part), Mergeable(old, part, s)
    PROVE  /\ \A i \in Outside(old, s) :
                 i \in DOMAIN Merged(old, part, s) /\ Merged(old, part, s)[i] = old[i]
           /\ s.kind = "screen" =>
                 /\ s.target \in DOMAIN Merged(old, part, s)
                 /\ Merged(old, part, s)[s.target].at = old[s.target].at
  <1>1. Outside(old, s) \cap ScopeOf(part, s) = {} /\ s.target \in DOMAIN part
    BY DEF Mergeable
  <1>2. ASSUME NEW i \in Outside(old, s)
        PROVE  i \in DOMAIN Merged(old, part, s) /\ Merged(old, part, s)[i] = old[i]
    BY <1>1, <1>2 DEF Merged
  <1>3. ASSUME s.kind = "screen"
        PROVE  /\ s.target \in DOMAIN Merged(old, part, s)
               /\ Merged(old, part, s)[s.target].at = old[s.target].at
    <2>1. s.target \in ScopeOf(part, s)
      BY <1>3 DEF ScopeOf
    <2>2. Merged(old, part, s)[s.target] = Inserted(old, part, s, s.target)
      BY <2>1 DEF Merged
    <2>3. part[s.target] \in Payload
      BY <1>1 DEF Said
    <2>4. Inserted(old, part, s, s.target).at = KeptOwner(old, part[s.target], s, s.target)
      BY <2>3 DEF Inserted, Payload
    <2>5. KeptOwner(old, part[s.target], s, s.target) = old[s.target].at
      BY <1>3 DEF KeptOwner
    <2>6. s.target \in DOMAIN Merged(old, part, s)
      BY <2>1 DEF Merged
    <2> QED BY <2>2, <2>4, <2>5, <2>6
  <1> QED BY <1>2, <1>3

\* A version that becomes ACTIVE in the place of another replaces it.
LEMMA Replaces ==
    ASSUME Typed, Sourced, [Next]_vars, NEW v \in Versions, IsImported(v),
           version'[v].status = "active", Active # 0
    PROVE  PromoteReplacement(v)
  <1>0. version[v].status = "imported"
    BY DEF IsImported, WithStatus
  <1>1. ~UNCHANGED version
    BY <1>0
  <1>2. ASSUME NEW d, Made(d), Stores(d) PROVE FALSE
    <2>1. d \in Nat
      BY <1>2, RowFacts DEF Made
    <2> QED BY <1>0, <1>2, <2>1, StoreFacts
  <1>3. PICK w \in Versions : Activate(w) /\ (PromoteBootstrap(w) \/ PromoteReplacement(w))
    BY <1>1, <1>2, StepVersions
  <1>4. v = w
    BY <1>0, <1>3, ActivateFacts
  <1> QED BY <1>3, <1>4 DEF PromoteBootstrap

\* The document of a version with a canonical origin is that of its source.
LEMMA OriginFacts ==
    ASSUME Typed, Sourced, Documented, NEW v, CanonicalOrigin(v)
    PROVE  /\ \E d \in DOMAIN job : Made(d) /\ Source(v) = job[d]
           /\ ContentOf(v) = Source(v).content
  <1>1. Origins(v) # {}
    <2>1. CASE Origins(v) = {}
      <3>1. Cardinality(Origins(v)) = 0
        BY <2>1, FS_EmptySet
      <3> QED BY <3>1 DEF CanonicalOrigin, Governed
    <2> QED BY <2>1
  <1>2. PICK o : o = Origin(v)
    OBVIOUS
  <1>3. o \in Origins(v)
    BY <1>1, <1>2, Zenon DEF Origin
  <1>4. o \in DOMAIN job /\ job[o].version = v /\ job[o].fresh /\ job[o].kind = "import"
    BY <1>2, <1>3 DEF Origins, Namings, CanonicalOrigin
  <1>5. PICK d : d = job[o].source
    OBVIOUS
  <1>6. Made(d) /\ d \in DOMAIN job
    BY <1>4, <1>5 DEF Sourced, Made
  <1>7. Source(v) = job[d]
    BY <1>2, <1>5 DEF Source
  <1>8. version[v].document = d
    BY <1>4, <1>5 DEF Documented
  <1> QED BY <1>6, <1>7, <1>8 DEF ContentOf

\* A replacement that comes from a partial crawl keeps what is outside of its scope.
LEMMA ReplacementKeeps ==
    ASSUME Typed, Sourced, Documented, Resolved, Merges,
           NEW v \in Versions, PromoteReplacement(v),
           NEW raw, raw = Source(v).raw, MergedFrom(raw),
           NEW s, s = Source(raw).scope, NEW old, old = ContentOf(Active)
    PROVE  /\ \A i \in Outside(old, s) : i \in DOMAIN ContentOf(v) /\ ContentOf(v)[i] = old[i]
           /\ s.kind = "screen" => ContentOf(v)[s.target].at = old[s.target].at
  <1>1. /\ Governed(v) /\ job[Origin(v)].kind = "reimport" /\ Source(v).base = Active
    BY DEF PromoteReplacement, ReconciledFor
  <1>2. PICK kept : ContentOf(v) = Reconciled(ContentOf(raw), old, kept)
    BY <1>1, ReimportSource DEF ResolvedRow
  <1>3. PinnedRow(raw, Active)
    <2>1. PICK o, d : o = Origin(v) /\ d = job[o].source
      OBVIOUS
    <2>2. Source(v) = job[d]
      BY <2>1 DEF Source
    <2>3. Origins(v) # {}
      <3>1. CASE Origins(v) = {}
        <4>1. Cardinality(Origins(v)) = 0
          BY <3>1, FS_EmptySet
        <4> QED BY <1>1, <4>1 DEF Governed
      <3> QED BY <3>1
    <2>4. o \in Origins(v)
      BY <2>1, <2>3, Zenon DEF Origin
    <2>5. Made(d) /\ job[d].kind = "reconcile"
      BY <1>1, <2>1, <2>4 DEF Origins, Namings, Sourced
    <2>6. Wrote(job[d], "reconcile") /\ d \in DOMAIN job
      BY <2>5 DEF Made, Wrote
    <2>7. PinnedRow(job[d].raw, job[d].base)
      BY <2>6 DEF Merges, RowMerges
    <2> QED BY <1>1, <2>2, <2>7
  <1>4. PICK m \in DOMAIN job : Made(m) /\ Source(raw) = job[m]
    BY <1>3, OriginFacts DEF PinnedRow
  <1>5. job[m].kind = "merge" /\ job[m].base = Active /\ job[m].scope = s
        /\ ContentOf(raw) = job[m].content
    BY <1>3, <1>4, OriginFacts DEF PinnedRow, MergedFrom
  <1>6. MergedRow(Active, s, ContentOf(raw))
    BY <1>4, <1>5 DEF Merges, RowMerges, Wrote, Made
  <1>7. PICK part : /\ Said(part) /\ Mergeable(old, part, s)
                    /\ ContentOf(raw) = Merged(old, part, s)
    BY <1>6 DEF MergedRow
  <1>8. PICK c : c = ContentOf(raw)
    OBVIOUS
  <1>9. /\ \A i \in Outside(old, s) : i \in DOMAIN c /\ c[i] = old[i]
        /\ s.kind = "screen" => s.target \in DOMAIN c /\ c[s.target].at = old[s.target].at
    BY <1>7, <1>8, MergeKeeps
  <1>10. \A i \in DOMAIN c : i \in DOMAIN ContentOf(v) /\ ContentOf(v)[i] = c[i]
    BY <1>2, <1>8 DEF Reconciled
  <1> QED BY <1>9, <1>10

\* A step that publishes the result of a partial crawl changes nothing outside of its scope.
LEMMA StepScopes ==
    ASSUME Typed, Sourced, Documented, Resolved, Merges, [Next]_vars,
           NEW v \in Versions, IsImported(v), version'[v].status = "active", Active # 0
    PROVE  LET raw == Source(v).raw
               s == Source(raw).scope
               old == ContentOf(Active)
           IN MergedFrom(raw) =>
                 /\ \A i \in Outside(old, s) :
                        i \in DOMAIN ContentOf(v) /\ ContentOf(v)[i] = old[i]
                 /\ s.kind = "screen" => ContentOf(v)[s.target].at = old[s.target].at
  <1>1. PromoteReplacement(v)
    BY Replaces
  <1>2. PICK raw, s, old : raw = Source(v).raw /\ s = Source(raw).scope /\ old = ContentOf(Active)
    OBVIOUS
  <1>3. MergedFrom(raw) =>
            /\ \A i \in Outside(old, s) : i \in DOMAIN ContentOf(v) /\ ContentOf(v)[i] = old[i]
            /\ s.kind = "screen" => ContentOf(v)[s.target].at = old[s.target].at
    BY <1>1, <1>2, ReplacementKeeps
  <1> QED BY <1>2, <1>3

\* Scopes: a crawl of a module or of one screen cannot touch the rest of the ACTIVE version:
\* CanonicalPartialMerger.merge carries it over, the merge and the reconciliation are pinned
\* to the same ACTIVE version (_validate_partial_base), and KnowledgePromotionService checks
\* that it still is the one to replace.
THEOREM Scoped == Spec => OnlyTheScopeChanges
  <1>1. Typed /\ Sourced /\ Documented /\ Resolved /\ Merges /\ [Next]_vars =>
          [\A v \in Versions :
             IsImported(v) /\ version'[v].status = "active" /\ Active # 0 =>
              LET raw == Source(v).raw
                  s == Source(raw).scope
                  old == ContentOf(Active)
              IN MergedFrom(raw) =>
                    /\ \A i \in Outside(old, s) :
                           i \in DOMAIN ContentOf(v) /\ ContentOf(v)[i] = old[i]
                    /\ s.kind = "screen" => ContentOf(v)[s.target].at = old[s.target].at]_vars
    BY StepScopes
  <1> QED BY <1>1, InitTyped, InitSourced, InitTraced, InitRemovals, InitMerges, StepTyped,
             StepSourced, StepTraced, StepReviews, StepResolved, StepDocumented, StepMerges, PTL
             DEF Spec, OnlyTheScopeChanges

-----------------------------------------------------------------------------
(* The refinement of PublishedKnowledge.                                   *)

\* What is published.
Shown == IF Active = 0 THEN NoContent ELSE ContentOf(Active)

\* A replacement drops confirmed items only.
LEMMA ReplacementConfirmed ==
    ASSUME Typed, Sourced, Documented, Resolved, NEW v \in Versions, PromoteReplacement(v)
    PROVE  DOMAIN Shown \ DOMAIN ContentOf(v) \subseteq confirmed
  <1> SUFFICES ASSUME NEW i \in DOMAIN Shown, i \notin DOMAIN ContentOf(v) PROVE i \in confirmed
    OBVIOUS
  <1>1. /\ Active # 0 /\ Governed(v) /\ job[Origin(v)].kind = "reimport"
        /\ Source(v).base = Active
    BY DEF PromoteReplacement, ReconciledFor
  <1>2. PICK raw, base, taken : raw = ContentOf(Source(v).raw) /\ base = ContentOf(Active)
                                /\ taken = Source(v).taken
    OBVIOUS
  <1>3. /\ ContentOf(v) = Reconciled(raw, base, {k \in DOMAIN taken : taken[k].value = Retain})
        /\ DOMAIN taken = DOMAIN base \ DOMAIN raw
        /\ \A k \in DOMAIN taken :
              taken[k].value \in {Retain, Remove} /\ (taken[k].value = Remove => k \in confirmed)
    BY <1>1, <1>2, ReimportSource DEF ResolvedRow, Removed
  <1>4. DOMAIN ContentOf(v) = DOMAIN raw \cup {k \in DOMAIN taken : taken[k].value = Retain}
    BY <1>3 DEF Reconciled
  <1>5. i \in DOMAIN base
    BY <1>1, <1>2 DEF Shown
  <1> QED BY <1>3, <1>4, <1>5

\* Confirmations change with a decision or a promotion.
LEMMA StepConfirmed ==
    ASSUME Typed, Sourced, [Next]_vars
    PROVE  UNCHANGED confirmed \/ CommitDecision \/ \E v \in Versions : Promotes(v)
  <1>1. ASSUME Submit \/ Work \/ Restart PROVE UNCHANGED confirmed
    BY <1>1 DEF Submit, QueueBuild, QueueMerge, QueueImport, QueueReconcile, QueueReimport, Enqueue,
           Work, RunBuild, RunMerge, RunImport, RunReconcile, RunReimport, Succeed, Restart
  <1>2. ASSUME NEW v \in Versions, Prepare(v) PROVE UNCHANGED confirmed
    BY <1>2 DEF Prepare
  <1>3. ASSUME NEW v, NEW i, NEW x, LockDecision(v, i, x) PROVE UNCHANGED confirmed
    BY <1>3 DEF LockDecision
  <1>4. ASSUME NEW v \in Versions, PromoteBootstrap(v) \/ PromoteReplacement(v)
        PROVE  Promotes(v)
    BY <1>4, PromotionFacts
  <1> QED BY <1>1, <1>2, <1>3, <1>4 DEF Next, Person, vars

\* What is published stays while the ACTIVE version does.
LEMMA ShownStays ==
    ASSUME Typed, Sourced, [Next]_vars, Active' = Active
    PROVE  Shown' = Shown
  <1>1. PICK a : a = Active
    OBVIOUS
  <1>2. CASE a = 0
    BY <1>1, <1>2 DEF Shown
  <1>3. CASE a # 0
    <2>1. a \in Versions
      BY <1>1, <1>3, ActiveIs
    <2>2. ContentOf(a)' = ContentOf(a)
      BY <2>1, VersionsKept
    <2>3. Shown = ContentOf(a)
      BY <1>1, <1>3 DEF Shown
    <2>4. Shown' = ContentOf(a)'
      BY <1>1, <1>3 DEF Shown, ContentOf
    <2> QED BY <2>2, <2>3, <2>4
  <1> QED BY <1>2, <1>3

\* Every step confirms one removal, publishes or stutters.
LEMMA StepPublished ==
    ASSUME Typed, Sourced, Documented, Resolved, Reviews, [Next]_vars
    PROVE  [Published!Confirm \/ Published!Publish]_<<Shown, confirmed>>
  <1>1. ASSUME NEW v \in Versions, Promotes(v)
        PROVE  DOMAIN Shown \ DOMAIN Shown' \subseteq confirmed /\ confirmed' = {}
    <2>1. confirmed' = {}
      BY <1>1 DEF Promotes, Activate
    <2>2. Shown' = ContentOf(v)
      <3>1. ContentOf(v)' = ContentOf(v)
        BY VersionsKept
      <3>2. Shown' = ContentOf(v)'
        BY <1>1 DEF Shown, Promotes, ContentOf
      <3> QED BY <3>1, <3>2
    <2>3. CASE PromoteReplacement(v)
      BY <2>1, <2>2, <2>3, ReplacementConfirmed
    <2>4. CASE PromoteBootstrap(v)
      <3>1. DOMAIN Shown = {}
        BY <2>4 DEF PromoteBootstrap, Shown, NoContent
      <3> QED BY <2>1, <3>1
    <2> QED BY <1>1, <2>3, <2>4 DEF Promotes
  <1>2. ASSUME CommitDecision
        PROVE  Active' = Active /\ (UNCHANGED confirmed \/ \E i \in DOMAIN Shown : confirmed' = confirmed \cup {i})
    <2>1. Active' = Active
      BY <1>2, CommitKeepsActive
    <2>2. PICK v, i, x : v = change.candidate /\ i = change.item /\ x = change.value
      OBVIOUS
    <2>3. /\ v \in DOMAIN review /\ i \in DOMAIN review[v].decision
          /\ confirmed' = IF x = Remove /\ review[v].active = Active THEN confirmed \cup {i} ELSE confirmed
      BY <1>2, <2>2 DEF CommitDecision, Reviews
    <2>4. /\ review[v].active \in Versions
          /\ DOMAIN review[v].decision \subseteq DOMAIN ContentOf(review[v].active)
      BY <2>3 DEF Reviews, SetOf, Removed
    <2>5. CASE review[v].active = Active
      <3>1. Active # 0
        BY <2>4, <2>5, RowFacts
      <3>2. i \in DOMAIN Shown
        BY <2>3, <2>4, <2>5, <3>1 DEF Shown
      <3> QED BY <2>1, <2>3, <3>2
    <2>6. CASE review[v].active # Active
      BY <2>1, <2>3, <2>6
    <2> QED BY <2>5, <2>6
  <1>3. CASE \E v \in Versions : Promotes(v)
    BY <1>1, <1>3 DEF Published!Publish, Shown
  <1>4. CASE CommitDecision
    <2>1. Shown' = Shown
      BY <1>2, <1>4, ShownStays
    <2> QED BY <1>2, <1>4, <2>1 DEF Published!Confirm, Shown
  <1>5. CASE UNCHANGED confirmed /\ ~\E v \in Versions : Promotes(v)
    <2>1. Shown' = Shown
      BY <1>5, StepActive, ShownStays
    <2> QED BY <1>5, <2>1
  <1> QED BY <1>3, <1>4, <1>5, StepConfirmed

\* Publication: the pipeline implements PublishedKnowledge. KnowledgePromotionService lets a
\* version replace the ACTIVE one only if every item it drops was confirmed as removed by a
\* person against that very ACTIVE version.
THEOREM Publication == Spec => PublishesOnlyConfirmedRemovals
  <1>1. Init => Published!Init
    BY PlainInit DEF Published!Init
  <1>2. ASSUME [Next]_vars, Typed, Sourced, Documented, Resolved, Reviews
        PROVE  [Published!Confirm \/ Published!Publish]_<<IF Active = 0 THEN NoContent ELSE ContentOf(Active), confirmed>>
    BY <1>2, StepPublished DEF Shown
  <1> QED BY <1>1, <1>2, InitTyped, InitSourced, InitTraced, InitRemovals, StepTyped, StepSourced, StepTraced,
     StepReviews, StepResolved, StepDocumented, PTL DEF Spec, PublishesOnlyConfirmedRemovals, Published!Spec

-----------------------------------------------------------------------------
(* Types.  The modules below a module and the changes of a review set are  *)
(* recursive: each has its property at every size because there is no      *)
(* smallest one at which it fails.                                         *)

\* The modules that are at most n levels below a set of roots, given those at n - 1.
BelowAt(c, roots, f, n) ==
    IF n = 0 THEN roots ELSE f[n - 1] \cup Owned(c, "module", f[n - 1])

\* The function that Below chooses exists for every number of levels.
LEMMA BelowExists ==
    ASSUME NEW c, NEW roots, NEW l \in Nat
    PROVE  \E f : f = [n \in 0 .. l |-> BelowAt(c, roots, f, n)]
  <1> DEFINE Upto(m) == \E f : f = [n \in 0 .. m |-> BelowAt(c, roots, f, n)]
             Bad == {m \in 0 .. l : ~Upto(m)}
  <1>1. ASSUME Bad # {} PROVE FALSE
    <2>1. PICK m \in Bad : \A k \in Bad : m <= k
      <3>1. Bad \in SUBSET Nat
        OBVIOUS
      <3> HIDE DEF Bad
      <3> QED BY <1>1, <3>1, Smallest
    <2>2. m \in 0 .. l /\ ~Upto(m)
      BY <2>1
    <2>3. CASE m = 0
      <3> DEFINE f == [n \in 0 .. m |-> roots]
      <3>1. \A n \in 0 .. m : BelowAt(c, roots, f, n) = roots
        BY <2>3 DEF BelowAt
      <3>2. f = [n \in 0 .. m |-> BelowAt(c, roots, f, n)]
        <4> HIDE DEF f
        <4>1. f = [n \in 0 .. m |-> roots]
          BY DEF f
        <4> QED BY <3>1, <4>1
      <3> HIDE DEF f
      <3>3. Upto(m)
        BY <3>2
      <3> QED BY <2>2, <3>3
    <2>4. CASE m # 0
      <3>1. m - 1 \in 0 .. l /\ ~(m <= m - 1)
        BY <2>2, <2>4
      <3>2. m - 1 \notin Bad
        BY <2>1, <3>1
      <3>3. Upto(m - 1)
        BY <3>1, <3>2
      <3> HIDE DEF Bad
      <3>4. PICK f : f = [n \in 0 .. m - 1 |-> BelowAt(c, roots, f, n)]
        BY <3>3
      <3> DEFINE h == [n \in 0 .. m |-> IF n = m THEN BelowAt(c, roots, f, m) ELSE f[n]]
      <3>5. ASSUME NEW n \in 0 .. m PROVE h[n] = BelowAt(c, roots, h, n)
        <4>1. n # 0 => n - 1 \in 0 .. m /\ n - 1 # m
          BY <2>2
        <4>2. n # 0 => h[n - 1] = f[n - 1]
          BY <4>1
        <4>3. BelowAt(c, roots, h, n) = BelowAt(c, roots, f, n)
          BY <4>2 DEF BelowAt
        <4>4. n # m => n \in 0 .. m - 1
          BY <2>2
        <4>5. n # m => f[n] = BelowAt(c, roots, f, n)
          BY <3>4, <4>4
        <4>6. h[n] = BelowAt(c, roots, f, n)
          BY <4>5
        <4> QED BY <4>3, <4>6
      <3>6. h = [n \in 0 .. m |-> h[n]]
        OBVIOUS
      <3> HIDE DEF h
      <3>7. h = [n \in 0 .. m |-> BelowAt(c, roots, h, n)]
        BY <3>5, <3>6
      <3>8. Upto(m)
        BY <3>7
      <3> QED BY <2>2, <3>8
    <2> QED BY <2>3, <2>4
  <1>2. Upto(l)
    BY <1>1
  <1> QED BY <1>2

\* Below computes the last value of such a function.
LEMMA BelowUnfolds ==
    ASSUME NEW c, NEW roots, NEW l \in Nat, l = Cardinality(OfKind(c, "module"))
    PROVE  \E f : f = [n \in 0 .. l |-> BelowAt(c, roots, f, n)] /\ Below(c, roots) = f[l]
  <1> DEFINE f == CHOOSE g : g = [n \in 0 .. l |->
                     IF n = 0 THEN roots
                     ELSE LET above == g[n - 1] IN above \cup Owned(c, "module", above)]
  <1>1. Below(c, roots) = f[l]
    BY Zenon DEF Below
  <1>2. \E g : g = [n \in 0 .. l |->
                     IF n = 0 THEN roots
                     ELSE LET above == g[n - 1] IN above \cup Owned(c, "module", above)]
    <2> HIDE DEF f
    <2>1. \E g : g = [n \in 0 .. l |-> BelowAt(c, roots, g, n)]
      BY BelowExists
    <2> QED BY <2>1, Zenon DEF BelowAt
  <1>3. f = [n \in 0 .. l |->
                     IF n = 0 THEN roots
                     ELSE LET above == f[n - 1] IN above \cup Owned(c, "module", above)]
    BY <1>2, Zenon
  <1> HIDE DEF f
  <1>4. f = [n \in 0 .. l |-> BelowAt(c, roots, f, n)]
    BY <1>3 DEF BelowAt
  <1> QED BY <1>1, <1>4

\* The modules below some items of a content are items of the content.
LEMMA BelowInside ==
    ASSUME NEW c, DOMAIN c \subseteq Item, NEW roots \in SUBSET DOMAIN c
    PROVE  Below(c, roots) \subseteq DOMAIN c
  <1>1. IsFiniteSet(OfKind(c, "module"))
    BY KindAssumption, FS_Subset DEF OfKind
  <1>2. PICK l \in Nat : l = Cardinality(OfKind(c, "module"))
    BY <1>1, FS_CardinalityType
  <1>3. PICK f : f = [n \in 0 .. l |-> BelowAt(c, roots, f, n)] /\ Below(c, roots) = f[l]
    BY <1>2, BelowUnfolds
  <1> DEFINE Bad == {m \in 0 .. l : ~(f[m] \subseteq DOMAIN c)}
  <1>4. ASSUME Bad # {} PROVE FALSE
    <2>1. PICK m \in Bad : \A k \in Bad : m <= k
      <3>1. Bad \in SUBSET Nat
        OBVIOUS
      <3> HIDE DEF Bad
      <3> QED BY <1>4, <3>1, Smallest
    <2>2. m \in 0 .. l /\ ~(f[m] \subseteq DOMAIN c)
      BY <2>1
    <2>3. f[m] = BelowAt(c, roots, f, m)
      BY <1>3, <2>2
    <2>4. m # 0
      BY <2>2, <2>3 DEF BelowAt
    <2>5. m - 1 \in 0 .. l /\ ~(m <= m - 1)
      BY <2>2, <2>4
    <2>6. f[m - 1] \subseteq DOMAIN c
      BY <2>1, <2>5
    <2> HIDE DEF Bad
    <2>7. f[m] = f[m - 1] \cup Owned(c, "module", f[m - 1])
      BY <2>3, <2>4 DEF BelowAt
    <2> QED BY <2>2, <2>6, <2>7 DEF Owned, OfKind
  <1>5. f[l] \subseteq DOMAIN c
    BY <1>4
  <1> QED BY <1>3, <1>5

\* What a partial crawl replaces is in it.
LEMMA ScopeInside ==
    ASSUME NEW c, DOMAIN c \subseteq Item, NEW s, s.target \in DOMAIN c
    PROVE  ScopeOf(c, s) \subseteq DOMAIN c
  <1>1. Below(c, {s.target}) \subseteq DOMAIN c
    BY BelowInside
  <1> QED BY <1>1 DEF ScopeOf, Owned, OfKind

\* A merge has items of its base and of the crawl.
LEMMA MergedInside ==
    ASSUME NEW old, NEW part, NEW s, DOMAIN old \subseteq Item, DOMAIN part \subseteq Item,
           Mergeable(old, part, s)
    PROVE  DOMAIN Merged(old, part, s) \subseteq Item
  <1>1. ScopeOf(part, s) \subseteq DOMAIN part
    BY ScopeInside DEF Mergeable
  <1>2. DOMAIN Merged(old, part, s) = Outside(old, s) \cup ScopeOf(part, s)
    BY DEF Merged
  <1> QED BY <1>1, <1>2 DEF Outside

\* The element that a fold takes first.
First(s) == CHOOSE x \in s : TRUE

\* The changes of the decisions of s, given those of its parts.
SumAt(d, g, s) == IF s = {} THEN 0 ELSE d[First(s)].revision + g[s \ {First(s)}]

\* The subsets that have at most n elements.
UpTo(D, n) == {s \in SUBSET D : Cardinality(s) <= n}

\* The element that is taken out, and what it leaves.
LEMMA TakeOne ==
    ASSUME NEW s, IsFiniteSet(s), s # {}
    PROVE  /\ First(s) \in s /\ Cardinality(s) \in Nat
           /\ Cardinality(s \ {First(s)}) = Cardinality(s) - 1
           /\ Cardinality(s \ {First(s)}) \in Nat
  <1>1. First(s) \in s
    BY Zenon DEF First
  <1> QED BY <1>1, FS_RemoveElement, FS_CardinalityType

\* The function that Changes chooses exists for every finite set of decisions.
LEMMA SumExists ==
    ASSUME NEW d, IsFiniteSet(DOMAIN d)
    PROVE  \E g : g = [s \in SUBSET DOMAIN d |-> SumAt(d, g, s)]
  <1> DEFINE D == DOMAIN d
             Has(n) == \E g : g = [s \in UpTo(D, n) |-> SumAt(d, g, s)]
             Bad == {n \in Nat : ~Has(n)}
  <1>0. \A s \in SUBSET D : IsFiniteSet(s) /\ Cardinality(s) \in Nat /\ Cardinality(s) <= Cardinality(D)
    BY FS_Subset, FS_CardinalityType
  <1> HIDE DEF D
  <1>1. ASSUME Bad # {} PROVE FALSE
    <2>1. PICK m \in Bad : \A k \in Bad : m <= k
      <3>1. Bad \in SUBSET Nat
        OBVIOUS
      <3> HIDE DEF Bad
      <3> QED BY <1>1, <3>1, Smallest
    <2>2. m \in Nat /\ ~Has(m)
      BY <2>1
    <2>3. CASE m = 0
      <3> DEFINE f == [s \in UpTo(D, m) |-> 0]
      <3>1. \A s \in UpTo(D, m) : s = {}
        BY <1>0, <2>3, FS_EmptySet DEF UpTo
      <3>2. f = [s \in UpTo(D, m) |-> SumAt(d, f, s)]
        <4> HIDE DEF f
        <4>1. f = [s \in UpTo(D, m) |-> 0]
          BY DEF f
        <4>2. \A s \in UpTo(D, m) : SumAt(d, f, s) = 0
          BY <3>1 DEF SumAt
        <4> QED BY <4>1, <4>2
      <3> HIDE DEF f
      <3>3. Has(m)
        BY <3>2
      <3> QED BY <2>2, <3>3
    <2>4. CASE m # 0
      <3>1. m - 1 \in Nat /\ ~(m <= m - 1)
        BY <2>2, <2>4
      <3>2. m - 1 \notin Bad
        BY <2>1, <3>1
      <3>3. Has(m - 1)
        BY <3>1, <3>2
      <3> HIDE DEF Bad
      <3>4. PICK f : f = [s \in UpTo(D, m - 1) |-> SumAt(d, f, s)]
        BY <3>3
      <3> DEFINE h == [s \in UpTo(D, m) |-> SumAt(d, f, s)]
      <3>5. ASSUME NEW s \in UpTo(D, m - 1) PROVE s \in UpTo(D, m) /\ h[s] = f[s]
        <4>1. s \in UpTo(D, m)
          BY <1>0, <2>2, <3>1 DEF UpTo
        <4> QED BY <3>4, <4>1
      <3>6. ASSUME NEW s \in UpTo(D, m) PROVE SumAt(d, h, s) = SumAt(d, f, s)
        <4>1. CASE s = {}
          BY <4>1 DEF SumAt
        <4>2. CASE s # {}
          <5>1. PICK x : x = First(s)
            OBVIOUS
          <5>2. s \in SUBSET D /\ Cardinality(s) <= m
            BY DEF UpTo
          <5>3. s \ {x} \in UpTo(D, m - 1)
            BY <1>0, <2>2, <4>2, <5>1, <5>2, TakeOne DEF UpTo
          <5>4. h[s \ {x}] = f[s \ {x}]
            BY <3>5, <5>3
          <5> HIDE DEF h
          <5> QED BY <4>2, <5>1, <5>4 DEF SumAt
        <4> QED BY <4>1, <4>2
      <3>7. h = [s \in UpTo(D, m) |-> SumAt(d, f, s)]
        OBVIOUS
      <3> HIDE DEF h
      <3>8. h = [s \in UpTo(D, m) |-> SumAt(d, h, s)]
        BY <3>6, <3>7
      <3>9. Has(m)
        BY <3>8
      <3> QED BY <2>2, <3>9
    <2> QED BY <2>3, <2>4
  <1>2. PICK n \in Nat : n = Cardinality(D)
    BY <1>0
  <1>3. Has(n)
    BY <1>1
  <1>4. UpTo(D, n) = SUBSET D
    BY <1>0, <1>2 DEF UpTo
  <1> HIDE DEF Bad
  <1>5. \E g : g = [s \in SUBSET D |-> SumAt(d, g, s)]
    BY <1>3, <1>4
  <1> QED BY <1>5 DEF D

\* A sum is no less than what it sums up.
LEMMA SumFacts ==
    ASSUME NEW d, IsFiniteSet(DOMAIN d), \A i \in DOMAIN d : d[i].revision \in Nat,
           NEW g, g = [s \in SUBSET DOMAIN d |-> SumAt(d, g, s)]
    PROVE  \A s \in SUBSET DOMAIN d : g[s] \in Nat /\ \A i \in s : d[i].revision <= g[s]
  <1> DEFINE D == DOMAIN d
             Good(s) == g[s] \in Nat /\ \A i \in s : d[i].revision <= g[s]
             Bad == {n \in Nat : \E s \in SUBSET D : Cardinality(s) = n /\ ~Good(s)}
  <1>0. \A s \in SUBSET D : IsFiniteSet(s) /\ Cardinality(s) \in Nat
    BY FS_Subset, FS_CardinalityType
  <1>1. ASSUME Bad # {} PROVE FALSE
    <2>1. PICK m \in Bad : \A k \in Bad : m <= k
      <3>1. Bad \in SUBSET Nat
        OBVIOUS
      <3> HIDE DEF Bad
      <3> QED BY <1>1, <3>1, Smallest
    <2>2. PICK s \in SUBSET D : Cardinality(s) = m /\ ~Good(s)
      BY <2>1
    <2>3. g[s] = SumAt(d, g, s)
      BY <2>2
    <2>4. CASE s = {}
      BY <2>2, <2>3, <2>4 DEF SumAt
    <2>5. CASE s # {}
      <3>1. PICK x : x = First(s)
        OBVIOUS
      <3>2. /\ x \in s /\ s \ {x} \in SUBSET D
            /\ Cardinality(s \ {x}) \in Nat /\ ~(m <= Cardinality(s \ {x}))
        BY <1>0, <2>2, <2>5, <3>1, TakeOne
      <3>3. Cardinality(s \ {x}) \notin Bad
        BY <2>1, <3>2
      <3>4. Good(s \ {x})
        BY <3>2, <3>3
      <3>5. g[s] = d[x].revision + g[s \ {x}]
        BY <2>3, <2>5, <3>1 DEF SumAt
      <3> HIDE DEF Bad
      <3>6. d[x].revision \in Nat
        BY <3>2
      <3>7. ASSUME NEW i \in s PROVE d[i].revision <= g[s]
        <4>1. d[i].revision \in Nat
          BY <2>2
        <4>2. i # x => d[i].revision <= g[s \ {x}]
          BY <3>4
        <4>3. g[s \ {x}] \in Nat
          BY <3>4
        <4> HIDE DEF Good
        <4> QED BY <3>5, <3>6, <4>1, <4>2, <4>3
      <3>8. g[s] \in Nat
        BY <3>4, <3>5, <3>6
      <3>9. Good(s)
        BY <3>7, <3>8
      <3> QED BY <2>2, <3>9
    <2> QED BY <2>4, <2>5
  <1>2. ASSUME NEW s \in SUBSET D PROVE Good(s)
    BY <1>0, <1>1, <1>2
  <1> QED BY <1>2

\* The function that the fold over a set of decisions chooses.
SumOf(d) ==
    CHOOSE g : g = [s \in SUBSET DOMAIN d |->
        IF s = {} THEN 0
        ELSE d[CHOOSE x \in s : TRUE].revision + g[s \ {CHOOSE x \in s : TRUE}]]

\* It is such a sum.
LEMMA SumUnfolds ==
    ASSUME NEW d, IsFiniteSet(DOMAIN d)
    PROVE  SumOf(d) = [s \in SUBSET DOMAIN d |-> SumAt(d, SumOf(d), s)]
  <1>1. PICK f : f = [s \in SUBSET DOMAIN d |-> SumAt(d, f, s)]
    BY SumExists
  <1>2. \E h : h = [s \in SUBSET DOMAIN d |->
                     IF s = {} THEN 0
                     ELSE d[CHOOSE x \in s : TRUE].revision + h[s \ {CHOOSE x \in s : TRUE}]]
    BY <1>1, Zenon DEF SumAt, First
  <1>3. PICK g : g = SumOf(d)
    OBVIOUS
  <1>4. g = [s \in SUBSET DOMAIN d |->
                     IF s = {} THEN 0
                     ELSE d[CHOOSE x \in s : TRUE].revision + g[s \ {CHOOSE x \in s : TRUE}]]
    BY <1>2, <1>3, Zenon DEF SumOf
  <1>5. g = [s \in SUBSET DOMAIN d |-> SumAt(d, g, s)]
    BY <1>4 DEF SumAt, First
  <1> QED BY <1>3, <1>5

\* No decision was changed more often than all decisions of its set.
LEMMA ChangesBound ==
    ASSUME NEW v, NEW d, d = review[v].decision, IsFiniteSet(DOMAIN d),
           \A i \in DOMAIN d : d[i].revision \in Nat
    PROVE  Changes(v) \in Nat /\ \A i \in DOMAIN d : d[i].revision <= Changes(v)
  <1>1. Changes(v) = SumOf(d)[DOMAIN d]
    BY DEF Changes, FoldFunction, FoldFunctionOnSet, MapThenFoldSet, SumOf
  <1>2. PICK g : g = SumOf(d)
    OBVIOUS
  <1>3. g = [s \in SUBSET DOMAIN d |-> SumAt(d, g, s)]
    BY <1>2, SumUnfolds
  <1>4. \A s \in SUBSET DOMAIN d : g[s] \in Nat /\ \A i \in s : d[i].revision <= g[s]
    BY <1>3, SumFacts
  <1>5. DOMAIN d \in SUBSET DOMAIN d
    OBVIOUS
  <1>6. Changes(v) = g[DOMAIN d]
    BY <1>1, <1>2
  <1> QED BY <1>4, <1>5, <1>6, Zenon

\* The documents written are about canonical ids.
Itemised ==
    \A row \in {job[j] : j \in DOMAIN job} :
        row.kind \in Makers /\ row.status \in {"done", "succeeded"} => DOMAIN row.content \subseteq Item

\* The jobs name jobs and versions that are there.
Referring ==
    \A j \in DOMAIN job :
        {job[j].base, job[j].raw, job[j].version} \subseteq 0 .. Len(version) /\ job[j].source < j

\* The decision to change has changes left, and none had more than its share.
Counted ==
    /\ \A v \in DOMAIN review : \A i \in DOMAIN review[v].decision :
          review[v].decision[i].revision \in 0 .. MaxRevision
    /\ change # None => review[change.candidate].decision[change.item].revision < MaxRevision

\* The observations are about items and versions.
Observed ==
    /\ confirmed \subseteq Item /\ overtaken \cup orphaned \subseteq Versions
    /\ faults \in 0 .. MaxFaults

\* The first import and its version.
LEMMA InitTypes == Init => Itemised /\ Referring /\ Counted /\ Observed
  <1> SUFFICES ASSUME Init PROVE Itemised /\ Referring /\ Counted /\ Observed
    OBVIOUS
  <1> DEFINE a == [NewJob("build", FullScope, 0, 0, 0) EXCEPT
                    !.status = "succeeded", !.content = FirstContent]
             b == [NewJob("import", FullScope, 1, 0, 0) EXCEPT
                    !.status = "succeeded", !.version = 1, !.fresh = TRUE]
  <1>1. /\ a.content = FirstContent /\ a.base = 0 /\ a.raw = 0 /\ a.version = 0 /\ a.source = 0
        /\ b.kind = "import" /\ b.base = 0 /\ b.raw = 0 /\ b.version = 1 /\ b.source = 1
    BY DEF NewJob
  <1>2. job = <<a, b>> /\ Len(version) = 1 /\ DOMAIN review = {} /\ change = None
    BY DEF Init
  <1> HIDE DEF a, b
  <1>3. DOMAIN job = {1, 2} /\ job[1] = a /\ job[2] = b
    BY <1>2
  <1>4. DOMAIN FirstContent \subseteq Item
    BY ObserveAssumption
  <1>5. Itemised
    BY <1>1, <1>3, <1>4 DEF Itemised, Makers
  <1>6. Referring
    BY <1>1, <1>2, <1>3 DEF Referring
  <1>7. Counted /\ Observed
    BY <1>2, BoundAssumption DEF Init, Counted, Observed
  <1> QED BY <1>5, <1>6, <1>7

\* A stored content is about canonical ids.
LEMMA ContentInside ==
    ASSUME Sourced, Itemised, NEW v \in Versions
    PROVE  DOMAIN ContentOf(v) \subseteq Item
  BY DEF Sourced, Made, Itemised, ContentOf

\* Every step writes documents about canonical ids.
LEMMA StepItemised ==
    ASSUME Typed, Sourced, Reviews, Merges, Itemised, [Next]_vars
    PROVE  Itemised'
  <1> SUFFICES ASSUME NEW j \in DOMAIN job', job'[j].kind \in Makers,
                      job'[j].status \in {"done", "succeeded"}
               PROVE  DOMAIN job'[j].content \subseteq Item
    BY DEF Itemised
  <1>1. CASE Kept(j)
    BY <1>1 DEF Kept, Itemised
  <1>2. CASE Ends(j)
    <2>1. j \in DOMAIN job /\ job[j].status = "done" /\ job'[j].content = job[j].content
      BY <1>2 DEF Ends, Open
    <2>2. job[j].kind \in Makers
      BY <2>1, StepRows DEF RowsKept
    <2> QED BY <2>1, <2>2 DEF Itemised
  <1>3. CASE Queues(j) \/ Imports(j)
    BY <1>3 DEF Queues, Imports, Makers
  <1>4. CASE Makes(j)
    <2>1. j \in DOMAIN job /\ Runs(j) /\ job'[j].status = "done" /\ job[j].kind \in {"build", "merge"}
      <3>1. j \in DOMAIN job /\ Runs(j) /\ job'[j].status = "done"
        BY <1>4 DEF Makes, Runs
      <3> QED BY <1>4, <3>1, StepRows DEF Makes, RowsKept
    <2>2. CASE job[j].kind = "build"
      BY <2>1, <2>2, MakesWhat DEF Said
    <2>3. CASE job[j].kind = "merge"
      <3>1. PICK base, s, content : base = job[j].base /\ s = job[j].scope /\ content = job'[j].content
        OBVIOUS
      <3>2. MergedRow(base, s, content)
        BY <2>1, <2>3, <3>1, MakesWhat
      <3>3. PICK old : old = ContentOf(base)
        OBVIOUS
      <3>4. PICK part : Said(part) /\ Mergeable(old, part, s) /\ content = Merged(old, part, s)
        BY <3>2, <3>3 DEF MergedRow
      <3>5. DOMAIN old \subseteq Item
        BY <3>2, <3>3, ContentInside DEF MergedRow
      <3> QED BY <3>1, <3>4, <3>5, MergedInside DEF Said
    <2> QED BY <2>1, <2>2, <2>3
  <1>5. CASE Reconciles(j)
    <2>1. PICK raw, content : raw = job'[j].raw /\ content = job'[j].content
      OBVIOUS
    <2>2. SetValid(raw) /\ content = Exported(raw)
      BY <1>5, <2>1 DEF Reconciles, Runs
    <2>3. raw \in DOMAIN review /\ review[raw].active = Active
      BY <2>2 DEF SetValid, Prepared, StillReviewable
    <2>4. /\ raw \in Versions /\ Active \in Versions
          /\ DOMAIN Taken(raw) = Removed(ContentOf(Active), ContentOf(raw))
      BY <2>3 DEF Reviews, SetOf, Taken
    <2>5. DOMAIN content \subseteq DOMAIN ContentOf(raw) \cup DOMAIN Taken(raw)
      BY <2>2 DEF Exported, Reconciled
    <2>6. DOMAIN ContentOf(raw) \subseteq Item /\ DOMAIN ContentOf(Active) \subseteq Item
      BY <2>4, ContentInside
    <2> QED BY <2>1, <2>4, <2>5, <2>6 DEF Removed
  <1> QED BY <1>1, <1>2, <1>3, <1>4, <1>5, StepRow

\* A route queues a job after those it names.
LEMMA QueuedRefers ==
    ASSUME Typed, Referring, Submit, NEW j \in DOMAIN job' \ DOMAIN job
    PROVE  /\ {job'[j].base, job'[j].raw, job'[j].version} \subseteq 0 .. Len(version)
           /\ job'[j].source < j
  <1>1. /\ Len(job) \in Nat /\ DOMAIN job = 1 .. Len(job)
        /\ Len(version) \in Nat /\ Versions = 1 .. Len(version)
    BY RowFacts
  <1>2. \A r : job' = Append(job, r) => job'[j] = r /\ j = Len(job) + 1
    <2> SUFFICES ASSUME NEW r, job' = Append(job, r) PROVE job'[j] = r /\ j = Len(job) + 1
      OBVIOUS
    <2>1. DOMAIN job' = 1 .. (Len(job) + 1) /\ job'[Len(job) + 1] = r
      BY DEF Typed
    <2> QED BY <1>1, <2>1
  <1>3. ASSUME NEW k, NEW s, NEW source \in 0 .. Len(job), NEW base \in 0 .. Len(version),
               NEW raw \in 0 .. Len(version), Enqueue(NewJob(k, s, source, base, raw))
        PROVE  /\ {job'[j].base, job'[j].raw, job'[j].version} \subseteq 0 .. Len(version)
               /\ job'[j].source < j
    <2>1. PICK r : r = NewJob(k, s, source, base, raw)
      OBVIOUS
    <2>2. r.base = base /\ r.raw = raw /\ r.version = 0 /\ r.source = source
      BY <2>1 DEF NewJob
    <2>3. job'[j] = r /\ j = Len(job) + 1
      BY <1>2, <1>3, <2>1 DEF Enqueue
    <2> QED BY <1>1, <2>2, <2>3
  <1>4. Active \in 0 .. Len(version) /\ 0 \in 0 .. Len(version) /\ 0 \in 0 .. Len(job)
    <2>1. Active = 0 \/ Active \in Versions
      BY ActiveIs
    <2> QED BY <1>1, <2>1
  <1>5. \A i \in DOMAIN job : /\ i \in 0 .. Len(job) /\ job[i].base \in 0 .. Len(version)
                             /\ job[i].raw \in 0 .. Len(version)
    BY <1>1 DEF Referring
  <1>6. \A v \in Versions : v \in 0 .. Len(version)
    BY <1>1
  <1> HIDE DEF Versions
  <1>7. ASSUME NEW s \in Scopes, QueueBuild(s)
        PROVE  {job'[j].base, job'[j].raw, job'[j].version} \subseteq 0 .. Len(version) /\ job'[j].source < j
    <2>1. PICK base \in 0 .. Len(version) : Enqueue(NewJob("build", s, 0, base, 0))
      BY <1>4, <1>7 DEF QueueBuild
    <2> QED BY <1>3, <1>4, <2>1
  <1>8. ASSUME NEW i \in DOMAIN job, QueueMerge(i) \/ QueueImport(i) \/ QueueReimport(i)
        PROVE  {job'[j].base, job'[j].raw, job'[j].version} \subseteq 0 .. Len(version) /\ job'[j].source < j
    <2>1. CASE QueueMerge(i)
      BY <1>3, <1>4, <1>5, <2>1 DEF QueueMerge
    <2>2. CASE QueueImport(i)
      BY <1>3, <1>4, <1>5, <2>2 DEF QueueImport
    <2>3. CASE QueueReimport(i)
      BY <1>3, <1>4, <1>5, <2>3 DEF QueueReimport
    <2> QED BY <1>8, <2>1, <2>2, <2>3
  <1>9. ASSUME NEW v \in Versions, QueueReconcile(v)
        PROVE  {job'[j].base, job'[j].raw, job'[j].version} \subseteq 0 .. Len(version) /\ job'[j].source < j
    BY <1>3, <1>4, <1>6, <1>9 DEF QueueReconcile
  <1> QED BY <1>7, <1>8, <1>9 DEF Submit

\* Every step keeps what the jobs name.
LEMMA StepReferring ==
    ASSUME Typed, Sourced, Referring, [Next]_vars
    PROVE  Referring'
  <1> SUFFICES ASSUME NEW j \in DOMAIN job'
               PROVE  /\ {job'[j].base, job'[j].raw, job'[j].version} \subseteq 0 .. Len(version')
                      /\ job'[j].source < j
    BY DEF Referring
  <1>1. /\ Len(version) \in Nat /\ Len(version') \in Nat /\ Len(version) <= Len(version')
        /\ Versions' = 1 .. Len(version')
    <2>1. Len(version) \in Nat /\ Versions = 1 .. Len(version)
      BY RowFacts
    <2>2. Len(version') \in Nat /\ Versions' = 1 .. Len(version')
      BY VersionsKept, LenProperties DEF Versions
    <2>3. Versions \subseteq Versions'
      BY VersionsKept
    <2>4. Len(version) # 0 => Len(version) \in Versions'
      BY <2>1, <2>3
    <2> QED BY <2>1, <2>2, <2>4
  <1>2. CASE j \in DOMAIN job
    <2>1. /\ job'[j].base = job[j].base /\ job'[j].raw = job[j].raw /\ job'[j].source = job[j].source
          /\ job'[j].version = job[j].version \/ job'[j].version \in Versions'
      BY <1>2, StepRows, ColumnsKept DEF RowsKept
    <2> QED BY <1>1, <1>2, <2>1 DEF Referring
  <1>3. CASE j \notin DOMAIN job
    BY <1>1, <1>3, NewRow, QueuedRefers
  <1> QED BY <1>2, <1>3

\* Every step keeps the count of the changes.
LEMMA StepCounted ==
    ASSUME Typed, Sourced, Reviews, Itemised, Counted, [Next]_vars
    PROVE  Counted'
  <1>0. MaxRevision \in Nat
    BY BoundAssumption
  <1>1. ASSUME UNCHANGED <<review, overtaken>> /\ (UNCHANGED change \/ change' = None)
        PROVE  Counted'
    BY <1>1 DEF Counted
  <1>2. ASSUME NEW v \in Versions, Prepare(v)
        PROVE  Counted'
    <2>1. PICK dec : dec = [i \in PlannedRemovals(v) |-> [value |-> Pending, revision |-> 0]]
      OBVIOUS
    <2>2. /\ v \notin DOMAIN review /\ DOMAIN review' = DOMAIN review \cup {v}
          /\ review'[v].decision = dec
          /\ \A w \in DOMAIN review : review'[w] = review[w]
          /\ UNCHANGED change
      BY <1>2, <2>1 DEF Prepare, Prepared
    <2>3. \A i \in DOMAIN dec : dec[i].revision \in 0 .. MaxRevision
      BY <1>0, <2>1
    <2>4. change # None => change.candidate \in DOMAIN review
      BY DEF Reviews
    <2> QED BY <2>2, <2>3, <2>4 DEF Counted
  <1>3. ASSUME NEW v \in DOMAIN review, NEW i \in DOMAIN review[v].decision, NEW x \in Operations,
               LockDecision(v, i, x)
        PROVE  Counted'
    <2>1. PICK d : d = review[v].decision
      OBVIOUS
    <2>2. /\ Changes(v) < MaxRevision /\ UNCHANGED review
          /\ change' = [candidate |-> v, item |-> i, value |-> x]
      BY <1>3 DEF LockDecision
    <2>3. \A k \in DOMAIN d : d[k].revision \in Nat
      BY <1>0, <2>1 DEF Counted
    <2>4. IsFiniteSet(DOMAIN d)
      <3>1. DOMAIN d \subseteq DOMAIN ContentOf(review[v].active) /\ review[v].active \in Versions
        BY <2>1 DEF Reviews, SetOf, Removed
      <3>2. DOMAIN d \subseteq Item
        BY <3>1, ContentInside
      <3> QED BY <3>2, KindAssumption, FS_Subset
    <2>5. Changes(v) \in Nat /\ d[i].revision <= Changes(v)
      BY <2>1, <2>3, <2>4, ChangesBound
    <2>6. d[i].revision < MaxRevision
      BY <1>0, <2>1, <2>2, <2>3, <2>5
    <2>7. change'.candidate = v /\ change'.item = i
      BY <2>2
    <2>8. review'[change'.candidate].decision[change'.item].revision < MaxRevision
      BY <2>1, <2>2, <2>6, <2>7
    <2> QED BY <2>2, <2>8 DEF Counted
  <1>4. ASSUME CommitDecision
        PROVE  Counted'
    <2>1. PICK v, i, x : v = change.candidate /\ i = change.item /\ x = change.value
      OBVIOUS
    <2>2. v \in DOMAIN review /\ i \in DOMAIN review[v].decision /\ change # None
      BY <1>4, <2>1 DEF CommitDecision, Reviews
    <2>3. PICK rev : rev = review[v].decision[i].revision
      OBVIOUS
    <2>4. rev \in 0 .. MaxRevision /\ rev < MaxRevision
      BY <2>1, <2>2, <2>3 DEF Counted
    <2>5. PICK dec : dec = [review[v].decision EXCEPT ![i] = [value |-> x, revision |-> rev + 1]]
      OBVIOUS
    <2>6. PICK set : set = [review[v] EXCEPT !.decision = dec]
      OBVIOUS
    <2>7. change' = None /\ review' = [review EXCEPT ![v] = set]
      BY <1>4, <2>1, <2>3, <2>5, <2>6 DEF CommitDecision
    <2>8. set.decision = dec
      <3>1. review[v] \in [active : Versions, decision : {review[v].decision}]
        BY <2>2 DEF Reviews, SetOf
      <3> QED BY <2>6, <3>1
    <2>9. ASSUME NEW k \in DOMAIN dec PROVE dec[k].revision \in 0 .. MaxRevision
      <3>1. CASE k = i
        BY <1>0, <2>2, <2>4, <2>5, <3>1
      <3>2. CASE k # i
        BY <2>2, <2>5, <3>2 DEF Counted
      <3> QED BY <3>1, <3>2
    <2>10. ASSUME NEW w \in DOMAIN review', NEW k \in DOMAIN review'[w].decision
           PROVE  review'[w].decision[k].revision \in 0 .. MaxRevision
      <3>1. CASE w = v
        BY <2>2, <2>7, <2>8, <2>9, <3>1
      <3>2. CASE w # v
        BY <2>7, <3>2 DEF Counted
      <3> QED BY <3>1, <3>2
    <2> QED BY <2>7, <2>10 DEF Counted
  <1> QED BY <1>1, <1>2, <1>3, <1>4, PersonReviews

\* Every step keeps the types of the observations.
LEMMA StepObserved ==
    ASSUME Typed, Sourced, Traced, Reviews, Itemised, Observed, [Next]_vars
    PROVE  Observed'
  <1>1. Versions \subseteq Versions'
    BY VersionsKept
  <1>2. confirmed' \subseteq Item
    <2>1. CASE UNCHANGED confirmed
      BY <2>1 DEF Observed
    <2>2. CASE \E v \in Versions : Promotes(v)
      BY <2>2 DEF Promotes, Activate
    <2>3. CASE CommitDecision
      <3>1. PICK v, i : v = change.candidate /\ i = change.item
        OBVIOUS
      <3>2. v \in DOMAIN review /\ i \in DOMAIN review[v].decision /\ confirmed' \subseteq confirmed \cup {i}
        BY <2>3, <3>1 DEF CommitDecision, Reviews
      <3>3. i \in DOMAIN ContentOf(review[v].active) /\ review[v].active \in Versions
        BY <3>2 DEF Reviews, SetOf, Removed
      <3>4. i \in Item
        BY <3>3, ContentInside
      <3> QED BY <3>2, <3>4 DEF Observed
    <2> QED BY <2>1, <2>2, <2>3, StepConfirmed
  <1>3. overtaken' \subseteq Versions
    <2>1. ASSUME NEW v \in DOMAIN review, NEW i, NEW x, LockDecision(v, i, x)
          PROVE  overtaken' \subseteq overtaken \cup {v} /\ v \in Versions
      BY <2>1 DEF LockDecision, Reviews
    <2>2. CommitDecision \/ (\E v \in Versions : Prepare(v)) => UNCHANGED overtaken
      BY DEF CommitDecision, Prepare
    <2> QED BY <2>1, <2>2, PersonReviews DEF Observed
  <1>4. orphaned' \subseteq Versions /\ faults' \in 0 .. MaxFaults
    <2>1. CASE Restart
      <3>1. \A j \in DOMAIN job : job[j].fresh => job[j].version \in Versions
        BY DEF Traced
      <3>2. MaxFaults \in Nat
        BY BoundAssumption
      <3>3. Open \subseteq DOMAIN job
        BY DEF Open
      <3> QED BY <2>1, <3>1, <3>2, <3>3 DEF Restart, Observed
    <2>2. Submit => UNCHANGED <<orphaned, faults>>
      BY DEF Submit, QueueBuild, QueueMerge, QueueImport, QueueReconcile, QueueReimport, Enqueue
    <2>3. Work => UNCHANGED <<orphaned, faults>>
      BY DEF Work, RunBuild, RunMerge, RunImport, RunReconcile, RunReimport, Succeed
    <2> QED BY <2>1, <2>2, <2>3, PersonKeepsRows DEF Next, vars, Observed
  <1> QED BY <1>1, <1>2, <1>3, <1>4 DEF Observed

\* The parts of the invariant give the types.
LEMMA TypesHold ==
    ASSUME Typed, Sourced, Reviews, Itemised, Referring, Counted, Observed
    PROVE  TypeOK
  <1>1. \A v \in Versions : /\ version[v].status \in {"imported", "active", "archived"}
                            /\ version[v].document \in DOMAIN job
    BY RowFacts DEF VersionRow, Sourced, Made
  <1>2. Cardinality(WithStatus("active")) <= 1
    <2>1. CASE WithStatus("active") = {}
      BY <2>1, FS_EmptySet
    <2>2. CASE WithStatus("active") # {}
      <3>1. PICK v : v \in WithStatus("active")
        BY <2>2
      <3>2. WithStatus("active") = {v}
        BY <3>1 DEF Sourced
      <3>3. Cardinality({v}) = 1
        BY FS_Singleton
      <3> QED BY <3>2, <3>3
    <2> QED BY <2>1, <2>2
  <1>3. \A j \in DOMAIN job :
           /\ job[j].kind \in {"build", "merge", "import", "reconcile", "reimport"}
           /\ job[j].status \in {"queued", "done", "succeeded", "failed"}
           /\ {job[j].base, job[j].raw, job[j].version} \subseteq 0 .. Len(version)
           /\ job[j].source < j
    BY RowFacts DEF Row, Kinds, Referring
  <1>4. DOMAIN review \subseteq Versions
    BY DEF Reviews
  <1>5. \A v \in DOMAIN review : \A i \in DOMAIN review[v].decision :
           /\ review[v].decision[i].value \in {Pending, Retain, Remove}
           /\ review[v].decision[i].revision \in 0 .. MaxRevision
    BY DEF Reviews, Counted, Decision, Operations
  <1> QED BY <1>1, <1>2, <1>3, <1>4, <1>5 DEF TypeOK, Observed

\* TypeCorrect: the rows the routes and executors of the pipeline write name jobs and
\* versions that are there and earlier than they are, one version at most is ACTIVE, and what
\* merges, removals and retentions make is about the canonical ids that the crawls observed.
THEOREM TypeCorrect == Spec => []TypeOK
  <1>1. Typed /\ Sourced /\ Reviews /\ Itemised /\ Referring /\ Counted /\ Observed => TypeOK
    BY TypesHold
  <1> QED BY <1>1, InitTyped, InitSourced, InitTraced, InitRemovals, InitMerges, InitTypes, StepTyped,
             StepSourced, StepTraced, StepReviews, StepMerges, StepItemised, StepReferring,
             StepCounted, StepObserved, PTL DEF Spec

=============================================================================
