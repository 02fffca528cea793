------------------------ MODULE KnowledgeGovernance ------------------------
(***************************************************************************)
(* The governed knowledge in PostgreSQL and its projections: imports of    *)
(* candidate versions (canonical_import_service.py), human reviews of      *)
(* their items (knowledge_review_service.py, structural_review.py, the     *)
(* publication packages), the promotion gate                               *)
(* (knowledge_promotion_service.py) and the structural synchronisations to *)
(* Neo4j and ChromaDB (sync_service.py, structural_sync_service.py).       *)
(*                                                                         *)
(* An operation is one database transaction of several steps.  It takes    *)
(* row locks (SELECT ... FOR UPDATE), its writes are visible from its      *)
(* commit on, and what it read earlier may be stale.  Writes to Neo4j and  *)
(* ChromaDB are not part of the transaction.                               *)
(***************************************************************************)
EXTENDS Naturals, FiniteSets

CONSTANTS
    Versions,      \* knowledge versions of one ERP
    Items,         \* knowledge items; each belongs to one version
    VersionOf,     \* VersionOf[i]: the version of item i
    CarriedFrom,   \* CarriedFrom[i]: the unchanged item of an older version, or None
    Backbone,      \* the items of entity types erp_system and module
    Targets,       \* the members of SyncTarget in use
    Graph,         \* the targets written as Neo4j is; the others as ChromaDB is
    Reviewers, Promoters, Syncers,   \* sessions that review, promote, synchronise
    InApi,         \* the sessions that live in the API process
    TargetOf,      \* TargetOf[s]: what syncer s synchronises
    Replacing,     \* the syncers that run with replace_version
    Property,      \* the node properties that a payload may leave out
    Gives,         \* <<i, n, q>>: payload n of item i has property q
    Unlabelled,    \* <<i, n>>: payload n of item i has no safe label
    Direct,        \* versions imported with activate=True by the script
    None,          \* no version, no item
    Absent,        \* the store has no entry for the item
    MaxRevision, MaxPayload,         \* bounds on review_revision and corrections
    MaxFaults      \* bound on crashes, refused transactions and store errors

ASSUME ItemAssumption ==
    /\ VersionOf \in [Items -> Versions]
    /\ CarriedFrom \in [Items -> Items \cup {None}]
    /\ None \notin Versions \cup Items
    /\ Backbone \subseteq Items /\ Direct \subseteq Versions
ASSUME TargetAssumption ==
    TargetOf \in [Syncers -> Targets] /\ Graph \subseteq Targets /\ Replacing \subseteq Syncers
ASSUME SessionAssumption ==
    Reviewers \cap Promoters = {} /\ Syncers \cap (Reviewers \cup Promoters) = {}
ASSUME PayloadAssumption ==
    /\ Gives \subseteq Items \X Nat \X Property /\ Unlabelled \subseteq Items \X Nat
    /\ Absent \notin Nat \cup [payload : Nat, left : SUBSET Property]
ASSUME LimitAssumption == MaxRevision \in Nat /\ MaxPayload \in Nat /\ MaxFaults \in Nat

VARIABLES
    version,    \* version[v]: the status column of knowledge_versions
    base,       \* base[v]: the ACTIVE the candidate was reconciled against, or None
    previous,   \* previous[v]: previous_active_version_id of its promotion
    item,       \* item[i]: review status and revision
    payload,    \* payload[i]: the last correction, 0 for the source payload
    sync,       \* sync[v][t]: the status of the SyncJob
    store,      \* store[t][i]: the payload projected to Neo4j or ChromaDB, and the
                \* properties that only an older payload gave and the node still has
    review,     \* review[r]: the transaction of reviewer r
    promo,      \* promo[p]: the transaction of promoter p
    run,        \* run[s]: the synchronisation of syncer s
    holds,      \* holds[p]: the row locks of session p
    blind,      \* observation: versions changed by a review that did not invalidate
    late,       \* observation: versions projected when they were not ACTIVE
    torn,       \* observation: stores left by a run that did not commit
    merged,     \* observation: <<v, t>> whose last complete upsert had no replace_version
    faults

known == <<version, base, previous>>
reviewed == <<item, payload>>
projected == <<sync, store>>
observed == <<blind, late, torn, merged>>
vars == <<version, base, previous, item, payload, sync, store, review, promo, run,
          holds, blind, late, torn, merged, faults>>

-----------------------------------------------------------------------------
Statuses == {"pending", "approved", "rejected", "corrected"}
Publishable == {"approved", "corrected"}
Reviewable == {"imported", "active"}

\* TRANSITIONS of knowledge_review_service; reset_to_pending is always allowed.
Allowed(old, new) ==
    \/ new = "pending"
    \/ new \in [pending   |-> {"approved", "rejected", "corrected"},
                approved  |-> {"corrected", "rejected"},
                rejected  |-> {"pending"},
                corrected |-> {"approved", "rejected"}][old]

Sessions == Reviewers \cup Promoters \cup Syncers
VersionRow(v) == <<"version", v>>
ItemRow(i) == <<"item", i>>
SyncRow(v, t) == <<"sync", v, t>>
Rows == {VersionRow(v) : v \in Versions} \cup {ItemRow(i) : i \in Items}
            \cup {SyncRow(v, t) : v \in Versions, t \in Targets}

\* No other session holds a lock on one of the rows.
Free(p, rows) == \A q \in Sessions \ {p} : holds[q] \cap rows = {}
Lock(p, rows) ==
    /\ Free(p, rows)
    /\ holds' = [holds EXCEPT ![p] = @ \cup rows]
Release(p) == holds' = [holds EXCEPT ![p] = {}]

ItemsOf(v) == {i \in Items : VersionOf[i] = v}
Actives == {v \in Versions : version[v] = "active"}
ActiveOrNone == IF Actives = {} THEN None ELSE CHOOSE v \in Actives : TRUE
SyncRows(v) == {SyncRow(v, t) : t \in Targets}

\* EffectiveKnowledgeService.list_approved with its effective payloads.
Effective(v) ==
    [i \in Items |-> IF VersionOf[i] = v /\ item[i].status \in Publishable
                       THEN payload[i] ELSE Absent]

\* What a run projects to t: ChromaDB has no document for an item without a safe label
\* (the types that have none by design are not items here).
Planned(v, t) ==
    [i \in Items |-> IF t \notin Graph /\ <<i, Effective(v)[i]>> \in Unlabelled
                       THEN Absent ELSE Effective(v)[i]]

\* The items with a document or a node.
Documents(v, t) == {i \in Items : Planned(v, t)[i] # Absent}

\* projected_payload_properties leaves out what the payload does not give.
GivenBy(i, n) == {q \in Property : <<i, n, q>> \in Gives}

\* A document, or a new node, has its payload only ...
New(n) == [payload |-> n, left |-> {}]

\* ... but SET n += row.properties keeps what the node had and the payload leaves out.
MergedInto(e, i, n) ==
    [payload |-> n,
     left |-> IF e = Absent THEN {} ELSE (e.left \cup GivenBy(i, e.payload)) \ GivenBy(i, n)]

NoReview == [pc |-> "idle", version |-> None, items |-> {}, new |-> "pending",
             seen |-> [i \in Items |-> [status |-> "pending", revision |-> 0]],
             active |-> FALSE]
NoPromotion == [pc |-> "idle", candidate |-> None, active |-> None]
NoRun == [pc |-> "idle", version |-> None, plan |-> [i \in Items |-> Absent], todo |-> {}]

Contents == Nat \cup {Absent}
Entries == [payload : Nat, left : SUBSET Property] \cup {Absent}
ReviewState == [status : Statuses, revision : Nat]

\* No SyncJob is ever stored as RUNNING: run() flushes that status inside the
\* transaction that replaces it.
TypeOK ==
    /\ version \in [Versions -> {"none", "imported", "active", "archived"}]
    /\ base \in [Versions -> Versions \cup {None}]
    /\ previous \in [Versions -> Versions \cup {None}]
    /\ item \in [Items -> ReviewState]
    /\ payload \in [Items -> Nat]
    /\ sync \in [Versions -> [Targets -> {"none", "pending", "succeeded", "failed"}]]
    /\ store \in [Targets -> [Items -> Entries]]
    /\ review \in [Reviewers ->
          [pc : {"idle", "locking", "invalidating", "committing"},
           version : Versions \cup {None}, items : SUBSET Items, new : Statuses,
           seen : [Items -> ReviewState], active : BOOLEAN]]
    /\ promo \in [Promoters -> [pc : {"idle", "finding", "waiting", "assessing", "promoting"},
                                candidate : Versions \cup {None}, active : Versions \cup {None}]]
    /\ run \in [Syncers ->
          [pc : {"idle", "queued", "running", "seen", "locked", "writing", "cleared",
                 "upserted", "dropped"},
           version : Versions \cup {None}, plan : [Items -> Contents], todo : SUBSET Items]]
    /\ holds \in [Sessions -> SUBSET Rows]
    /\ blind \subseteq Versions /\ late \subseteq Versions /\ torn \subseteq Versions \X Targets
    /\ merged \subseteq Versions \X Graph
    /\ faults \in Nat

Init ==
    /\ version = [v \in Versions |-> "none"]
    /\ base = [v \in Versions |-> None]
    /\ previous = [v \in Versions |-> None]
    /\ item = [i \in Items |-> [status |-> "pending", revision |-> 0]]
    /\ payload = [i \in Items |-> 0]
    /\ sync = [v \in Versions |-> [t \in Targets |-> "none"]]
    /\ store = [t \in Targets |-> [i \in Items |-> Absent]]
    /\ review = [r \in Reviewers |-> NoReview]
    /\ promo = [p \in Promoters |-> NoPromotion]
    /\ run = [s \in Syncers |-> NoRun]
    /\ holds = [p \in Sessions |-> {}]
    /\ blind = {} /\ late = {} /\ torn = {} /\ merged = {}
    /\ faults = 0

-----------------------------------------------------------------------------
(* Imports.                                                                *)

\* The item is UNCHANGED with respect to version a: same structural hash.
Unchanged(i, a) == CarriedFrom[i] # None /\ VersionOf[CarriedFrom[i]] = a

\* Reviews of unchanged items are carried forward from the ACTIVE version.
Carried(v) ==
    [i \in ItemsOf(v) |->
        IF Unchanged(i, ActiveOrNone)
          THEN LET o == CarriedFrom[i] IN
               [status |-> item[o].status,
                revision |-> IF item[o].status # "pending" \/ payload[o] # 0 THEN 1 ELSE 0,
                payload |-> payload[o]]
          ELSE [status |-> "pending", revision |-> 0, payload |-> 0]]

ImportItems(v) ==
    /\ item' = [i \in Items |->
                  IF i \in ItemsOf(v)
                    THEN [status |-> Carried(v)[i].status, revision |-> Carried(v)[i].revision]
                    ELSE item[i]]
    /\ payload' = [i \in Items |-> IF i \in ItemsOf(v) THEN Carried(v)[i].payload ELSE payload[i]]

\* canonical_import, staging only.  A reconciled snapshot pins its base, which
\* is locked and still ACTIVE; a full build has none and takes no lock.
ImportCandidate(v) ==
    /\ version[v] = "none" /\ v \notin Direct
    /\ version' = [version EXCEPT ![v] = "imported"]
    /\ \E b \in {None, ActiveOrNone} :
          /\ \A q \in Sessions : VersionRow(b) \notin holds[q]
          /\ base' = [base EXCEPT ![v] = b]
    /\ ImportItems(v)
    /\ UNCHANGED <<previous, projected, review, promo, run, holds, observed, faults>>

\* Variant: the version that was ACTIVE stays so.
ImportAndActivateBeside(v) ==
    /\ version[v] = "none" /\ v \in Direct
    /\ version' = [version EXCEPT ![v] = "active"]
    /\ sync' = [sync EXCEPT ![v] = [t \in Targets |-> "pending"]]
    /\ ImportItems(v)
    /\ UNCHANGED <<base, previous, store, review, promo, run, holds, observed, faults>>

\* import_canonical(activate=True), the default of the script: the ACTIVE
\* version is archived without the gate and without a promotion record.
ImportAndActivate(v) ==
    /\ version[v] = "none" /\ v \in Direct
    /\ \A q \in Sessions : \A a \in Actives : VersionRow(a) \notin holds[q]
    /\ version' = [u \in Versions |-> IF u = v THEN "active"
                                      ELSE IF u \in Actives THEN "archived" ELSE version[u]]
    /\ sync' = [sync EXCEPT ![v] = [t \in Targets |-> "pending"]]
    /\ ImportItems(v)
    /\ UNCHANGED <<base, previous, store, review, promo, run, holds, observed, faults>>

-----------------------------------------------------------------------------
(* Reviews.                                                                *)

Seen(is) == [i \in Items |-> IF i \in is THEN item[i] ELSE NoReview.seen[i]]

Begin(r, v, is, new, pc) ==
    /\ review[r].pc = "idle"
    /\ \A i \in is : Allowed(item[i].status, new) /\ item[i].revision < MaxRevision
    /\ new = "corrected" => \A i \in is : payload[i] < MaxPayload
    /\ review' = [review EXCEPT ![r] =
            [pc |-> pc, version |-> v, items |-> is, new |-> new, seen |-> Seen(is),
             active |-> version[v] = "active"]]

\* _record: the version was ACTIVE when it was read and an item was, or
\* becomes, publishable.
Publishes(r) == review[r].new \in Publishable \/
                \E i \in review[r].items : review[r].seen[i].status \in Publishable
Invalidates(r) == review[r].active /\ Publishes(r)
AfterLock(r, active, new, is) ==
    IF active /\ (new \in Publishable \/ \E i \in is : item[i].status \in Publishable)
      THEN "invalidating" ELSE "committing"

\* The route reads the item and its version without a lock and compares them
\* with what the browser showed.
BeginApiReview(r, i, new) ==
    /\ r \in InApi
    /\ version[VersionOf[i]] \in Reviewable
    /\ Begin(r, VersionOf[i], {i}, new, "locking")
    /\ UNCHANGED <<known, reviewed, projected, promo, run, holds, observed, faults>>

\* KnowledgeReviewService._locked in the same session: the row is locked, the
\* item is the object already read, so the revision always matches.
LockItem(r) ==
    /\ review[r].pc = "locking"
    /\ Lock(r, {ItemRow(i) : i \in review[r].items})
    /\ review' = [review EXCEPT ![r].pc = IF Invalidates(r) THEN "invalidating" ELSE "committing"]
    /\ UNCHANGED <<known, reviewed, projected, promo, run, observed, faults>>

\* Variant: the script reads the item before it locks it.
BeginCliReviewUnlocked(r, i, new) ==
    /\ r \notin InApi
    /\ version[VersionOf[i]] # "none"
    /\ Begin(r, VersionOf[i], {i}, new, "locking")
    /\ UNCHANGED <<known, reviewed, projected, promo, run, holds, observed, faults>>

\* The script and the tests call the service on a fresh session: the first read
\* of the item is the locked one.
BeginCliReview(r, i, new) ==
    LET v == VersionOf[i] IN
    /\ r \notin InApi
    /\ version[v] # "none"
    /\ Lock(r, {ItemRow(i)})
    /\ Begin(r, v, {i}, new, AfterLock(r, version[v] = "active", new, {i}))
    /\ UNCHANGED <<known, reviewed, projected, promo, run, observed, faults>>

\* The packages of v: the items are grouped by the system, module or screen that owns
\* them, and any group is a package as long as some of its items are pending; a
\* package is given by those.
Packages(v) == {is \in SUBSET ItemsOf(v) : is # {} /\ \A i \in is : item[i].status = "pending"}

\* approve_pending: the version and all its items are locked, then the pending items
\* of a package that did not change since it was shown are approved.
BeginPackage(r, v, is) ==
    /\ r \in InApi
    /\ version[v] = "active"
    /\ is \in Packages(v)
    /\ Lock(r, {VersionRow(v)} \cup {ItemRow(i) : i \in ItemsOf(v)})
    /\ Begin(r, v, is, "approved", "invalidating")
    /\ UNCHANGED <<known, reviewed, projected, promo, run, observed, faults>>

\* Variant: the version is locked too, once the jobs are.
LockSyncJobsThenVersion(r) ==
    LET v == review[r].version
        mine == holds[r] \cap SyncRows(v) # {}
    IN
    /\ review[r].pc = "invalidating"
    /\ Lock(r, IF mine THEN {VersionRow(v)} ELSE SyncRows(v))
    /\ review' = [review EXCEPT ![r].pc = IF mine THEN "committing" ELSE @]
    /\ UNCHANGED <<known, reviewed, projected, promo, run, observed, faults>>

\* _invalidate_structural_projection_jobs: FOR UPDATE, refused while RUNNING.
LockSyncJobs(r) ==
    LET v == review[r].version IN
    /\ review[r].pc = "invalidating"
    /\ Lock(r, SyncRows(v))
    /\ \A t \in Targets : sync[v][t] # "running"
    /\ review' = [review EXCEPT ![r].pc = "committing"]
    /\ UNCHANGED <<known, reviewed, projected, promo, run, observed, faults>>

\* Variant: the jobs of the version keep their status.
KeepJobs(v) == sync

\* All the SyncJobs of the version go back to PENDING.
InvalidateJobs(v) ==
    [sync EXCEPT ![v] = [t \in Targets |-> IF @[t] = "none" THEN "none" ELSE "pending"]]

\* _record and the commit: the revision is the one read plus one, and a status
\* equal to the one read is not written.
CommitReview(r) ==
    LET w == review[r]
        v == w.version
        Old(i) == item[i].status
    IN
    /\ w.pc = "committing"
    /\ item' = [i \in Items |->
                  IF i \in w.items
                    THEN [status |-> IF w.new = w.seen[i].status THEN Old(i) ELSE w.new,
                          revision |-> w.seen[i].revision + 1]
                    ELSE item[i]]
    /\ payload' = [i \in Items |-> IF i \in w.items /\ w.new = "corrected"
                                     THEN payload[i] + 1 ELSE payload[i]]
    /\ sync' = IF Invalidates(r) THEN InvalidateJobs(v) ELSE sync
    /\ blind' = IF ~Invalidates(r) /\ version[v] = "active"
                     /\ (w.new \in Publishable \/ \E i \in w.items : Old(i) \in Publishable)
                  THEN blind \cup {v} ELSE blind
    /\ review' = [review EXCEPT ![r] = NoReview]
    /\ Release(r)
    /\ UNCHANGED <<known, store, promo, run, late, torn, merged, faults>>

\* The request is refused or its transaction rolls back.
RefuseReview(r) ==
    /\ review[r].pc # "idle"
    /\ review' = [review EXCEPT ![r] = NoReview]
    /\ Release(r)
    /\ UNCHANGED <<known, reviewed, projected, promo, run, observed, faults>>

-----------------------------------------------------------------------------
(* The promotion gate: KnowledgePromotionService.promote.                  *)

GoOn(p, pc) == promo' = [promo EXCEPT ![p].pc = pc]

OpenPromotion(p, v) ==
    /\ promo[p].pc = "idle"
    /\ version[v] = "imported"
    /\ Lock(p, {VersionRow(v)})
    /\ promo' = [promo EXCEPT ![p] = [pc |-> "finding", candidate |-> v, active |-> None]]
    /\ UNCHANGED <<known, reviewed, projected, review, run, observed, faults>>

\* _active_version FOR UPDATE: the row is found in the statement's snapshot ...
FindActive(p) ==
    /\ promo[p].pc = "finding"
    /\ promo' = [promo EXCEPT ![p].active = ActiveOrNone,
                              ![p].pc = IF Actives = {} THEN "assessing" ELSE "waiting"]
    /\ UNCHANGED <<known, reviewed, projected, review, run, holds, observed, faults>>

\* ... and, once it is locked, kept only if it still is ACTIVE.
LockActive(p) ==
    LET a == promo[p].active IN
    /\ promo[p].pc = "waiting"
    /\ Free(p, {VersionRow(a)})
    /\ IF version[a] = "active"
         THEN /\ Lock(p, {VersionRow(a)})
              /\ GoOn(p, "assessing")
         ELSE /\ promo' = [promo EXCEPT ![p].active = None, ![p].pc = "assessing"]
              /\ UNCHANGED holds
    /\ UNCHANGED <<known, reviewed, projected, review, run, observed, faults>>

\* A pipeline job that synchronises v is shown as RUNNING.
JobRunning(v) ==
    \E s \in Syncers \cap InApi : run[s].version = v /\ run[s].pc \notin {"idle", "queued"}

\* A bootstrap needs the backbone reviewed, a replacement what is NEW or
\* MODIFIED.
ToReview(v, a) ==
    {i \in ItemsOf(v) : IF a = None THEN i \in Backbone ELSE ~Unchanged(i, a)}

\* Variant: the candidate may come from any version.
PassGateFromAnyBase(p) ==
    LET v == promo[p].candidate
        a == promo[p].active
    IN
    /\ promo[p].pc = "assessing"
    /\ \A i \in ToReview(v, a) : item[i].status \in Publishable
    /\ a # None => ~JobRunning(a)
    /\ \A t \in Targets : sync[v][t] = "none"
    /\ GoOn(p, "promoting")
    /\ UNCHANGED <<known, reviewed, projected, review, run, holds, observed, faults>>

\* assess finds no blocker: the candidate comes from the ACTIVE version, its
\* required items are publishable, nothing projects the ACTIVE version and the
\* candidate has no SyncJob.
PassGate(p) ==
    LET v == promo[p].candidate
        a == promo[p].active
    IN
    /\ promo[p].pc = "assessing"
    /\ base[v] = a
    /\ \A i \in ToReview(v, a) : item[i].status \in Publishable
    /\ a # None => ~JobRunning(a) /\ \A t \in Targets : sync[a][t] # "running"
    /\ \A t \in Targets : sync[v][t] = "none"
    /\ GoOn(p, "promoting")
    /\ UNCHANGED <<known, reviewed, projected, review, run, holds, observed, faults>>

\* Variant: the replaced version may be promoted again.
Reopened(v, a) ==
    [u \in Versions |-> IF u = v THEN "active" ELSE IF u = a THEN "imported" ELSE version[u]]

Replaced(v, a) ==
    [u \in Versions |-> IF u = v THEN "active" ELSE IF u = a THEN "archived" ELSE version[u]]

\* The ACTIVE version is looked up again, archived and replaced; the partial
\* unique index refuses a second ACTIVE version.
CommitPromotion(p) ==
    LET v == promo[p].candidate
        a == promo[p].active
    IN
    /\ promo[p].pc = "promoting"
    /\ Actives = {a} \ {None}
    /\ version' = Replaced(v, a)
    /\ previous' = [previous EXCEPT ![v] = a]
    /\ sync' = [sync EXCEPT ![v] = [t \in Targets |-> "pending"]]
    /\ promo' = [promo EXCEPT ![p] = NoPromotion]
    /\ Release(p)
    /\ UNCHANGED <<base, reviewed, store, review, run, observed, faults>>

\* A blocker, a changed ACTIVE version or the index: the transaction rolls back.
RefusePromotion(p) ==
    /\ promo[p].pc # "idle"
    /\ promo' = [promo EXCEPT ![p] = NoPromotion]
    /\ Release(p)
    /\ UNCHANGED <<known, reviewed, projected, review, run, observed, faults>>

-----------------------------------------------------------------------------
(* Structural synchronisations.  A syncer in the API is the pipeline worker *)
(* with its executor; one outside is the synchronisation script.            *)

Move(s, pc) == run' = [run EXCEPT ![s].pc = pc]
Job(s) == <<run[s].version, TargetOf[s]>>
Entry(s) == sync[run[s].version][TargetOf[s]]
SetEntry(s, new) == sync' = [sync EXCEPT ![run[s].version][TargetOf[s]] = new]
EndRun(s) == run' = [run EXCEPT ![s] = NoRun] /\ Release(s)
Touching == {"writing", "cleared", "upserted", "dropped"}

\* The route pins the ACTIVE version; the worker commits RUNNING later.
QueueSync(s, v) ==
    /\ s \in InApi /\ run[s].pc = "idle"
    /\ version[v] = "active"
    /\ run' = [run EXCEPT ![s].pc = "queued", ![s].version = v]
    /\ UNCHANGED <<known, reviewed, projected, review, promo, holds, observed, faults>>

StartSync(s) ==
    /\ run[s].pc = "queued"
    /\ Move(s, "running")
    /\ UNCHANGED <<known, reviewed, projected, review, promo, holds, observed, faults>>

\* fail_preflight_sync: preparing the projection failed before the run.
FailPreflight(s) ==
    /\ run[s].pc = "running" /\ Entry(s) # "none"
    /\ Free(s, {SyncRow(run[s].version, TargetOf[s])})
    /\ faults < MaxFaults /\ faults' = faults + 1
    /\ SetEntry(s, "failed")
    /\ EndRun(s)
    /\ UNCHANGED <<known, reviewed, store, review, promo, observed>>

\* _require_active_version reads the version without a lock.
ReadActive(s) ==
    /\ run[s].pc = "running"
    /\ version[run[s].version] = "active"
    /\ Move(s, "seen")
    /\ UNCHANGED <<known, reviewed, projected, review, promo, holds, observed, faults>>

\* run() then locks the row in the same session and tests the status of the
\* object already read: the test always passes.
LockVersion(s) ==
    /\ run[s].pc = "seen"
    /\ Lock(s, {VersionRow(run[s].version)})
    /\ Move(s, "locked")
    /\ UNCHANGED <<known, reviewed, projected, review, promo, observed, faults>>

\* The script's first read of the version is the locked one.
BeginCliSync(s, v) ==
    /\ s \notin InApi /\ run[s].pc = "idle"
    /\ version[v] = "active"
    /\ Lock(s, {VersionRow(v)})
    /\ run' = [run EXCEPT ![s].pc = "locked", ![s].version = v]
    /\ UNCHANGED <<known, reviewed, projected, review, promo, observed, faults>>

\* Variant: RUNNING is committed before the store is written.
LockSyncJobCommitting(s) ==
    /\ run[s].pc = "locked"
    /\ Lock(s, {SyncRow(run[s].version, TargetOf[s])})
    /\ SetEntry(s, "running")
    /\ run' = [run EXCEPT ![s].pc = "writing", ![s].plan = Planned(run[s].version, TargetOf[s])]
    /\ UNCHANGED <<known, reviewed, store, review, promo, observed, faults>>

\* The SyncJob is locked, then the publishable items are read; a graph is projected
\* without any only by a script run with --allow-empty.  The RUNNING that run() writes
\* next is only flushed, never committed.
LockSyncJob(s) ==
    LET plan == Planned(run[s].version, TargetOf[s])
        todo == Documents(run[s].version, TargetOf[s])
    IN
    /\ run[s].pc = "locked"
    /\ Lock(s, {SyncRow(run[s].version, TargetOf[s])})
    /\ Entry(s) \notin {"none", "running"}
    /\ TargetOf[s] \in Graph /\ s \in InApi => todo # {}
    /\ run' = [run EXCEPT ![s].pc = "writing", ![s].plan = plan, ![s].todo = todo]
    /\ UNCHANGED <<known, reviewed, projected, review, promo, observed, faults>>

\* replace_version: every node of the version is deleted first.
ClearVersion(s) ==
    LET t == TargetOf[s] IN
    /\ run[s].pc = "writing" /\ t \in Graph /\ s \in Replacing
    /\ store' = [store EXCEPT ![t] =
                    [i \in Items |-> IF VersionOf[i] = run[s].version THEN Absent ELSE @[i]]]
    /\ late' = IF version[run[s].version] = "active" THEN late ELSE late \cup {run[s].version}
    /\ merged' = merged \ {Job(s)}
    /\ Move(s, "cleared")
    /\ UNCHANGED <<known, reviewed, sync, review, promo, holds, blind, torn, faults>>

\* The plan is written once the version was cleared, if it is to be.
Upserting(s) ==
    run[s].pc = IF TargetOf[s] \in Graph /\ s \in Replacing THEN "cleared" ELSE "writing"

\* What an upsert makes of the entry of item i.
Put(s, i) ==
    IF TargetOf[s] \in Graph THEN MergedInto(store[TargetOf[s]][i], i, run[s].plan[i])
    ELSE New(run[s].plan[i])

\* One batch of upsert_nodes or of the ChromaDB upsert.
Upsert(s) ==
    /\ Upserting(s)
    /\ \E i \in run[s].todo :
          /\ store' = [store EXCEPT ![TargetOf[s]][i] = Put(s, i)]
          /\ run' = [run EXCEPT ![s].todo = @ \ {i}]
    /\ late' = IF version[run[s].version] = "active" THEN late ELSE late \cup {run[s].version}
    /\ UNCHANGED <<known, reviewed, sync, review, promo, holds, blind, torn, merged, faults>>

\* Variant: entries that left the plan stay in ChromaDB too.
PruneNothing(s) ==
    /\ Upserting(s) /\ run[s].todo = {}
    /\ Move(s, "upserted")
    /\ UNCHANGED <<known, reviewed, projected, review, promo, holds, observed, faults>>

\* ChromaRepository.sync deletes the entries of the version that the plan does
\* not have; the upsert of Neo4j leaves them.
Prune(s) ==
    LET t == TargetOf[s] IN
    /\ Upserting(s) /\ run[s].todo = {}
    /\ store' = IF t \in Graph THEN store
                ELSE [store EXCEPT ![t] =
                        [i \in Items |-> IF VersionOf[i] = run[s].version /\ run[s].plan[i] = Absent
                                           THEN Absent ELSE @[i]]]
    /\ merged' = IF t \in Graph /\ s \notin Replacing THEN merged \cup {Job(s)} ELSE merged
    /\ Move(s, "upserted")
    /\ UNCHANGED <<known, reviewed, sync, review, promo, holds, blind, late, torn, faults>>

\* Variant: the predecessor is forgotten.
DropNothing(s) ==
    /\ run[s].pc = "upserted"
    /\ Move(s, "dropped")
    /\ UNCHANGED <<known, reviewed, projected, review, promo, holds, observed, faults>>

\* ProjectionReplacementService.resolve, delete_version: the predecessor that
\* the promotion recorded is removed.
DropPrevious(s) ==
    LET t == TargetOf[s]
        u == previous[run[s].version]
    IN
    /\ run[s].pc = "upserted"
    /\ store' = [store EXCEPT ![t] = [i \in Items |-> IF VersionOf[i] = u THEN Absent ELSE @[i]]]
    /\ Move(s, "dropped")
    /\ UNCHANGED <<known, reviewed, sync, review, promo, holds, observed, faults>>

CommitSync(s) ==
    /\ run[s].pc = "dropped"
    /\ SetEntry(s, "succeeded")
    /\ torn' = torn \ {Job(s)}
    /\ EndRun(s)
    /\ UNCHANGED <<known, reviewed, store, review, promo, blind, late, merged, faults>>

\* The store raises: run() records FAILED and the transaction commits.
StoreFails(s) ==
    /\ run[s].pc \in Touching
    /\ faults < MaxFaults /\ faults' = faults + 1
    /\ SetEntry(s, "failed")
    /\ EndRun(s)
    /\ UNCHANGED <<known, reviewed, store, review, promo, observed>>

\* The transaction of a run that wrote to the store rolls back: the SyncJob
\* keeps the status it had before the run.
LoseRun(s) ==
    /\ run[s].pc \in Touching
    /\ faults < MaxFaults /\ faults' = faults + 1
    /\ torn' = torn \cup {Job(s)}
    /\ EndRun(s)
    /\ UNCHANGED <<known, reviewed, projected, review, promo, blind, late, merged>>

\* A refusal before anything is written: not ACTIVE, no SyncJob, no item.
RefuseSync(s) ==
    /\ run[s].pc \in {"queued", "running", "seen", "locked"}
    /\ EndRun(s)
    /\ UNCHANGED <<known, reviewed, projected, review, promo, observed, faults>>

-----------------------------------------------------------------------------
\* The API process dies and starts again: its transactions roll back, and
\* recover_orphaned_jobs closes the SyncJobs that the database shows as RUNNING.
RestartApi ==
    LET cut == {s \in Syncers \cap InApi : run[s].pc \in Touching}
        shown == {s \in Syncers \cap InApi : run[s].pc \notin {"idle", "queued"}}
    IN
    /\ faults < MaxFaults /\ faults' = faults + 1
    /\ review' = [r \in Reviewers |-> IF r \in InApi THEN NoReview ELSE review[r]]
    /\ promo' = [p \in Promoters |-> IF p \in InApi THEN NoPromotion ELSE promo[p]]
    /\ run' = [s \in Syncers |-> IF s \in InApi THEN NoRun ELSE run[s]]
    /\ holds' = [p \in Sessions |-> IF p \in InApi THEN {} ELSE holds[p]]
    /\ sync' = [v \in Versions |-> [t \in Targets |->
                  IF sync[v][t] = "running" /\ \E s \in shown : Job(s) = <<v, t>>
                    THEN "failed" ELSE sync[v][t]]]
    /\ torn' = torn \cup {Job(s) : s \in cut}
    /\ UNCHANGED <<known, reviewed, store, blind, late, merged>>

-----------------------------------------------------------------------------
(* Properties.                                                             *)

\* LineageIsAChain: there is one ACTIVE version at most, a promoted version
\* replaced exactly the version it was reconciled against, no version was
\* replaced twice and what was replaced is archived, as
\* ProjectionReplacementService.resolve takes for granted.
LineageIsAChain ==
    /\ Cardinality(Actives) <= 1
    /\ \A u, v \in Versions : previous[u] = previous[v] /\ previous[u] # None => u = v
    /\ \A v \in Versions : previous[v] # None =>
          /\ version[v] \in {"active", "archived"}
          /\ version[previous[v]] = "archived"
          /\ previous[v] = base[v]

\* A run is writing the projection of v to t.
InProgress(v, t) ==
    \E s \in Syncers : run[s].pc \in Touching /\ Job(s) = <<v, t>>

\* What the store may have of payload n: the payload alone, or with properties of older
\* payloads in a graph that was upserted without replace_version.
Shows(v, t, n) ==
    {[payload |-> n, left |-> l] : l \in IF <<v, t>> \in merged THEN SUBSET Property ELSE {{}}}

\* ProjectionFresh: while the SyncJob of the ACTIVE version says SUCCEEDED, the
\* store has the effective payload of every publishable item (ChromaDB: that has a safe
\* label) and nothing else of that version, unless a review based on a stale read changed
\* the version without invalidating it, or a run was cut after it wrote.  A graph that was
\* upserted since its last replacement has those payloads too, but it may keep properties
\* and nodes of older ones.
ProjectionFresh ==
    \A v \in Actives, t \in Targets :
        sync[v][t] = "succeeded" /\ v \notin blind /\ <<v, t>> \notin torn /\ ~InProgress(v, t)
            => \A i \in ItemsOf(v) :
                  IF Planned(v, t)[i] # Absent
                    THEN store[t][i] \in Shows(v, t, Planned(v, t)[i])
                    ELSE <<v, t>> \in merged \/ store[t][i] = Absent

\* PredecessorGone: once the ACTIVE version is synchronised, the store has
\* nothing of the version it replaced, unless that one was projected after it
\* was archived.
PredecessorGone ==
    \A v \in Actives, t \in Targets :
        sync[v][t] = "succeeded" /\ previous[v] # None /\ previous[v] \notin late
            => \A i \in ItemsOf(previous[v]) : store[t][i] = Absent

\* ArchivedNotProjected: "La version dejo de ser ACTIVE; la proyeccion ... se
\* cancelo de forma segura": no run writes the projection of a version that is
\* no longer ACTIVE.
ArchivedNotProjected == late = {}

\* ReviewsAreSerial: "Conflicto de revision concurrente": a review is recorded
\* on the revision the reviewer saw, so every recorded review moves the
\* revision of its item by one and none overwrites another.
ReviewsAreSerial ==
    [][\A i \in Items : version[VersionOf[i]] # "none" /\ item'[i] # item[i]
          => item'[i].revision = item[i].revision + 1]_vars

\* ProjectionSound: both promises of a projection at once, where replace_version and
\* imports that activate their version compete with promotions and corrections.
ProjectionSound == ProjectionFresh /\ PredecessorGone

History == INSTANCE VersionHistory WITH
    current <- ActiveOrNone,
    retired <- {v \in Versions : version[v] = "archived"}

\* ImplementsHistory: however promotions, direct imports and crashes
\* interleave, versions are published one at a time and never come back.
ImplementsHistory == History!Spec

-----------------------------------------------------------------------------
ReviewStep(r) ==
    \/ \E i \in Items, new \in Statuses : BeginApiReview(r, i, new) \/ BeginCliReview(r, i, new)
    \/ \E v \in Versions : \E is \in SUBSET ItemsOf(v) : BeginPackage(r, v, is)
    \/ LockItem(r) \/ LockSyncJobs(r) \/ CommitReview(r) \/ RefuseReview(r)

PromotionStep(p) ==
    \/ \E v \in Versions : OpenPromotion(p, v)
    \/ FindActive(p) \/ LockActive(p) \/ PassGate(p) \/ CommitPromotion(p) \/ RefusePromotion(p)

SyncStep(s) ==
    \/ \E v \in Versions : QueueSync(s, v) \/ BeginCliSync(s, v)
    \/ StartSync(s) \/ FailPreflight(s) \/ ReadActive(s) \/ LockVersion(s) \/ LockSyncJob(s)
    \/ ClearVersion(s) \/ Upsert(s) \/ Prune(s) \/ DropPrevious(s) \/ CommitSync(s)
    \/ StoreFails(s) \/ LoseRun(s) \/ RefuseSync(s)

Next ==
    \/ \E v \in Versions : ImportCandidate(v) \/ ImportAndActivate(v)
    \/ \E r \in Reviewers : ReviewStep(r)
    \/ \E p \in Promoters : PromotionStep(p)
    \/ \E s \in Syncers : SyncStep(s)
    \/ RestartApi

Spec == Init /\ [][Next]_vars

\* Every open transaction goes on.  A lock is strong: PostgreSQL serves the
\* waiters of a row in order, so a session is not overtaken for ever.
Fairness ==
    /\ \A r \in Reviewers : /\ SF_vars(LockItem(r)) /\ SF_vars(LockSyncJobs(r))
                            /\ WF_vars(CommitReview(r))
    /\ \A p \in Promoters : /\ WF_vars(FindActive(p)) /\ SF_vars(LockActive(p))
                            /\ WF_vars(promo[p].pc \in {"assessing", "promoting"}
                                         /\ RefusePromotion(p))
    /\ \A s \in Syncers : /\ SF_vars(LockSyncJob(s))
                          /\ WF_vars(ClearVersion(s)) /\ WF_vars(Upsert(s)) /\ WF_vars(Prune(s))
                          /\ WF_vars(DropPrevious(s)) /\ WF_vars(CommitSync(s))

FairSpec == Spec /\ Fairness

\* TransactionsEnd: no lock order of reviews, packages, promotions and
\* synchronisations deadlocks: a session that holds a row releases it.
TransactionsEnd == \A p \in Sessions : holds[p] # {} ~> holds[p] = {}

=============================================================================
