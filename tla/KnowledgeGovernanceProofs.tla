---------------------- MODULE KnowledgeGovernanceProofs ----------------------
(***************************************************************************)
(* What KnowledgeGovernance promises, for any number of versions, items,   *)
(* targets and sessions.  The inductive invariant has five parts, and a    *)
(* sixth as long as nobody reviews a single item over HTTP:                *)
(*   Typed   types, and every transaction that has begun is about a version *)
(*   Chain   the lineage: what was published and what replaced what        *)
(*   Held    the row locks, and what a session has locked when it writes   *)
(*   Gone    what the deletion of a predecessor leaves in the stores       *)
(*   Fresh   what a run that writes has written so far                     *)
(*   Serial  what a review has seen is what the items it holds still say   *)
(* Chain needs Typed, Held needs both, Gone, Fresh and Serial the three.   *)
(***************************************************************************)
EXTENDS KnowledgeGovernance, TLAPS, FiniteSetTheorems

-----------------------------------------------------------------------------
(* Types.                                                                  *)

\* A transaction that has begun is about a version, and a run writes what it planned.
Pinned ==
    /\ \A r \in Reviewers : review[r].pc # "idle" => review[r].version \in Versions
    /\ \A p \in Promoters :
          /\ promo[p].pc # "idle" => promo[p].candidate \in Versions
          /\ promo[p].pc = "waiting" => promo[p].active \in Versions
    /\ \A s \in Syncers :
          /\ run[s].pc # "idle" => run[s].version \in Versions
          /\ \A i \in run[s].todo : run[s].plan[i] # Absent

Typed == TypeOK /\ Pinned

ReviewTx ==
    [pc : {"idle", "locking", "invalidating", "committing"},
     version : Versions \cup {None}, items : SUBSET Items, new : Statuses,
     seen : [Items -> ReviewState], active : BOOLEAN]
ReviewsPinned(w) ==
    /\ w \in [Reviewers -> ReviewTx]
    /\ \A r \in Reviewers : w[r].pc # "idle" => w[r].version \in Versions

\* The initial state has the types.
LEMMA InitTyped == Init => Typed
  BY ItemAssumption, LimitAssumption
     DEF Init, Typed, TypeOK, Pinned, NoReview, NoPromotion, NoRun, Contents, Entries, ReviewState,
         Statuses

\* ActiveOrNone picks an ACTIVE version when there is one.
LEMMA ActiveFacts == ActiveOrNone \in Versions \cup {None} /\ (Actives # {} => ActiveOrNone \in Actives)
  BY DEF ActiveOrNone, Actives

\* A review that is carried forward is a review state.
LEMMA CarriedFacts ==
    ASSUME Typed, NEW v \in Versions, NEW i \in ItemsOf(v)
    PROVE  Carried(v)[i].status \in Statuses /\ Carried(v)[i].revision \in Nat
           /\ Carried(v)[i].payload \in Nat
  BY ItemAssumption DEF Typed, TypeOK, Carried, ItemsOf, Unchanged, ReviewState, Statuses

\* An import leaves every item a review state.
LEMMA ImportItemsTyped ==
    ASSUME Typed, NEW v \in Versions, ImportItems(v)
    PROVE  item' \in [Items -> ReviewState] /\ payload' \in [Items -> Nat]
  BY CarriedFacts DEF ImportItems, Typed, TypeOK, ReviewState

\* Imports keep the types.
LEMMA ImportTyped ==
    ASSUME Typed, NEW v \in Versions, ImportCandidate(v) \/ ImportAndActivate(v)
    PROVE  Typed'
  <1>1. CASE ImportCandidate(v)
    BY <1>1, ActiveFacts, ImportItemsTyped DEF ImportCandidate, Typed, TypeOK, Pinned, projected, observed
  <1>2. CASE ImportAndActivate(v)
    BY <1>2, ImportItemsTyped DEF ImportAndActivate, Typed, TypeOK, Pinned, observed
  <1> QED BY <1>1, <1>2

\* A review transaction that begins is one.
LEMMA BeginTyped ==
    ASSUME Typed, NEW r \in Reviewers, NEW v \in Versions, NEW is \in SUBSET Items,
           NEW new \in Statuses, NEW pc \in {"locking", "invalidating", "committing"},
           Begin(r, v, is, new, pc)
    PROVE  ReviewsPinned(review')
  <1>1. Seen(is) \in [Items -> ReviewState]
    BY DEF Seen, NoReview, Typed, TypeOK, ReviewState, Statuses
  <1> QED BY <1>1 DEF Begin, Typed, TypeOK, Pinned, ReviewsPinned, ReviewTx

\* A lock adds rows to what a session holds.
LEMMA LockTyped ==
    ASSUME holds \in [Sessions -> SUBSET Rows], NEW p \in Sessions, NEW rows \in SUBSET Rows,
           Lock(p, rows)
    PROVE  holds' \in [Sessions -> SUBSET Rows]
  BY DEF Lock

\* The rows that the transactions lock are rows.
LEMMA RowFacts ==
    /\ \A i \in Items : ItemRow(i) \in Rows
    /\ \A v \in Versions : VersionRow(v) \in Rows
    /\ \A v \in Versions, t \in Targets : SyncRow(v, t) \in Rows
    /\ \A v \in Versions : SyncRows(v) \in SUBSET Rows
  BY DEF Rows, SyncRows

\* Reviews keep the types.
LEMMA ReviewTyped ==
    ASSUME Typed, NEW r \in Reviewers, ReviewStep(r)
    PROVE  Typed'
  <1> USE DEF Typed, known, reviewed, projected, observed
  <1> r \in Sessions BY DEF Sessions
  <1>1. ASSUME NEW i \in Items, NEW new \in Statuses, BeginApiReview(r, i, new) PROVE Typed'
    <2>1. VersionOf[i] \in Versions /\ {i} \in SUBSET Items
      BY ItemAssumption
    <2>2. Begin(r, VersionOf[i], {i}, new, "locking")
      BY <1>1 DEF BeginApiReview
    <2>3. ReviewsPinned(review')
      BY <2>1, <2>2, BeginTyped
    <2> QED BY <1>1, <2>3 DEF BeginApiReview, TypeOK, Pinned, ReviewsPinned, ReviewTx
  <1>2. ASSUME NEW i \in Items, NEW new \in Statuses, BeginCliReview(r, i, new) PROVE Typed'
    <2>1. VersionOf[i] \in Versions /\ ItemRow(i) \in Rows
      BY ItemAssumption DEF Rows
    <2>2. AfterLock(r, version[VersionOf[i]] = "active", new, {i}) \in {"invalidating", "committing"}
      BY DEF AfterLock
    <2>3. holds' \in [Sessions -> SUBSET Rows]
      BY <1>2, <2>1, LockTyped DEF BeginCliReview, TypeOK
    <2>4. ReviewsPinned(review')
      <3> DEFINE pc == AfterLock(r, version[VersionOf[i]] = "active", new, {i})
      <3>1. Begin(r, VersionOf[i], {i}, new, pc) /\ {i} \in SUBSET Items
        BY <1>2 DEF BeginCliReview
      <3>2. pc \in {"locking", "invalidating", "committing"}
        BY <2>2
      <3> HIDE DEF pc
      <3> QED BY <2>1, <3>1, <3>2, BeginTyped
    <2> QED BY <1>2, <2>3, <2>4 DEF BeginCliReview, TypeOK, Pinned, ReviewsPinned, ReviewTx
  <1>3. ASSUME NEW v \in Versions, NEW is \in SUBSET ItemsOf(v), BeginPackage(r, v, is) PROVE Typed'
    <2>1. is \in SUBSET Items /\ "approved" \in Statuses
      BY DEF ItemsOf, Statuses
    <2>2. holds' \in [Sessions -> SUBSET Rows]
      <3>1. {VersionRow(v)} \cup {ItemRow(i) : i \in ItemsOf(v)} \in SUBSET Rows
        BY RowFacts DEF ItemsOf
      <3> QED BY <1>3, <3>1, LockTyped DEF BeginPackage, TypeOK
    <2>3. ReviewsPinned(review')
      <3>1. Begin(r, v, is, "approved", "invalidating")
        BY <1>3 DEF BeginPackage
      <3> QED BY <2>1, <3>1, BeginTyped
    <2> QED BY <1>3, <2>2, <2>3 DEF BeginPackage, TypeOK, Pinned, ReviewsPinned, ReviewTx
  <1>4. ASSUME LockItem(r) PROVE Typed'
    <2>1. holds' \in [Sessions -> SUBSET Rows]
      <3>1. {ItemRow(i) : i \in review[r].items} \in SUBSET Rows
        BY RowFacts DEF TypeOK
      <3> QED BY <1>4, <3>1, LockTyped DEF LockItem, TypeOK
    <2>2. ReviewsPinned(review')
      <3>1. PICK pc \in {"invalidating", "committing"} : review' = [review EXCEPT ![r].pc = pc]
        BY <1>4 DEF LockItem
      <3>2. review[r].version \in Versions
        BY <1>4 DEF LockItem, Pinned
      <3>3. [review[r] EXCEPT !.pc = pc] \in ReviewTx
            /\ [review[r] EXCEPT !.pc = pc].version = review[r].version
        <4>1. review[r] \in ReviewTx
          BY DEF TypeOK, ReviewTx
        <4> QED BY <4>1 DEF ReviewTx
      <3>4. review' = [review EXCEPT ![r] = [review[r] EXCEPT !.pc = pc]]
        BY <3>1
      <3> QED BY <3>2, <3>3, <3>4 DEF TypeOK, Pinned, ReviewsPinned, ReviewTx
    <2> QED BY <1>4, <2>1, <2>2 DEF LockItem, TypeOK, Pinned, ReviewsPinned, ReviewTx
  <1>5. ASSUME LockSyncJobs(r) PROVE Typed'
    <2>1. holds' \in [Sessions -> SUBSET Rows]
      <3>1. SyncRows(review[r].version) \in SUBSET Rows
        BY <1>5, RowFacts DEF LockSyncJobs, Pinned
      <3> QED BY <1>5, <3>1, LockTyped DEF LockSyncJobs, TypeOK
    <2>2. ReviewsPinned(review')
      <3>1. PICK pc \in {"invalidating", "committing"} : review' = [review EXCEPT ![r].pc = pc]
        BY <1>5 DEF LockSyncJobs
      <3>2. review[r].version \in Versions
        BY <1>5 DEF LockSyncJobs, Pinned
      <3>3. [review[r] EXCEPT !.pc = pc] \in ReviewTx
            /\ [review[r] EXCEPT !.pc = pc].version = review[r].version
        <4>1. review[r] \in ReviewTx
          BY DEF TypeOK, ReviewTx
        <4> QED BY <4>1 DEF ReviewTx
      <3>4. review' = [review EXCEPT ![r] = [review[r] EXCEPT !.pc = pc]]
        BY <3>1
      <3> QED BY <3>2, <3>3, <3>4 DEF TypeOK, Pinned, ReviewsPinned, ReviewTx
    <2> QED BY <1>5, <2>1, <2>2 DEF LockSyncJobs, TypeOK, Pinned, ReviewsPinned, ReviewTx
  <1>6. ASSUME CommitReview(r) PROVE Typed'
    <2>1. item' \in [Items -> ReviewState]
      BY <1>6 DEF CommitReview, TypeOK, ReviewState
    <2>2. payload' \in [Items -> Nat]
      BY <1>6 DEF CommitReview, TypeOK
    <2>3. sync' \in [Versions -> [Targets -> {"none", "pending", "succeeded", "failed"}]]
      BY <1>6 DEF CommitReview, TypeOK, InvalidateJobs
    <2>4. blind' \subseteq Versions
      BY <1>6 DEF CommitReview, TypeOK, Pinned
    <2>5. NoReview \in ReviewTx /\ NoReview.pc = "idle"
      BY DEF NoReview, ReviewTx, ReviewState, Statuses
    <2> QED BY <1>6, <2>1, <2>2, <2>3, <2>4, <2>5 DEF CommitReview, ReviewTx, TypeOK, Pinned, Release
  <1>7. ASSUME RefuseReview(r) PROVE Typed'
    <2>5. NoReview \in ReviewTx /\ NoReview.pc = "idle"
      BY DEF NoReview, ReviewTx, ReviewState, Statuses
    <2> QED BY <1>7, <2>5 DEF RefuseReview, ReviewTx, TypeOK, Pinned, Release
  <1> QED BY <1>1, <1>2, <1>3, <1>4, <1>5, <1>6, <1>7 DEF ReviewStep

PromoTx ==
    [pc : {"idle", "finding", "waiting", "assessing", "promoting"},
     candidate : Versions \cup {None}, active : Versions \cup {None}]
PromosPinned(w) ==
    /\ w \in [Promoters -> PromoTx]
    /\ \A p \in Promoters :
          /\ w[p].pc # "idle" => w[p].candidate \in Versions
          /\ w[p].pc = "waiting" => w[p].active \in Versions

\* Promotions keep the types.
LEMMA PromotionTyped ==
    ASSUME Typed, NEW p \in Promoters, PromotionStep(p)
    PROVE  Typed'
  <1> USE DEF Typed, known, reviewed, projected, observed
  <1> p \in Sessions BY DEF Sessions
  <1>0. NoPromotion \in PromoTx /\ NoPromotion.pc = "idle"
    BY DEF NoPromotion, PromoTx
  <1>1. ASSUME NEW v \in Versions, OpenPromotion(p, v) PROVE Typed'
    <2>1. holds' \in [Sessions -> SUBSET Rows]
      <3>1. {VersionRow(v)} \in SUBSET Rows
        BY RowFacts
      <3> QED BY <1>1, <3>1, LockTyped DEF OpenPromotion, TypeOK
    <2> QED BY <1>1, <2>1 DEF OpenPromotion, TypeOK, Pinned
  <1>2. ASSUME FindActive(p) PROVE Typed'
    <2>1. PromosPinned(promo')
      <3>1. PICK pc \in {"assessing", "waiting"}, a \in Versions \cup {None} :
               /\ promo' = [promo EXCEPT ![p].active = a, ![p].pc = pc]
               /\ pc = "waiting" => a \in Versions
        BY <1>2, ActiveFacts DEF FindActive, Actives
      <3>2. promo \in [Promoters -> PromoTx] /\ promo[p] \in PromoTx /\ promo[p].candidate \in Versions
        BY <1>2 DEF FindActive, TypeOK, PromoTx, Pinned
      <3>3. PICK x \in PromoTx : x.candidate = promo[p].candidate /\ x.active = a /\ x.pc = pc
                                 /\ promo' = [promo EXCEPT ![p] = x]
        BY <3>1, <3>2 DEF PromoTx
      <3>4. \A q \in Promoters :
               /\ promo[q].pc # "idle" => promo[q].candidate \in Versions
               /\ promo[q].pc = "waiting" => promo[q].active \in Versions
        BY DEF Pinned
      <3> HIDE DEF Typed
      <3> QED BY <3>1, <3>2, <3>3, <3>4 DEF PromosPinned
    <2>2. UNCHANGED <<known, reviewed, projected, review, run, holds, observed, faults>>
      BY <1>2 DEF FindActive
    <2> QED BY <2>1, <2>2 DEF TypeOK, Pinned, PromosPinned, PromoTx
  <1>3. ASSUME LockActive(p) PROVE Typed'
    <2>1. PromosPinned(promo')
      <3>1. promo[p] \in PromoTx
        BY DEF TypeOK, PromoTx
      <3>2. LET on == [promo[p] EXCEPT !.pc = "assessing"]
                off == [promo[p] EXCEPT !.active = None, !.pc = "assessing"]
            IN {on, off} \subseteq {x \in PromoTx : /\ x.candidate = promo[p].candidate
                                                   /\ x.pc = "assessing"}
        BY <3>1 DEF PromoTx
      <3>3. PICK x \in PromoTx : /\ x.candidate = promo[p].candidate /\ x.pc = "assessing"
                                 /\ promo' = [promo EXCEPT ![p] = x]
        BY <1>3, <3>2 DEF LockActive, GoOn
      <3> QED BY <1>3, <3>3 DEF LockActive, TypeOK, Pinned, PromosPinned, PromoTx
    <2>2. CASE version[promo[p].active] = "active"
      <3>1. {VersionRow(promo[p].active)} \in SUBSET Rows
        BY <1>3, RowFacts DEF LockActive, Pinned
      <3>2. holds' \in [Sessions -> SUBSET Rows]
        BY <1>3, <2>2, <3>1, LockTyped DEF LockActive, TypeOK
      <3> QED BY <1>3, <2>1, <3>2 DEF LockActive, TypeOK, Pinned, PromosPinned, PromoTx
    <2>3. CASE ~(version[promo[p].active] = "active")
      BY <1>3, <2>1, <2>3 DEF LockActive, TypeOK, Pinned, PromosPinned, PromoTx
    <2> QED BY <2>2, <2>3
  <1>4. ASSUME PassGate(p) PROVE Typed'
    <2>1. PromosPinned(promo')
      <3>1. [promo[p] EXCEPT !.pc = "promoting"] \in PromoTx
            /\ [promo[p] EXCEPT !.pc = "promoting"].candidate = promo[p].candidate
            /\ [promo[p] EXCEPT !.pc = "promoting"].pc = "promoting"
        <4>1. promo[p] \in PromoTx
          BY DEF TypeOK, PromoTx
        <4> QED BY <4>1 DEF PromoTx
      <3>2. promo' = [promo EXCEPT ![p] = [promo[p] EXCEPT !.pc = "promoting"]]
        BY <1>4 DEF PassGate, GoOn
      <3> QED BY <1>4, <3>1, <3>2 DEF PassGate, TypeOK, Pinned, PromosPinned, PromoTx
    <2> QED BY <1>4, <2>1 DEF PassGate, TypeOK, Pinned, PromosPinned, PromoTx
  <1>5. ASSUME CommitPromotion(p) PROVE Typed'
    <2>1. PromosPinned(promo')
      BY <1>5, <1>0 DEF CommitPromotion, TypeOK, Pinned, PromosPinned, PromoTx
    <2>2. version' \in [Versions -> {"none", "imported", "active", "archived"}]
      BY <1>5 DEF CommitPromotion, Replaced, TypeOK
    <2> QED BY <1>5, <2>1, <2>2 DEF CommitPromotion, Release, TypeOK, Pinned, PromosPinned, PromoTx
  <1>6. ASSUME RefusePromotion(p) PROVE Typed'
    <2>1. PromosPinned(promo')
      BY <1>6, <1>0 DEF RefusePromotion, TypeOK, Pinned, PromosPinned, PromoTx
    <2> QED BY <1>6, <2>1 DEF RefusePromotion, Release, TypeOK, Pinned, PromosPinned, PromoTx
  <1> QED BY <1>1, <1>2, <1>3, <1>4, <1>5, <1>6 DEF PromotionStep

RunTx ==
    [pc : {"idle", "queued", "running", "seen", "locked", "writing", "cleared", "upserted", "dropped"},
     version : Versions \cup {None}, plan : [Items -> Contents], todo : SUBSET Items]
RunsPinned(w) ==
    /\ w \in [Syncers -> RunTx]
    /\ \A s \in Syncers :
          /\ w[s].pc # "idle" => w[s].version \in Versions
          /\ \A i \in w[s].todo : w[s].plan[i] # Absent

\* The runs, as records.
LEMMA RunFacts == Typed => /\ run \in [Syncers -> RunTx] /\ NoRun \in RunTx /\ NoRun.pc = "idle"
                           /\ NoRun.todo = {}
                           /\ \A s \in Syncers : run[s] \in RunTx
  BY DEF Typed, TypeOK, RunTx, NoRun, Contents

\* A run that goes on stays a run of its version.
LEMMA MoveTyped ==
    ASSUME Typed, NEW s \in Syncers, run[s].version \in Versions, Move(s, "seen") \/ Move(s, "running")
           \/ Move(s, "locked") \/ Move(s, "cleared") \/ Move(s, "upserted") \/ Move(s, "dropped")
    PROVE  RunsPinned(run')
  <1>1. PICK pc \in {"seen", "running", "locked", "cleared", "upserted", "dropped"} :
            run' = [run EXCEPT ![s] = [run[s] EXCEPT !.pc = pc]]
    BY DEF Move
  <1>2. /\ [run[s] EXCEPT !.pc = pc] \in RunTx /\ [run[s] EXCEPT !.pc = pc].version = run[s].version
        /\ [run[s] EXCEPT !.pc = pc].plan = run[s].plan /\ [run[s] EXCEPT !.pc = pc].todo = run[s].todo
    BY RunFacts DEF RunTx
  <1> QED BY <1>1, <1>2, RunFacts DEF RunsPinned, Typed, Pinned

\* A run that ends is idle and its session holds nothing.
LEMMA EndTyped ==
    ASSUME Typed, NEW s \in Syncers, EndRun(s)
    PROVE  RunsPinned(run') /\ holds' \in [Sessions -> SUBSET Rows]
  <1>1. RunsPinned(run')
    BY RunFacts DEF EndRun, RunsPinned, Typed, Pinned
  <1>2. holds' \in [Sessions -> SUBSET Rows]
    BY DEF EndRun, Release, Typed, TypeOK
  <1> QED BY <1>1, <1>2

\* The payloads that a run projects are contents.
LEMMA PlannedTyped == Typed => \A v, t : Planned(v, t) \in [Items -> Contents]
  BY DEF Typed, TypeOK, Effective, Planned, Contents

\* An entry of payload n, whatever properties older payloads left in it.
Mixed(n) == {[payload |-> n, left |-> l] : l \in SUBSET Property}

\* An upsert leaves an entry of the planned payload, and of nothing else where it did not
\* merge.
LEMMA PutFacts ==
    ASSUME Typed, NEW s \in Syncers, NEW i \in run[s].todo
    PROVE  /\ Put(s, i) \in Entries /\ Put(s, i) \in Mixed(run[s].plan[i])
           /\ TargetOf[s] \notin Graph \/ store[TargetOf[s]][i] = Absent
                  => Put(s, i) = New(run[s].plan[i])
  <1> DEFINE n == run[s].plan[i]
             e == store[TargetOf[s]][i]
  <1>1. i \in Items /\ n \in Nat /\ TargetOf[s] \in Targets
    BY RunFacts, TargetAssumption DEF RunTx, Typed, Pinned, Contents
  <1>2. e \in Entries
    BY <1>1 DEF Typed, TypeOK
  <1>3. \A m : GivenBy(i, m) \subseteq Property
    BY DEF GivenBy
  <1> HIDE DEF n, e
  <1>4. MergedInto(e, i, n) \in Mixed(n) /\ New(n) \in Mixed(n)
    <2>1. PICK l : l = IF e = Absent THEN {} ELSE (e.left \cup GivenBy(i, e.payload)) \ GivenBy(i, n)
      OBVIOUS
    <2>2. l \in SUBSET Property
      BY <1>2, <1>3, <2>1 DEF Entries
    <2> QED BY <2>1, <2>2 DEF MergedInto, New, Mixed
  <1>5. e = Absent => MergedInto(e, i, n) = New(n)
    BY DEF MergedInto, New
  <1>6. Mixed(n) \subseteq Entries
    BY <1>1 DEF Mixed, Entries
  <1>7. Put(s, i) = IF TargetOf[s] \in Graph THEN MergedInto(e, i, n) ELSE New(n)
    BY DEF Put, n, e
  <1> QED BY <1>4, <1>5, <1>6, <1>7 DEF n, e

\* A run records the status of one SyncJob.
LEMMA EntryTyped ==
    ASSUME Typed, NEW s \in Syncers, run[s].version \in Versions,
           NEW new \in {"failed", "succeeded"}, SetEntry(s, new)
    PROVE  sync' \in [Versions -> [Targets -> {"none", "pending", "succeeded", "failed"}]]
  <1> DEFINE v == run[s].version
  <1>1. [sync[v] EXCEPT ![TargetOf[s]] = new] \in [Targets -> {"none", "pending", "succeeded", "failed"}]
    BY DEF Typed, TypeOK
  <1>2. sync' = [sync EXCEPT ![v] = [sync[v] EXCEPT ![TargetOf[s]] = new]]
    BY DEF SetEntry, Typed, TypeOK
  <1> HIDE DEF v
  <1> QED BY <1>1, <1>2 DEF Typed, TypeOK

\* A step that is well typed in what a synchronisation writes is well typed.
LEMMA SyncFrame ==
    ASSUME Typed, UNCHANGED <<known, reviewed, review, promo, blind>>,
           RunsPinned(run'), holds' \in [Sessions -> SUBSET Rows],
           sync' \in [Versions -> [Targets -> {"none", "pending", "succeeded", "failed"}]],
           store' \in [Targets -> [Items -> Entries]], late' \subseteq Versions,
           torn' \subseteq Versions \X Targets, merged' \subseteq Versions \X Graph, faults' \in Nat
    PROVE  Typed'
  BY DEF Typed, TypeOK, Pinned, known, reviewed, RunsPinned, RunTx

\* Synchronisations keep the types.
LEMMA SyncTyped ==
    ASSUME Typed, NEW s \in Syncers, SyncStep(s)
    PROVE  Typed'
  <1> USE DEF known, reviewed, projected, observed
  <1> s \in Sessions BY DEF Sessions
  <1>a. /\ holds \in [Sessions -> SUBSET Rows] /\ late \subseteq Versions
        /\ torn \subseteq Versions \X Targets /\ faults \in Nat
        /\ sync \in [Versions -> [Targets -> {"none", "pending", "succeeded", "failed"}]]
        /\ store \in [Targets -> [Items -> Entries]] /\ merged \subseteq Versions \X Graph
        /\ TargetOf[s] \in Targets
    BY TargetAssumption DEF Typed, TypeOK
  <1>b. run[s].pc # "idle" => run[s].version \in Versions
    BY DEF Typed, Pinned
  <1>1. ASSUME NEW v \in Versions, QueueSync(s, v) PROVE Typed'
    <2>1. [run[s] EXCEPT !.pc = "queued", !.version = v] \in RunTx
          /\ [run[s] EXCEPT !.pc = "queued", !.version = v].version = v
          /\ [run[s] EXCEPT !.pc = "queued", !.version = v].plan = run[s].plan
          /\ [run[s] EXCEPT !.pc = "queued", !.version = v].todo = run[s].todo
      BY RunFacts DEF RunTx
    <2>2. run' = [run EXCEPT ![s] = [run[s] EXCEPT !.pc = "queued", !.version = v]]
      BY <1>1, RunFacts DEF QueueSync
    <2>3. RunsPinned(run')
      BY <2>1, <2>2, RunFacts DEF RunsPinned, Typed, Pinned
    <2> QED BY <1>1, <1>a, <2>3, SyncFrame DEF QueueSync
  <1>2. ASSUME NEW v \in Versions, BeginCliSync(s, v) PROVE Typed'
    <2>1. [run[s] EXCEPT !.pc = "locked", !.version = v] \in RunTx
          /\ [run[s] EXCEPT !.pc = "locked", !.version = v].version = v
          /\ [run[s] EXCEPT !.pc = "locked", !.version = v].plan = run[s].plan
          /\ [run[s] EXCEPT !.pc = "locked", !.version = v].todo = run[s].todo
      BY RunFacts DEF RunTx
    <2>2. run' = [run EXCEPT ![s] = [run[s] EXCEPT !.pc = "locked", !.version = v]]
      BY <1>2, RunFacts DEF BeginCliSync
    <2>3. RunsPinned(run')
      BY <2>1, <2>2, RunFacts DEF RunsPinned, Typed, Pinned
    <2>4. {VersionRow(v)} \in SUBSET Rows
      BY RowFacts
    <2>5. holds' \in [Sessions -> SUBSET Rows]
      BY <1>2, <1>a, <2>4, LockTyped DEF BeginCliSync
    <2> QED BY <1>2, <1>a, <2>3, <2>5, SyncFrame DEF BeginCliSync
  <1>3. ASSUME StartSync(s) PROVE Typed'
    BY <1>3, <1>a, <1>b, MoveTyped, SyncFrame DEF StartSync
  <1>4. ASSUME FailPreflight(s) PROVE Typed'
    BY <1>4, <1>a, <1>b, EntryTyped, EndTyped, SyncFrame DEF FailPreflight
  <1>5. ASSUME ReadActive(s) PROVE Typed'
    BY <1>5, <1>a, <1>b, MoveTyped, SyncFrame DEF ReadActive
  <1>6. ASSUME LockVersion(s) PROVE Typed'
    <2>1. {VersionRow(run[s].version)} \in SUBSET Rows
      BY <1>6, <1>b, RowFacts DEF LockVersion
    <2>2. holds' \in [Sessions -> SUBSET Rows]
      BY <1>6, <1>a, <2>1, LockTyped DEF LockVersion
    <2> QED BY <1>6, <1>a, <1>b, <2>2, MoveTyped, SyncFrame DEF LockVersion
  <1>7. ASSUME LockSyncJob(s) PROVE Typed'
    <2> DEFINE plan == Planned(run[s].version, TargetOf[s])
               todo == Documents(run[s].version, TargetOf[s])
               new == [run[s] EXCEPT !.pc = "writing", !.plan = plan, !.todo = todo]
    <2>1. plan \in [Items -> Contents] /\ todo \in SUBSET Items /\ \A i \in todo : plan[i] # Absent
      BY PlannedTyped DEF Documents
    <2>2. run' = [run EXCEPT ![s] = new]
      BY <1>7, RunFacts DEF LockSyncJob
    <2>3. new \in RunTx /\ new.version = run[s].version /\ \A i \in new.todo : new.plan[i] # Absent
      <3> HIDE DEF plan, todo
      <3>1. new.version = run[s].version /\ new.plan = plan /\ new.todo = todo
        BY RunFacts DEF RunTx
      <3>2. new \in RunTx
        BY <2>1, RunFacts DEF RunTx
      <3> HIDE DEF new
      <3> QED BY <2>1, <3>1, <3>2
    <2>4. RunsPinned(run')
      <3>1. PICK x : x = new
        OBVIOUS
      <3>2. run[s].version \in Versions /\ run \in [Syncers -> RunTx]
        BY <1>7, <1>b, RunFacts DEF LockSyncJob
      <3>3. \A q \in Syncers :
               /\ run[q].pc # "idle" => run[q].version \in Versions
               /\ \A i \in run[q].todo : run[q].plan[i] # Absent
        BY DEF Typed, Pinned
      <3>4. /\ run' = [run EXCEPT ![s] = x]
            /\ x \in RunTx /\ x.version \in Versions /\ \A i \in x.todo : x.plan[i] # Absent
        BY <2>2, <2>3, <3>1, <3>2
      <3> HIDE DEF new
      <3> QED BY <3>2, <3>3, <3>4 DEF RunsPinned
    <2>5. {SyncRow(run[s].version, TargetOf[s])} \in SUBSET Rows
      BY <1>7, <1>a, <1>b, RowFacts DEF LockSyncJob
    <2>6. holds' \in [Sessions -> SUBSET Rows]
      BY <1>7, <1>a, <2>5, LockTyped DEF LockSyncJob
    <2> QED BY <1>7, <1>a, <2>4, <2>6, SyncFrame DEF LockSyncJob
  <1>8. ASSUME ClearVersion(s) PROVE Typed'
    <2>1. store' \in [Targets -> [Items -> Entries]] /\ merged' \subseteq Versions \X Graph
      BY <1>8, <1>a DEF ClearVersion, Entries
    <2> QED BY <1>8, <1>a, <1>b, <2>1, MoveTyped, SyncFrame DEF ClearVersion
  <1>9. ASSUME Upsert(s) PROVE Typed'
    <2>1. PICK i \in run[s].todo :
              /\ store' = [store EXCEPT ![TargetOf[s]][i] = Put(s, i)]
              /\ run' = [run EXCEPT ![s].todo = @ \ {i}]
      BY <1>9 DEF Upsert
    <2>2. i \in Items /\ Put(s, i) \in Entries
      BY <2>1, RunFacts, PutFacts DEF RunTx
    <2>3. store' \in [Targets -> [Items -> Entries]]
      BY <1>a, <2>1, <2>2
    <2>4. [run[s] EXCEPT !.todo = @ \ {i}] \in RunTx
          /\ [run[s] EXCEPT !.todo = @ \ {i}].version = run[s].version
          /\ [run[s] EXCEPT !.todo = @ \ {i}].plan = run[s].plan
          /\ [run[s] EXCEPT !.todo = @ \ {i}].todo \subseteq run[s].todo
          /\ [run[s] EXCEPT !.todo = @ \ {i}].pc = run[s].pc
      BY RunFacts DEF RunTx
    <2>5. run' = [run EXCEPT ![s] = [run[s] EXCEPT !.todo = @ \ {i}]]
      BY <2>1, RunFacts
    <2>6. RunsPinned(run')
      BY <1>9, <1>b, <2>4, <2>5, RunFacts DEF RunsPinned, Typed, Pinned
    <2> QED BY <1>9, <1>a, <1>b, <2>3, <2>6, SyncFrame DEF Upsert, Upserting
  <1>10. ASSUME Prune(s) PROVE Typed'
    <2>1. store' \in [Targets -> [Items -> Entries]]
      BY <1>10, <1>a DEF Prune, Entries
    <2>2. merged' \subseteq Versions \X Graph
      BY <1>10, <1>a, <1>b DEF Prune, Job, Upserting
    <2> QED BY <1>10, <1>a, <1>b, <2>1, <2>2, MoveTyped, SyncFrame DEF Prune, Upserting
  <1>11. ASSUME DropPrevious(s) PROVE Typed'
    <2>1. store' \in [Targets -> [Items -> Entries]]
      BY <1>11, <1>a DEF DropPrevious, Entries
    <2> QED BY <1>11, <1>a, <1>b, <2>1, MoveTyped, SyncFrame DEF DropPrevious
  <1>12. ASSUME CommitSync(s) PROVE Typed'
    BY <1>12, <1>a, <1>b, EntryTyped, EndTyped, SyncFrame DEF CommitSync
  <1>13. ASSUME StoreFails(s) PROVE Typed'
    BY <1>13, <1>a, <1>b, EntryTyped, EndTyped, SyncFrame DEF StoreFails, Touching
  <1>14. ASSUME LoseRun(s) PROVE Typed'
    <2>1. torn' \subseteq Versions \X Targets
      BY <1>14, <1>a, <1>b DEF LoseRun, Job, Touching
    <2> QED BY <1>14, <1>a, <2>1, EndTyped, SyncFrame DEF LoseRun
  <1>15. ASSUME RefuseSync(s) PROVE Typed'
    BY <1>15, <1>a, EndTyped, SyncFrame DEF RefuseSync
  <1> QED BY <1>1, <1>2, <1>3, <1>4, <1>5, <1>6, <1>7, <1>8, <1>9, <1>10, <1>11, <1>12,
             <1>13, <1>14, <1>15 DEF SyncStep

\* A restart of the API keeps the types.
LEMMA RestartTyped == Typed /\ RestartApi => Typed'
  <1> SUFFICES ASSUME Typed, RestartApi PROVE Typed'
    OBVIOUS
  <1>1. review' \in [Reviewers -> ReviewTx] /\ promo' \in [Promoters -> PromoTx] /\ RunsPinned(run')
        /\ Pinned'
    BY RunFacts DEF RestartApi, Typed, TypeOK, Pinned, RunsPinned, ReviewTx, PromoTx, NoReview,
                    NoPromotion, ReviewState, Statuses
  <1>2. sync' \in [Versions -> [Targets -> {"none", "pending", "succeeded", "failed"}]]
    BY DEF RestartApi, Typed, TypeOK
  <1>3. torn' \subseteq Versions \X Targets
    BY TargetAssumption DEF RestartApi, Typed, TypeOK, Pinned, Job, Touching
  <1>4. holds' \in [Sessions -> SUBSET Rows]
    BY DEF RestartApi, Typed, TypeOK
  <1> QED BY <1>1, <1>2, <1>3, <1>4
          DEF RestartApi, Typed, TypeOK, RunsPinned, ReviewTx, PromoTx, RunTx, known, reviewed

\* Every step keeps the types.
LEMMA StepTyped == Typed /\ [Next]_vars => Typed'
  <1> SUFFICES ASSUME Typed, [Next]_vars PROVE Typed'
    OBVIOUS
  <1>1. CASE UNCHANGED vars
    BY <1>1 DEF vars, Typed, TypeOK, Pinned
  <1> QED BY <1>1, ImportTyped, ReviewTyped, PromotionTyped, SyncTyped, RestartTyped DEF Next

\* TypeCorrect: every column, transaction, lock and store entry keeps its type whatever
\* imports, reviews, promotions, synchronisations and restarts do; no SyncJob is ever
\* stored as RUNNING (StructuralSyncService.run only flushes that status).
THEOREM TypeCorrect == Spec => []TypeOK
  <1>1. Typed => TypeOK
    BY DEF Typed
  <1> QED BY InitTyped, StepTyped, <1>1, PTL DEF Spec

-----------------------------------------------------------------------------
(* The lineage of the versions.                                            *)

Published == {"active", "archived"}

\* The candidate of a promotion went through canonical_import; the gate compares it
\* with the version it was reconciled against.
Assessed(w) ==
    /\ w.pc # "idle" => version[w.candidate] # "none" /\ w.candidate \notin Direct
    /\ w.pc = "promoting" => base[w.candidate] = w.active

\* A published version that came through the gate replaced the version it was
\* reconciled against, which is archived; once a version is published one always is.
Chain ==
    /\ \A u, v \in Actives : u = v
    /\ (\E v \in Versions : version[v] \in Published) => Actives # {}
    /\ \A v \in Direct : version[v] # "imported"
    /\ \A v \in Versions : base[v] # None => version[base[v]] \in Published
    /\ \A v \in Versions \ Direct :
          version[v] \in Published /\ base[v] # None => version[base[v]] = "archived"
    /\ \A u, v \in Versions : previous[u] = previous[v] /\ previous[u] # None => u = v
    /\ \A v \in Versions : previous[v] # None =>
          version[v] \in Published /\ version[previous[v]] = "archived" /\ previous[v] = base[v]
    /\ \A p \in Promoters : Assessed(promo[p])

\* No version, no lineage.
LEMMA InitChain == Init => Chain
  BY ItemAssumption DEF Init, Chain, Assessed, Actives, Published, NoPromotion

\* What no synchronisation or review touches.
LEMMA QuietChain ==
    ASSUME Typed, Chain, UNCHANGED <<version, base, previous, promo>>
    PROVE  Chain'
  BY DEF Chain, Assessed, Actives

\* A step of a promotion that changes no version.
LEMMA GoOnChain ==
    ASSUME Typed, Chain, NEW p \in Promoters, NEW w, Assessed(w),
           UNCHANGED <<version, base, previous>>, promo' = [promo EXCEPT ![p] = w]
    PROVE  Chain'
  BY DEF Typed, TypeOK, Chain, Assessed, Actives

\* Imports keep the lineage: the base of a candidate is the ACTIVE version.
LEMMA ImportChain ==
    ASSUME Typed, Chain, NEW v \in Versions, ImportCandidate(v) \/ ImportAndActivate(v)
    PROVE  Chain'
  <1> USE DEF Typed, TypeOK, Pinned, Published, Actives
  <1>1. CASE ImportCandidate(v)
    <2>1. PICK b \in {None, ActiveOrNone} : base' = [base EXCEPT ![v] = b]
      BY <1>1 DEF ImportCandidate
    <2>2. b = None \/ b \in Actives
      BY <2>1 DEF ActiveOrNone
    <2>3. Actives' = Actives
      BY <1>1 DEF ImportCandidate
    <2>4. /\ version[v] = "none" /\ v \notin Direct /\ version' = [version EXCEPT ![v] = "imported"]
          /\ UNCHANGED <<previous, promo>>
      BY <1>1 DEF ImportCandidate
    <2> QED BY <2>1, <2>2, <2>3, <2>4, ItemAssumption DEF Chain, Assessed
  <1>2. CASE ImportAndActivate(v)
    <2>1. /\ version[v] = "none" /\ v \in Direct
          /\ version' = [u \in Versions |-> IF u = v THEN "active"
                                      ELSE IF u \in Actives THEN "archived" ELSE version[u]]
          /\ UNCHANGED <<base, previous, promo>>
      BY <1>2 DEF ImportAndActivate
    <2> QED BY <2>1, ItemAssumption DEF Chain, Assessed
  <1> QED BY <1>1, <1>2

\* The candidate of a promotion that commits is still imported, and was never replaced.
LEMMA CandidateImported ==
    ASSUME Typed, Chain, NEW p \in Promoters, CommitPromotion(p)
    PROVE  /\ version[promo[p].candidate] = "imported"
           /\ promo[p].active # promo[p].candidate
           /\ previous[promo[p].candidate] = None
           /\ base[promo[p].candidate] = promo[p].active
           /\ promo[p].candidate \in Versions \ Direct
           /\ promo[p].active # None => promo[p].active \in Actives
           /\ Actives = {promo[p].active} \ {None}
  <1> DEFINE v == promo[p].candidate
             a == promo[p].active
  <1>1. /\ v \in Versions /\ v \notin Direct /\ version[v] # "none" /\ base[v] = a
        /\ Actives = {a} \ {None} /\ a \in Versions \cup {None}
    BY DEF CommitPromotion, Typed, TypeOK, Pinned, Chain, Assessed
  <1>2. version[v] \notin Published
    <2>1. CASE a = None
      BY <1>1, <2>1 DEF Chain
    <2>2. CASE a # None
      BY <1>1, <2>2 DEF Chain, Actives
    <2> QED BY <2>1, <2>2
  <1>3. version[v] = "imported"
    BY <1>1, <1>2 DEF Typed, TypeOK, Published
  <1>4. a # v
    BY <1>1, <1>3, ItemAssumption DEF Actives
  <1>5. previous[v] = None
    BY <1>1, <1>2 DEF Chain
  <1> QED BY <1>1, <1>3, <1>4, <1>5

\* Promotions keep the lineage: the gate compares the base with the ACTIVE version.
LEMMA PromotionChain ==
    ASSUME Typed, Chain, NEW p \in Promoters, PromotionStep(p)
    PROVE  Chain'
  <1> USE DEF Published, Actives
  <1> USE DEF known
  <1>0. Assessed(promo[p]) /\ promo[p] \in PromoTx
    BY DEF Chain, Typed, TypeOK, PromoTx
  <1>1. ASSUME NEW v \in Versions, OpenPromotion(p, v) PROVE Chain'
    <2>1. Assessed([pc |-> "finding", candidate |-> v, active |-> None])
      BY <1>1 DEF OpenPromotion, Assessed, Chain
    <2> QED BY <1>1, <2>1, GoOnChain DEF OpenPromotion
  <1>2. CASE FindActive(p)
    <2> DEFINE w == [promo[p] EXCEPT !.active = ActiveOrNone,
                                     !.pc = IF Actives = {} THEN "assessing" ELSE "waiting"]
    <2>1. promo' = [promo EXCEPT ![p] = w]
      BY <1>0, <1>2 DEF FindActive, PromoTx
    <2>2. Assessed(w)
      BY <1>0, <1>2 DEF FindActive, PromoTx, Assessed
    <2> HIDE DEF w
    <2> QED BY <1>2, <2>1, <2>2, GoOnChain DEF FindActive
  <1>3. CASE LockActive(p)
    <2>1. PICK w : /\ promo' = [promo EXCEPT ![p] = w]
                   /\ w.candidate = promo[p].candidate /\ w.pc = "assessing"
      <3>1. LET on == [promo[p] EXCEPT !.pc = "assessing"]
                off == [promo[p] EXCEPT !.active = None, !.pc = "assessing"]
            IN /\ on.candidate = promo[p].candidate /\ on.pc = "assessing"
               /\ off.candidate = promo[p].candidate /\ off.pc = "assessing"
               /\ promo' = [promo EXCEPT ![p] = on] \/ promo' = [promo EXCEPT ![p] = off]
        BY <1>0, <1>3 DEF LockActive, GoOn, PromoTx
      <3> QED BY <3>1
    <2> QED BY <1>0, <1>3, <2>1, GoOnChain DEF LockActive, Assessed
  <1>4. CASE PassGate(p)
    <2>1. promo' = [promo EXCEPT ![p] = [promo[p] EXCEPT !.pc = "promoting"]]
      BY <1>4 DEF PassGate, GoOn
    <2>2. Assessed([promo[p] EXCEPT !.pc = "promoting"])
      BY <1>0, <1>4 DEF PassGate, PromoTx, Assessed
    <2> QED BY <1>4, <2>1, <2>2, GoOnChain DEF PassGate
  <1>5. CASE CommitPromotion(p)
    <2> DEFINE v == promo[p].candidate
               a == promo[p].active
    <2>1. /\ version' = Replaced(v, a) /\ previous' = [previous EXCEPT ![v] = a]
          /\ promo' = [promo EXCEPT ![p] = NoPromotion] /\ UNCHANGED base
      BY <1>5 DEF CommitPromotion
    <2>2. /\ version[v] = "imported" /\ a # v /\ base[v] = a /\ v \in Versions \ Direct
          /\ a # None => a \in Versions /\ version[a] = "active"
          /\ Actives = {a} \ {None} /\ previous[v] = None
      BY <1>5, CandidateImported
    <2>3. \A u \in Versions : previous[u] = a => a = None
      BY <2>2 DEF Chain
    <2> HIDE DEF v, a
    <2>4. /\ version'[v] = "active" /\ (a # None => version'[a] = "archived")
          /\ \A u \in Versions \ {v, a} : version'[u] = version[u] /\ version[u] # "active"
      BY <2>1, <2>2 DEF Replaced
    <2>5. previous'[v] = a /\ \A u \in Versions \ {v} : previous'[u] = previous[u]
      BY <2>1, <2>2 DEF Typed, TypeOK
    <2>6. /\ \A u, w \in Versions : version'[u] = "active" /\ version'[w] = "active" => u = w
          /\ \E u \in Versions : version'[u] = "active"
          /\ \A u \in Direct : version'[u] # "imported"
      BY <2>2, <2>4, ItemAssumption DEF Chain
    <2>7. \A u \in Versions : base[u] # None => version'[base[u]] \in Published
      BY <2>2, <2>4 DEF Typed, TypeOK, Chain
    <2>8. \A u \in Versions \ Direct :
             version'[u] \in Published /\ base[u] # None => version'[base[u]] = "archived"
      BY <2>2, <2>4 DEF Typed, TypeOK, Chain
    <2>9. /\ \A u, w \in Versions : previous'[u] = previous'[w] /\ previous'[u] # None => u = w
          /\ \A u \in Versions : previous'[u] # None =>
                /\ version'[u] \in Published /\ version'[previous'[u]] = "archived"
                /\ previous'[u] = base[u]
      <3>1. \A u \in Versions : previous[u] # None =>
                /\ version[u] \in Published /\ version[previous[u]] = "archived"
                /\ previous[u] = base[u] /\ previous[u] \in Versions
        BY DEF Typed, TypeOK, Chain
      <3>2. \A u \in Versions : version[u] = "archived" => version'[u] = "archived"
        BY <2>2, <2>4, ItemAssumption
      <3>3. \A u \in Versions : version[u] \in Published => version'[u] \in Published
        BY <2>2, <2>4, ItemAssumption
      <3> QED BY <2>2, <2>3, <2>4, <2>5, <3>1, <3>2, <3>3 DEF Chain
    <2>10. \A q \in Promoters : Assessed(promo[q])'
      <3> SUFFICES ASSUME NEW q \in Promoters PROVE Assessed(promo[q])'
        OBVIOUS
      <3>1. CASE q = p
        BY <2>1, <3>1 DEF Typed, TypeOK, Assessed, NoPromotion
      <3>2. CASE q # p
        <4>1. promo'[q] = promo[q] /\ Assessed(promo[q])
              /\ (promo[q].pc # "idle" => promo[q].candidate \in Versions)
          BY <2>1, <3>2 DEF Typed, TypeOK, Pinned, Chain
        <4>2. promo[q].pc # "idle" => version'[promo[q].candidate] # "none"
          BY <2>2, <2>4, <4>1, ItemAssumption DEF Assessed
        <4> QED BY <2>1, <4>1, <4>2 DEF Assessed
      <3> QED BY <3>1, <3>2
    <2> QED BY <2>1, <2>6, <2>7, <2>8, <2>9, <2>10 DEF Chain
  <1>6. CASE RefusePromotion(p)
    <2>1. Assessed(NoPromotion)
      BY DEF Assessed, NoPromotion
    <2> QED BY <1>6, <2>1, GoOnChain DEF RefusePromotion
  <1> QED BY <1>1, <1>2, <1>3, <1>4, <1>5, <1>6 DEF PromotionStep

\* A review changes no version, promotion, run or store.
LEMMA ReviewKeepsVersions ==
    ASSUME NEW r \in Reviewers, ReviewStep(r)
    PROVE  UNCHANGED <<version, base, previous, promo, run, store, late>>
  BY DEF ReviewStep, BeginApiReview, BeginCliReview, BeginPackage, LockItem, LockSyncJobs,
         CommitReview, RefuseReview, known, projected, observed

\* A synchronisation changes no version, item or review.
LEMMA SyncKeepsVersions ==
    ASSUME NEW s \in Syncers, SyncStep(s)
    PROVE  UNCHANGED <<version, base, previous, promo, item, payload, review, blind>>
  BY DEF SyncStep, QueueSync, BeginCliSync, StartSync, FailPreflight, ReadActive, LockVersion,
         LockSyncJob, ClearVersion, Upsert, Prune, DropPrevious, CommitSync, StoreFails, LoseRun,
         RefuseSync, known, reviewed, projected, observed

\* Every step keeps the lineage.
LEMMA StepChain == Typed /\ Chain /\ [Next]_vars => Chain'
  <1> SUFFICES ASSUME Typed, Chain, [Next]_vars PROVE Chain'
    OBVIOUS
  <1>1. CASE UNCHANGED vars
    BY <1>1, QuietChain DEF vars
  <1>2. ASSUME NEW r \in Reviewers, ReviewStep(r) PROVE Chain'
    BY <1>2, QuietChain, ReviewKeepsVersions
  <1>3. ASSUME NEW s \in Syncers, SyncStep(s) PROVE Chain'
    BY <1>3, QuietChain, SyncKeepsVersions
  <1>4. CASE RestartApi
    BY <1>4 DEF RestartApi, NoPromotion, known, Chain, Assessed, Actives
  <1> QED BY <1>1, <1>2, <1>3, <1>4, ImportChain, PromotionChain DEF Next

\* The inductive part implies the property that the runs check.
LEMMA ChainIsLineage == Typed /\ Chain => LineageIsAChain
  <1> SUFFICES ASSUME Typed, Chain PROVE LineageIsAChain
    OBVIOUS
  <1>1. Cardinality(Actives) <= 1
    <2>1. CASE Actives = {}
      BY <2>1, FS_EmptySet
    <2>2. CASE Actives # {}
      <3>1. PICK v \in Actives : TRUE
        BY <2>2
      <3>2. Actives = {v}
        BY <3>1 DEF Chain
      <3>3. Cardinality({v}) = 1
        BY FS_Singleton
      <3> QED BY <3>2, <3>3
    <2> QED BY <2>1, <2>2
  <1> QED BY <1>1 DEF LineageIsAChain, Chain, Published

\* Lineage: KnowledgePromotionService.promote and import_canonical keep one ACTIVE version
\* and a lineage in which no version is replaced twice, however promotions race.
THEOREM Lineage == Spec => []LineageIsAChain
  BY InitTyped, StepTyped, InitChain, StepChain, ChainIsLineage, PTL DEF Spec

\* The current version is the one ACTIVE version.
LEMMA TheActive ==
    ASSUME Chain, NEW v \in Actives
    PROVE  ActiveOrNone = v /\ Actives = {v}
  BY DEF Chain, ActiveOrNone

\* Every step publishes one version that was not published before, or none.
LEMMA StepHistory ==
    Typed /\ Chain /\ Chain' /\ [Next]_vars => [History!Next]_<<ActiveOrNone, {v \in Versions : version[v] = "archived"}>>
  <1> SUFFICES ASSUME Typed, Chain, Chain', [Next]_vars
               PROVE  [History!Next]_<<ActiveOrNone, {v \in Versions : version[v] = "archived"}>>
    OBVIOUS
  <1> DEFINE retired == {v \in Versions : version[v] = "archived"}
  <1>1. ASSUME Actives' = Actives, retired' = retired
        PROVE  UNCHANGED <<ActiveOrNone, retired>>
    BY <1>1 DEF ActiveOrNone
  <1>2. ASSUME NEW v \in Versions, version[v] \notin Published, Actives' = {v},
               retired' = retired \cup Actives
        PROVE  History!Publish(v)
    <2>1. ActiveOrNone' = v
      BY <1>2, TheActive DEF ActiveOrNone
    <2>2. Actives = {ActiveOrNone} \ {None}
      BY TheActive, ItemAssumption DEF ActiveOrNone, Actives
    <2> QED BY <1>2, <2>1, <2>2, ItemAssumption DEF History!Publish, Published, Actives
  <1>3. ASSUME UNCHANGED version PROVE Actives' = Actives /\ retired' = retired
    BY <1>3 DEF Actives
  <1>4. CASE UNCHANGED vars
    BY <1>1, <1>3, <1>4 DEF vars
  <1>5. ASSUME NEW r \in Reviewers, ReviewStep(r) PROVE UNCHANGED version
    BY <1>5, ReviewKeepsVersions
  <1>6. ASSUME NEW s \in Syncers, SyncStep(s) PROVE UNCHANGED version
    BY <1>6, SyncKeepsVersions
  <1>7. CASE RestartApi
    BY <1>1, <1>3, <1>7 DEF RestartApi, known
  <1>8. ASSUME NEW v \in Versions, ImportCandidate(v)
        PROVE  Actives' = Actives /\ retired' = retired
    BY <1>8 DEF ImportCandidate, Actives, Typed, TypeOK
  <1>9. ASSUME NEW v \in Versions, ImportAndActivate(v)
        PROVE  Actives' = {v} /\ retired' = retired \cup Actives /\ version[v] \notin Published
    BY <1>9 DEF ImportAndActivate, Actives, Published, Typed, TypeOK
  <1>10. ASSUME NEW p \in Promoters, CommitPromotion(p)
         PROVE  LET v == promo[p].candidate IN
                /\ Actives' = {v} /\ retired' = retired \cup Actives
                /\ version[v] \notin Published /\ v \in Versions
    <2>1. version' = Replaced(promo[p].candidate, promo[p].active)
      BY <1>10 DEF CommitPromotion
    <2>2. /\ promo[p].candidate \in Versions /\ version[promo[p].candidate] = "imported"
          /\ Actives = {promo[p].active} \ {None}
          /\ promo[p].active # promo[p].candidate
      BY <1>10, CandidateImported
    <2>3. Actives' = {promo[p].candidate}
      BY <2>1, <2>2, ItemAssumption DEF Replaced, Actives
    <2>4. retired' = retired \cup Actives
      BY <2>1, <2>2, ItemAssumption DEF Replaced, Actives
    <2> QED BY <2>2, <2>3, <2>4 DEF Published
  <1>11. ASSUME NEW p \in Promoters, PromotionStep(p), ~CommitPromotion(p)
         PROVE  UNCHANGED version
    BY <1>11 DEF PromotionStep, OpenPromotion, FindActive, LockActive, PassGate, RefusePromotion, known
  <1> QED
    BY <1>1, <1>2, <1>3, <1>4, <1>5, <1>6, <1>7, <1>8, <1>9, <1>10, <1>11 DEF Next, History!Next

\* HistoryImplemented: the version column implements the abstract history: versions are
\* published one at a time and an archived version never comes back.
THEOREM HistoryImplemented == Spec => ImplementsHistory
  <1>1. Init => History!Init
    BY DEF Init, History!Init, ActiveOrNone, Actives
  <1> QED BY <1>1, InitTyped, StepTyped, InitChain, StepChain, StepHistory, PTL
          DEF Spec, ImplementsHistory, History!Spec

-----------------------------------------------------------------------------
(* Locks: who changes the items of a version while its projection is written. *)

Exclusive == \A p, q \in Sessions : p # q => holds[p] \cap holds[q] = {}

\* A run that writes holds its SyncJob, for a version that was published, and writes
\* items of it.
RunHolds(s) ==
    /\ run[s].pc # "idle" => version[run[s].version] \in Published
    /\ run[s].pc \in Touching =>
          /\ SyncRow(run[s].version, TargetOf[s]) \in holds[s]
          /\ run[s].todo \subseteq ItemsOf(run[s].version)

\* A review that is about to commit and invalidates holds the SyncJobs of its version.
ReviewHolds(r) ==
    /\ review[r].pc # "idle" => review[r].items \subseteq ItemsOf(review[r].version)
    /\ review[r].pc = "committing" /\ Invalidates(r) => SyncRows(review[r].version) \subseteq holds[r]

Held ==
    /\ Exclusive
    /\ \A s \in Syncers : RunHolds(s)
    /\ \A r \in Reviewers : ReviewHolds(r)

\* Nobody holds a lock at first.
LEMMA InitHeld == Init => Held
  BY DEF Init, Held, Exclusive, RunHolds, ReviewHolds, NoRun, NoReview, Touching

\* A lock keeps the locks exclusive and takes none away.
LEMMA LockHeld ==
    ASSUME Typed, Exclusive, NEW p \in Sessions, NEW rows, Lock(p, rows)
    PROVE  /\ Exclusive' /\ rows \subseteq holds'[p]
           /\ \A q \in Sessions : holds[q] \subseteq holds'[q]
  <1>1. /\ holds'[p] = holds[p] \cup rows
        /\ \A q \in Sessions \ {p} : holds'[q] = holds[q] /\ holds[q] \cap rows = {}
    BY DEF Lock, Free, Typed, TypeOK
  <1>2. ASSUME NEW q \in Sessions, NEW u \in Sessions, q # u PROVE holds'[q] \cap holds'[u] = {}
    BY <1>1, <1>2 DEF Exclusive
  <1> QED BY <1>1, <1>2 DEF Exclusive

\* A release keeps the locks exclusive and takes none of another session.
LEMMA ReleaseHeld ==
    ASSUME Typed, Exclusive, NEW p \in Sessions, Release(p)
    PROVE  /\ Exclusive'
           /\ \A q \in Sessions \ {p} : holds'[q] = holds[q]
  <1>1. holds'[p] = {} /\ \A q \in Sessions \ {p} : holds'[q] = holds[q]
    BY DEF Release, Typed, TypeOK
  <1> QED BY <1>1 DEF Exclusive

\* A session reviews, promotes or synchronises.
LEMMA SessionFacts ==
    /\ \A r \in Reviewers : r \in Sessions /\ r \notin Promoters /\ r \notin Syncers
    /\ \A p \in Promoters : p \in Sessions /\ p \notin Reviewers /\ p \notin Syncers
    /\ \A s \in Syncers : s \in Sessions /\ s \notin Reviewers /\ s \notin Promoters
  BY SessionAssumption DEF Sessions

\* What another session does keeps what a run or a review holds.
LEMMA RunHoldsFrame ==
    ASSUME NEW s \in Syncers, RunHolds(s), run'[s] = run[s], holds[s] \subseteq holds'[s],
           run[s].pc # "idle" => version'[run[s].version] \in Published
    PROVE  RunHolds(s)'
  BY DEF RunHolds, ItemsOf, SyncRow

\* What another session does keeps what a review holds.
LEMMA ReviewHoldsFrame ==
    ASSUME NEW r \in Reviewers, ReviewHolds(r), review'[r] = review[r], holds[r] \subseteq holds'[r]
    PROVE  ReviewHolds(r)'
  BY DEF ReviewHolds, Invalidates, Publishes, ItemsOf, SyncRows, SyncRow

\* A published version stays published.
LEMMA PublishedStays ==
    ASSUME Typed, Chain, [Next]_vars, NEW v \in Versions, version[v] \in Published
    PROVE  version'[v] \in Published
  <1> USE DEF Typed, TypeOK, Published
  <1>1. CASE UNCHANGED vars
    BY <1>1 DEF vars
  <1>2. ASSUME NEW u \in Versions, ImportCandidate(u) PROVE version'[v] \in Published
    BY <1>2 DEF ImportCandidate
  <1>3. ASSUME NEW u \in Versions, ImportAndActivate(u) PROVE version'[v] \in Published
    BY <1>3 DEF ImportAndActivate
  <1>4. ASSUME NEW r \in Reviewers, ReviewStep(r) PROVE version'[v] \in Published
    BY <1>4, ReviewKeepsVersions
  <1>5. ASSUME NEW s \in Syncers, SyncStep(s) PROVE version'[v] \in Published
    BY <1>5, SyncKeepsVersions
  <1>6. ASSUME NEW p \in Promoters, CommitPromotion(p) PROVE version'[v] \in Published
    BY <1>6, CandidateImported DEF CommitPromotion, Replaced
  <1>7. ASSUME NEW p \in Promoters, PromotionStep(p), ~CommitPromotion(p)
        PROVE  version'[v] \in Published
    BY <1>7 DEF PromotionStep, OpenPromotion, FindActive, LockActive, PassGate, RefusePromotion, known
  <1>8. CASE RestartApi
    BY <1>8 DEF RestartApi, known
  <1> QED BY <1>1, <1>2, <1>3, <1>4, <1>5, <1>6, <1>7, <1>8 DEF Next

\* A step that leaves reviews and runs alone.
LEMMA HeldByOthers ==
    ASSUME Typed, Chain, Held, [Next]_vars, UNCHANGED <<review, run>>, Exclusive',
           \A s \in Syncers : holds[s] \subseteq holds'[s],
           \A r \in Reviewers : holds[r] \subseteq holds'[r]
    PROVE  Held'
  <1>1. ASSUME NEW s \in Syncers PROVE RunHolds(s)'
    <2>1. run[s].pc # "idle" => version'[run[s].version] \in Published
      BY PublishedStays DEF Typed, Pinned, Held, RunHolds
    <2> QED BY <2>1, RunHoldsFrame DEF Held
  <1>2. ASSUME NEW r \in Reviewers PROVE ReviewHolds(r)'
    BY ReviewHoldsFrame DEF Held
  <1> QED BY <1>1, <1>2 DEF Held

\* Imports take no lock.
LEMMA ImportHeld ==
    ASSUME Typed, Chain, Held, [Next]_vars, NEW v \in Versions,
           ImportCandidate(v) \/ ImportAndActivate(v)
    PROVE  Held'
  <1>1. UNCHANGED <<review, run, holds>>
    BY DEF ImportCandidate, ImportAndActivate
  <1> QED BY <1>1, HeldByOthers DEF Held, Exclusive

\* A promotion locks or releases rows of its own.
LEMMA PromotionHeld ==
    ASSUME Typed, Chain, Held, [Next]_vars, NEW p \in Promoters, PromotionStep(p)
    PROVE  Held'
  <1>1. UNCHANGED <<review, run>>
    BY DEF PromotionStep, OpenPromotion, FindActive, LockActive, PassGate, CommitPromotion,
           RefusePromotion
  <1>2. \/ UNCHANGED holds \/ Release(p) \/ \E rows : Lock(p, rows)
    BY DEF PromotionStep, OpenPromotion, FindActive, LockActive, PassGate, CommitPromotion,
           RefusePromotion
  <1>3. CASE UNCHANGED holds
    BY <1>1, <1>3, HeldByOthers DEF Held, Exclusive
  <1>4. CASE Release(p)
    BY <1>1, <1>4, ReleaseHeld, SessionFacts, HeldByOthers DEF Held
  <1>5. ASSUME NEW rows, Lock(p, rows) PROVE Held'
    BY <1>1, <1>5, LockHeld, SessionFacts, HeldByOthers DEF Held
  <1> QED BY <1>2, <1>3, <1>4, <1>5

\* A step of review r: what is left to show is that r holds what it should.
LEMMA HeldByReview ==
    ASSUME Typed, Held, NEW r \in Reviewers, ReviewStep(r), Exclusive', ReviewHolds(r)',
           \A q \in Sessions \ {r} : holds[q] \subseteq holds'[q],
           \A q \in Reviewers \ {r} : review'[q] = review[q]
    PROVE  Held'
  <1>1. ASSUME NEW s \in Syncers PROVE RunHolds(s)'
    <2>1. s \in Sessions \ {r}
      BY SessionFacts
    <2>2. run'[s] = run[s] /\ UNCHANGED version /\ holds[s] \subseteq holds'[s] /\ RunHolds(s)
      BY <2>1, ReviewKeepsVersions DEF Held
    <2>3. run[s].pc # "idle" => version'[run[s].version] \in Published
      BY <2>2 DEF RunHolds
    <2> QED BY <2>2, <2>3, RunHoldsFrame
  <1>2. ASSUME NEW q \in Reviewers \ {r} PROVE ReviewHolds(q)'
    BY SessionFacts, ReviewHoldsFrame DEF Held
  <1> QED BY <1>1, <1>2 DEF Held

Invalidating(v, is, new) ==
    version[v] = "active" /\ (new \in Publishable \/ \E i \in is : item[i].status \in Publishable)

\* A review that begins takes what it saw with it.
LEMMA BeginHeld ==
    ASSUME Typed, NEW r \in Reviewers, NEW v \in Versions, NEW is \in SUBSET ItemsOf(v),
           NEW new \in Statuses, NEW pc, Begin(r, v, is, new, pc)
    PROVE  /\ review'[r].items = is /\ review'[r].version = v /\ review'[r].pc = pc
           /\ Invalidates(r)' <=> Invalidating(v, is, new)
           /\ \A q \in Reviewers \ {r} : review'[q] = review[q]
  <1> DEFINE b == version[v] = "active"
             w == [pc |-> pc, version |-> v, items |-> is, new |-> new, seen |-> Seen(is), active |-> b]
  <1>1. review' = [review EXCEPT ![r] = w]
    BY Zenon DEF Begin
  <1> HIDE DEF b
  <1>2. \A i \in is : Seen(is)[i] = item[i]
    BY DEF Seen, ItemsOf
  <1>3. /\ w.items = is /\ w.version = v /\ w.pc = pc /\ w.new = new /\ w.seen = Seen(is)
        /\ w.active = b
    OBVIOUS
  <1> HIDE DEF w
  <1>4. review'[r] = w /\ \A q \in Reviewers \ {r} : review'[q] = review[q]
    BY <1>1 DEF Typed, TypeOK
  <1>5. Publishes(r)' <=> new \in Publishable \/ \E i \in is : item[i].status \in Publishable
    BY <1>2, <1>3, <1>4 DEF Publishes
  <1>6. review'[r].active = b
    BY <1>3, <1>4
  <1>7. Invalidates(r)' <=> Invalidating(v, is, new)
    BY <1>5, <1>6, Zenon DEF Invalidates, Invalidating, b
  <1> QED BY <1>3, <1>4, <1>7

\* A review locks the SyncJobs before it commits what invalidates them.
LEMMA ReviewHeld ==
    ASSUME Typed, Held, NEW r \in Reviewers, ReviewStep(r)
    PROVE  Held'
  <1> USE SessionFacts
  <1>0. Exclusive /\ ReviewHolds(r)
    BY DEF Held
  <1>1. ASSUME NEW i \in Items, NEW new \in Statuses, BeginApiReview(r, i, new) PROVE Held'
    <2>1. VersionOf[i] \in Versions /\ {i} \in SUBSET ItemsOf(VersionOf[i])
      BY ItemAssumption DEF ItemsOf
    <2>2. Begin(r, VersionOf[i], {i}, new, "locking") /\ UNCHANGED holds
      BY <1>1 DEF BeginApiReview
    <2>3. /\ review'[r].items = {i} /\ review'[r].version = VersionOf[i] /\ review'[r].pc = "locking"
          /\ \A q \in Reviewers \ {r} : review'[q] = review[q]
      BY <2>1, <2>2, BeginHeld
    <2>4. ReviewHolds(r)'
      BY <2>1, <2>3 DEF ReviewHolds, ItemsOf
    <2> QED BY <1>0, <2>2, <2>3, <2>4, HeldByReview DEF Exclusive
  <1>2. ASSUME NEW i \in Items, NEW new \in Statuses, BeginCliReview(r, i, new) PROVE Held'
    <2> DEFINE v == VersionOf[i]
               pc == AfterLock(r, version[v] = "active", new, {i})
    <2>1. v \in Versions /\ {i} \in SUBSET ItemsOf(v)
      BY ItemAssumption DEF ItemsOf
    <2>2. Begin(r, v, {i}, new, pc) /\ Lock(r, {ItemRow(i)})
      BY <1>2 DEF BeginCliReview
    <2>3. pc = "committing" => ~Invalidating(v, {i}, new)
      BY DEF AfterLock, Invalidating
    <2> HIDE DEF v, pc
    <2>4. /\ review'[r].items = {i} /\ review'[r].version = v /\ review'[r].pc = pc
          /\ pc = "committing" => ~Invalidates(r)'
          /\ \A q \in Reviewers \ {r} : review'[q] = review[q]
      BY <2>1, <2>2, <2>3, BeginHeld
    <2>5. ReviewHolds(r)'
      BY <2>1, <2>4 DEF ReviewHolds, ItemsOf
    <2> QED BY <1>0, <2>2, <2>4, <2>5, LockHeld, HeldByReview
  <1>3. ASSUME NEW v \in Versions, NEW is \in SUBSET ItemsOf(v), BeginPackage(r, v, is) PROVE Held'
    <2>1. Begin(r, v, is, "approved", "invalidating") /\ "approved" \in Statuses
      BY <1>3 DEF BeginPackage, Statuses
    <2>2. PICK rows : Lock(r, rows)
      BY <1>3 DEF BeginPackage
    <2>3. ReviewHolds(r)' /\ \A q \in Reviewers \ {r} : review'[q] = review[q]
      BY <2>1, BeginHeld DEF ReviewHolds, ItemsOf
    <2> QED BY <1>0, <2>2, <2>3, LockHeld, HeldByReview
  <1>4. CASE LockItem(r)
    <2> DEFINE pc == IF Invalidates(r) THEN "invalidating" ELSE "committing"
    <2>1. review' = [review EXCEPT ![r].pc = pc] /\ Lock(r, {ItemRow(i) : i \in review[r].items})
          /\ review[r].pc = "locking"
      BY <1>4 DEF LockItem
    <2>2. Invalidates(r)' <=> Invalidates(r)
      BY <2>1 DEF Invalidates, Publishes, Typed, TypeOK
    <2>3. /\ review'[r].pc = pc /\ review'[r].items = review[r].items
          /\ review'[r].version = review[r].version
          /\ \A q \in Reviewers \ {r} : review'[q] = review[q]
      BY <2>1 DEF Typed, TypeOK
    <2>4. ReviewHolds(r)'
      BY <1>0, <2>1, <2>2, <2>3 DEF ReviewHolds, ItemsOf
    <2> QED BY <1>0, <2>1, <2>3, <2>4, LockHeld, HeldByReview
  <1>5. CASE LockSyncJobs(r)
    <2>1. /\ review' = [review EXCEPT ![r].pc = "committing"] /\ Lock(r, SyncRows(review[r].version))
          /\ review[r].pc = "invalidating"
      BY <1>5 DEF LockSyncJobs
    <2>2. /\ review'[r].items = review[r].items
          /\ review'[r].version = review[r].version
          /\ \A q \in Reviewers \ {r} : review'[q] = review[q]
      BY <2>1 DEF Typed, TypeOK
    <2>3. SyncRows(review[r].version) \subseteq holds'[r] /\ Exclusive'
          /\ \A q \in Sessions : holds[q] \subseteq holds'[q]
      BY <1>0, <2>1, LockHeld
    <2>4. ReviewHolds(r)'
      BY <1>0, <2>1, <2>2, <2>3 DEF ReviewHolds, ItemsOf, SyncRows, SyncRow
    <2> QED BY <2>2, <2>3, <2>4, HeldByReview
  <1>6. CASE CommitReview(r) \/ RefuseReview(r)
    <2>1. review' = [review EXCEPT ![r] = NoReview] /\ Release(r)
      BY <1>6 DEF CommitReview, RefuseReview
    <2>2. review'[r].pc = "idle" /\ \A q \in Reviewers \ {r} : review'[q] = review[q]
      BY <2>1 DEF Typed, TypeOK, NoReview
    <2>3. ReviewHolds(r)'
      BY <2>2 DEF ReviewHolds
    <2> QED BY <1>0, <2>1, <2>2, <2>3, ReleaseHeld, HeldByReview
  <1> QED BY <1>1, <1>2, <1>3, <1>4, <1>5, <1>6 DEF ReviewStep

\* A step of run s: what is left to show is that s holds what it should.
LEMMA HeldBySync ==
    ASSUME Held, NEW s \in Syncers, SyncStep(s), Exclusive', RunHolds(s)',
           \A q \in Sessions \ {s} : holds[q] \subseteq holds'[q],
           \A q \in Syncers \ {s} : run'[q] = run[q]
    PROVE  Held'
  <1>0. UNCHANGED <<version, review>>
    BY SyncKeepsVersions
  <1>1. ASSUME NEW q \in Syncers \ {s} PROVE RunHolds(q)'
    <2>1. run'[q] = run[q] /\ holds[q] \subseteq holds'[q] /\ RunHolds(q)
      BY SessionFacts DEF Held
    <2>2. run[q].pc # "idle" => version'[run[q].version] \in Published
      BY <1>0, <2>1 DEF RunHolds
    <2> QED BY <2>1, <2>2, RunHoldsFrame
  <1>2. ASSUME NEW r \in Reviewers PROVE ReviewHolds(r)'
    <2>1. r \in Sessions \ {s} /\ review'[r] = review[r] /\ ReviewHolds(r)
      BY <1>0, SessionFacts DEF Held
    <2> QED BY <2>1, ReviewHoldsFrame
  <1> QED BY <1>1, <1>2 DEF Held

\* Runs that go on, by the fields a step changes.
LEMMA MoveFacts ==
    ASSUME Typed, NEW s \in Syncers, NEW pc, Move(s, pc)
    PROVE  /\ run'[s].pc = pc /\ run'[s].version = run[s].version
           /\ run'[s].plan = run[s].plan /\ run'[s].todo = run[s].todo
           /\ \A q \in Syncers \ {s} : run'[q] = run[q]
  BY RunFacts DEF Move, RunTx

\* A run that ends changes no other.
LEMMA EndFacts ==
    ASSUME Typed, NEW s \in Syncers, EndRun(s)
    PROVE  run'[s].pc = "idle" /\ \A q \in Syncers \ {s} : run'[q] = run[q]
  BY RunFacts DEF EndRun, NoRun

\* A run plans what the items say when it has locked its SyncJob.
LEMMA LockJobFacts ==
    ASSUME Typed, NEW s \in Syncers, LockSyncJob(s)
    PROVE  /\ run'[s].pc = "writing" /\ run'[s].version = run[s].version
           /\ run'[s].plan = Planned(run[s].version, TargetOf[s])
           /\ run'[s].todo = Documents(run[s].version, TargetOf[s])
           /\ \A q \in Syncers \ {s} : run'[q] = run[q]
  <1> DEFINE plan == Planned(run[s].version, TargetOf[s])
             todo == Documents(run[s].version, TargetOf[s])
  <1>1. run' = [run EXCEPT ![s].pc = "writing", ![s].plan = plan, ![s].todo = todo]
    BY DEF LockSyncJob
  <1> HIDE DEF plan, todo
  <1>2. /\ run'[s].pc = "writing" /\ run'[s].version = run[s].version
        /\ run'[s].plan = plan /\ run'[s].todo = todo
        /\ \A q \in Syncers \ {s} : run'[q] = run[q]
    BY <1>1, RunFacts DEF RunTx
  <1> QED BY <1>2 DEF plan, todo

\* A batch writes one planned entry.
LEMMA UpsertFacts ==
    ASSUME Typed, NEW s \in Syncers, Upsert(s)
    PROVE  \E i \in run[s].todo :
              /\ run'[s].pc = run[s].pc /\ run'[s].version = run[s].version
              /\ run'[s].plan = run[s].plan /\ run'[s].todo = run[s].todo \ {i}
              /\ \A q \in Syncers \ {s} : run'[q] = run[q]
              /\ i \in Items
              /\ store' = [store EXCEPT ![TargetOf[s]][i] = Put(s, i)]
  <1>1. PICK i \in run[s].todo :
            /\ store' = [store EXCEPT ![TargetOf[s]][i] = Put(s, i)]
            /\ run' = [run EXCEPT ![s].todo = @ \ {i}]
    BY DEF Upsert
  <1>2. i \in Items
    BY <1>1, RunFacts DEF RunTx
  <1>3. /\ run'[s].pc = run[s].pc /\ run'[s].version = run[s].version
        /\ run'[s].plan = run[s].plan /\ run'[s].todo = run[s].todo \ {i}
        /\ \A q \in Syncers \ {s} : run'[q] = run[q]
    BY <1>1, RunFacts DEF RunTx
  <1> QED BY <1>1, <1>2, <1>3

\* A step of one run leaves the others.
LEMMA OtherRuns ==
    ASSUME Typed, NEW s \in Syncers, SyncStep(s), NEW q \in Syncers \ {s}
    PROVE  run'[q] = run[q]
  <1>1. CASE \E v \in Versions : QueueSync(s, v) \/ BeginCliSync(s, v)
    BY <1>1, RunFacts DEF QueueSync, BeginCliSync
  <1>2. ASSUME NEW pc, Move(s, pc) PROVE run'[q] = run[q]
    BY <1>2, MoveFacts
  <1>3. CASE EndRun(s)
    BY <1>3, EndFacts
  <1>4. CASE LockSyncJob(s) \/ Upsert(s)
    BY <1>4, LockJobFacts, UpsertFacts
  <1> QED BY <1>1, <1>2, <1>3, <1>4
          DEF SyncStep, StartSync, FailPreflight, ReadActive, LockVersion, ClearVersion, Prune,
              DropPrevious, CommitSync, StoreFails, LoseRun, RefuseSync

\* A run locks its SyncJob before it writes and keeps it until it ends.
LEMMA SyncHeld ==
    ASSUME Typed, Held, NEW s \in Syncers, SyncStep(s)
    PROVE  Held'
  <1> USE DEF Touching
  <1>0. Exclusive /\ RunHolds(s) /\ s \in Sessions
    BY SessionFacts DEF Held
  <1>a. UNCHANGED version
    BY SyncKeepsVersions
  <1>1. ASSUME NEW v \in Versions, QueueSync(s, v) PROVE Held'
    <2>1. /\ run'[s].pc = "queued" /\ run'[s].version = v /\ version[v] \in Published
          /\ UNCHANGED holds /\ \A q \in Syncers \ {s} : run'[q] = run[q]
      BY <1>1, RunFacts DEF QueueSync, RunTx, Published
    <2>2. RunHolds(s)'
      BY <1>a, <2>1 DEF RunHolds
    <2> QED BY <1>0, <2>1, <2>2, HeldBySync DEF Exclusive
  <1>2. ASSUME NEW v \in Versions, BeginCliSync(s, v) PROVE Held'
    <2>1. /\ run'[s].pc = "locked" /\ run'[s].version = v /\ version[v] \in Published
          /\ Lock(s, {VersionRow(v)}) /\ \A q \in Syncers \ {s} : run'[q] = run[q]
      BY <1>2, RunFacts DEF BeginCliSync, RunTx, Published
    <2>2. RunHolds(s)'
      BY <1>a, <2>1 DEF RunHolds
    <2> QED BY <1>0, <2>1, <2>2, LockHeld, HeldBySync
  <1>3. CASE StartSync(s) \/ ReadActive(s)
    <2>1. PICK pc \in {"running", "seen"} :
             Move(s, pc) /\ UNCHANGED holds /\ run[s].pc # "idle"
      BY <1>3 DEF StartSync, ReadActive
    <2>2. RunHolds(s)' /\ \A q \in Syncers \ {s} : run'[q] = run[q]
      BY <1>0, <1>a, <2>1, MoveFacts DEF RunHolds
    <2> QED BY <1>0, <2>1, <2>2, HeldBySync DEF Exclusive
  <1>4. CASE LockVersion(s)
    <2>1. Move(s, "locked") /\ Lock(s, {VersionRow(run[s].version)}) /\ run[s].pc # "idle"
      BY <1>4 DEF LockVersion
    <2>2. RunHolds(s)' /\ \A q \in Syncers \ {s} : run'[q] = run[q]
      BY <1>0, <1>a, <2>1, MoveFacts DEF RunHolds
    <2> QED BY <1>0, <2>1, <2>2, LockHeld, HeldBySync
  <1>5. CASE LockSyncJob(s)
    <2>1. Lock(s, {SyncRow(run[s].version, TargetOf[s])}) /\ run[s].pc # "idle"
      BY <1>5 DEF LockSyncJob
    <2>2. Documents(run[s].version, TargetOf[s]) \subseteq ItemsOf(run[s].version)
      BY DEF Documents, Planned, Effective, ItemsOf
    <2>3. RunHolds(s)'
      BY <1>0, <1>5, <1>a, <2>1, <2>2, LockHeld, LockJobFacts DEF RunHolds, ItemsOf, SyncRow
    <2> QED BY <1>0, <1>5, <2>1, <2>3, LockHeld, LockJobFacts, HeldBySync
  <1>6. CASE ClearVersion(s) \/ Prune(s) \/ DropPrevious(s)
    <2>1. PICK pc \in Touching : Move(s, pc) /\ UNCHANGED holds /\ run[s].pc \in Touching
      BY <1>6 DEF ClearVersion, Prune, DropPrevious, Upserting
    <2>2. RunHolds(s)' /\ \A q \in Syncers \ {s} : run'[q] = run[q]
      BY <1>0, <1>a, <2>1, MoveFacts DEF RunHolds, ItemsOf, SyncRow
    <2> QED BY <1>0, <2>1, <2>2, HeldBySync DEF Exclusive
  <1>7. CASE Upsert(s)
    <2>1. UNCHANGED holds /\ run[s].pc \in Touching
      BY <1>7 DEF Upsert, Upserting
    <2>2. RunHolds(s)' /\ \A q \in Syncers \ {s} : run'[q] = run[q]
      BY <1>0, <1>7, <1>a, <2>1, UpsertFacts DEF RunHolds, ItemsOf, SyncRow
    <2> QED BY <1>0, <2>1, <2>2, HeldBySync DEF Exclusive
  <1>8. CASE FailPreflight(s) \/ CommitSync(s) \/ StoreFails(s) \/ LoseRun(s) \/ RefuseSync(s)
    <2>1. EndRun(s) /\ Release(s)
      BY <1>8 DEF FailPreflight, CommitSync, StoreFails, LoseRun, RefuseSync, EndRun
    <2>2. RunHolds(s)'
      BY <2>1, EndFacts DEF RunHolds
    <2> QED BY <1>0, <2>1, <2>2, EndFacts, ReleaseHeld, HeldBySync
  <1> QED BY <1>1, <1>2, <1>3, <1>4, <1>5, <1>6, <1>7, <1>8 DEF SyncStep

\* A restart releases the locks of the sessions it ends, and only those.
LEMMA RestartHeld == Typed /\ Held /\ RestartApi => Held'
  <1> SUFFICES ASSUME Typed, Held, RestartApi PROVE Held'
    OBVIOUS
  <1>0. UNCHANGED version
    BY DEF RestartApi, known
  <1>1. Exclusive'
    BY DEF RestartApi, Held, Exclusive
  <1>2. ASSUME NEW s \in Syncers PROVE RunHolds(s)'
    <2>1. CASE s \in InApi
      <3>1. run'[s].pc = "idle"
        BY <2>1 DEF RestartApi, NoRun
      <3> QED BY <3>1 DEF RunHolds, Touching
    <2>2. CASE s \notin InApi
      <3>1. run'[s] = run[s] /\ holds'[s] = holds[s] /\ RunHolds(s)
        BY <2>2, SessionFacts DEF RestartApi, Held
      <3> QED BY <1>0, <3>1 DEF RunHolds, ItemsOf, SyncRow
    <2> QED BY <2>1, <2>2
  <1>3. ASSUME NEW r \in Reviewers PROVE ReviewHolds(r)'
    <2>1. CASE r \in InApi
      <3>1. review'[r].pc = "idle"
        BY <2>1 DEF RestartApi, NoReview
      <3> QED BY <3>1 DEF ReviewHolds
    <2>2. CASE r \notin InApi
      <3>1. review'[r] = review[r] /\ holds'[r] = holds[r] /\ ReviewHolds(r)
        BY <2>2, SessionFacts DEF RestartApi, Held
      <3> QED BY <3>1, ReviewHoldsFrame
    <2> QED BY <2>1, <2>2
  <1> QED BY <1>1, <1>2, <1>3 DEF Held

\* Every step keeps what is held.
LEMMA StepHeld == Typed /\ Chain /\ Held /\ [Next]_vars => Held'
  <1> SUFFICES ASSUME Typed, Chain, Held, [Next]_vars PROVE Held'
    OBVIOUS
  <1>1. CASE UNCHANGED vars
    BY <1>1, HeldByOthers DEF vars, Held, Exclusive
  <1> QED BY <1>1, ImportHeld, PromotionHeld, ReviewHeld, SyncHeld, RestartHeld DEF Next

\* Two runs do not write one projection at once.
LEMMA OneRun ==
    ASSUME Held, NEW s \in Syncers, NEW q \in Syncers, run[s].pc \in Touching,
           run[q].pc \in Touching, Job(s) = Job(q)
    PROVE  s = q
  BY SessionFacts DEF Held, Exclusive, RunHolds, Job

-----------------------------------------------------------------------------
(* The version that was replaced leaves the stores.                        *)

\* The store t has nothing of the version that v replaced, unless it was projected late.
Rid(v, t) ==
    previous[v] # None /\ previous[v] \notin late
        => \A i \in ItemsOf(previous[v]) : store[t][i] = Absent

\* It is so from the deletion of the predecessor on, before the run commits.
Gone ==
    /\ \A v \in Versions, t \in Targets : sync[v][t] = "succeeded" => Rid(v, t)
    /\ \A s \in Syncers : run[s].pc = "dropped" => Rid(run[s].version, TargetOf[s])

\* Nothing is synchronised at first.
LEMMA InitGone == Init => Gone
  BY DEF Init, Gone, NoRun

\* What a step may put in a store: an entry of the version that is ACTIVE, or of one that
\* counts as projected late.
LEMMA StoreFacts ==
    ASSUME Typed, Held, [Next]_vars
    PROVE  /\ late \subseteq late'
           /\ \A t \in Targets, i \in Items :
                \/ store'[t][i] \in {store[t][i], Absent}
                \/ version[VersionOf[i]] = "active"
                \/ VersionOf[i] \in late'
  <1> DEFINE Kept == UNCHANGED <<store, late>>
             Goal == /\ late \subseteq late'
                     /\ \A t \in Targets, i \in Items :
                          \/ store'[t][i] \in {store[t][i], Absent}
                          \/ version[VersionOf[i]] = "active"
                          \/ VersionOf[i] \in late'
  <1>0. Kept => Goal
    OBVIOUS
  <1>1. CASE UNCHANGED vars \/ RestartApi
    BY <1>0, <1>1 DEF vars, RestartApi
  <1>2. ASSUME NEW v \in Versions, ImportCandidate(v) \/ ImportAndActivate(v) PROVE Goal
    BY <1>0, <1>2 DEF ImportCandidate, ImportAndActivate, projected, observed
  <1>3. ASSUME NEW r \in Reviewers, ReviewStep(r) PROVE Goal
    BY <1>0, <1>3, ReviewKeepsVersions
  <1>4. ASSUME NEW p \in Promoters, PromotionStep(p) PROVE Goal
    BY <1>0, <1>4 DEF PromotionStep, OpenPromotion, FindActive, LockActive, PassGate,
                      CommitPromotion, RefusePromotion, projected, observed
  <1>5. ASSUME NEW s \in Syncers, SyncStep(s) PROVE Goal
    <2>1. TargetOf[s] \in Targets /\ store \in [Targets -> [Items -> Entries]]
      BY TargetAssumption DEF Typed, TypeOK
    <2>2. CASE ClearVersion(s)
      BY <2>1, <2>2 DEF ClearVersion
    <2>3. CASE Upsert(s)
      <3>1. PICK i \in run[s].todo :
               i \in Items /\ store' = [store EXCEPT ![TargetOf[s]][i] = Put(s, i)]
        BY <2>3, UpsertFacts
      <3>2. VersionOf[i] = run[s].version
        BY <2>3, <3>1 DEF Upsert, Upserting, Held, RunHolds, Touching, ItemsOf
      <3>3. late \subseteq late' /\ (version[VersionOf[i]] = "active" \/ VersionOf[i] \in late')
        BY <2>3, <3>2 DEF Upsert
      <3>4. \A t \in Targets, j \in Items : store'[t][j] = store[t][j] \/ j = i
        BY <2>1, <3>1
      <3> QED BY <3>3, <3>4
    <2>4. CASE Prune(s)
      BY <2>1, <2>4 DEF Prune, observed
    <2>5. CASE DropPrevious(s)
      BY <2>1, <2>5 DEF DropPrevious, observed
    <2>6. CASE ~(ClearVersion(s) \/ Upsert(s) \/ Prune(s) \/ DropPrevious(s))
      BY <1>0, <1>5, <2>6
         DEF SyncStep, QueueSync, BeginCliSync, StartSync, FailPreflight, ReadActive, LockVersion,
             LockSyncJob, CommitSync, StoreFails, LoseRun, RefuseSync, projected, observed
    <2> QED BY <2>2, <2>3, <2>4, <2>5, <2>6
  <1> QED BY <1>1, <1>2, <1>3, <1>4, <1>5 DEF Next

\* A synchronisation is recorded as SUCCEEDED only by a run that has deleted the predecessor.
LEMMA EntryFacts ==
    ASSUME Typed, [Next]_vars, NEW v \in Versions, NEW t \in Targets,
           sync'[v][t] = "succeeded"
    PROVE  \/ sync[v][t] = "succeeded"
           \/ \E s \in Syncers : CommitSync(s) /\ Job(s) = <<v, t>>
  <1>0. sync \in [Versions -> [Targets -> {"none", "pending", "succeeded", "failed"}]]
    BY DEF Typed, TypeOK
  <1>1. CASE UNCHANGED vars
    BY <1>1 DEF vars
  <1>2. ASSUME NEW u \in Versions, ImportCandidate(u) \/ ImportAndActivate(u)
        PROVE  sync[v][t] = "succeeded"
    <2>1. UNCHANGED sync \/ sync' = [sync EXCEPT ![u] = [x \in Targets |-> "pending"]]
      BY <1>2 DEF ImportCandidate, ImportAndActivate, projected
    <2> QED BY <1>0, <2>1
  <1>3. ASSUME NEW r \in Reviewers, ReviewStep(r) PROVE sync[v][t] = "succeeded"
    <2>1. UNCHANGED sync \/ sync' = InvalidateJobs(review[r].version)
      BY <1>3 DEF ReviewStep, BeginApiReview, BeginCliReview, BeginPackage, LockItem, LockSyncJobs,
         CommitReview, RefuseReview, projected
    <2> QED BY <1>0, <2>1 DEF InvalidateJobs
  <1>4. ASSUME NEW p \in Promoters, PromotionStep(p) PROVE sync[v][t] = "succeeded"
    <2>1. UNCHANGED sync
          \/ sync' = [sync EXCEPT ![promo[p].candidate] = [u \in Targets |-> "pending"]]
      BY <1>4 DEF PromotionStep, OpenPromotion, FindActive, LockActive, PassGate,
                  CommitPromotion, RefusePromotion, projected
    <2> QED BY <1>0, <2>1
  <1>5. CASE RestartApi
    BY <1>0, <1>5 DEF RestartApi
  <1>6. ASSUME NEW s \in Syncers, SyncStep(s)
        PROVE  sync[v][t] = "succeeded" \/ (CommitSync(s) /\ Job(s) = <<v, t>>)
    <2>1. CASE CommitSync(s)
      <3>1. sync' = [sync EXCEPT ![run[s].version][TargetOf[s]] = "succeeded"]
        BY <2>1 DEF CommitSync, SetEntry
      <3> QED BY <1>0, <2>1, <3>1 DEF Job
    <2>2. CASE FailPreflight(s) \/ StoreFails(s)
      <3>1. sync' = [sync EXCEPT ![run[s].version][TargetOf[s]] = "failed"]
        BY <2>2 DEF FailPreflight, StoreFails, SetEntry
      <3> QED BY <1>0, <3>1
    <2>3. CASE ~(CommitSync(s) \/ FailPreflight(s) \/ StoreFails(s))
      BY <1>6, <2>3 DEF SyncStep, QueueSync, BeginCliSync, StartSync, ReadActive, LockVersion,
         LockSyncJob, ClearVersion, Upsert, Prune, DropPrevious, LoseRun, RefuseSync, projected
    <2> QED BY <2>1, <2>2, <2>3
  <1> QED BY <1>1, <1>2, <1>3, <1>4, <1>5, <1>6 DEF Next

\* A store without the predecessor stays so: only a late run could write it.
LEMMA RidKept ==
    ASSUME Typed, Chain, Held, [Next]_vars, NEW v \in Versions, NEW t \in Targets, Rid(v, t),
           previous'[v] = previous[v]
    PROVE  Rid(v, t)'
  <1> SUFFICES ASSUME previous[v] # None, previous[v] \notin late',
                      NEW i \in ItemsOf(previous[v])
               PROVE  store'[t][i] = Absent
    BY DEF Rid, ItemsOf
  <1>1. i \in Items /\ VersionOf[i] = previous[v] /\ version[VersionOf[i]] = "archived"
    BY DEF ItemsOf, Chain
  <1>2. store[t][i] = Absent
    BY StoreFacts DEF Rid
  <1> QED BY <1>1, <1>2, StoreFacts

\* Only a promotion records a predecessor, for a version that was not published yet.
LEMMA PreviousFacts ==
    ASSUME Typed, Chain, [Next]_vars, NEW v \in Versions, previous'[v] # previous[v]
    PROVE  version[v] = "imported" /\ \A t \in Targets : sync'[v][t] = "pending"
  <1>1. ASSUME NEW p \in Promoters, CommitPromotion(p)
        PROVE  version[v] = "imported" /\ \A t \in Targets : sync'[v][t] = "pending"
    <2>1. /\ previous' = [previous EXCEPT ![promo[p].candidate] = promo[p].active]
          /\ sync' = [sync EXCEPT ![promo[p].candidate] = [t \in Targets |-> "pending"]]
      BY <1>1 DEF CommitPromotion
    <2>2. v = promo[p].candidate
      BY <2>1 DEF Typed, TypeOK
    <2>3. version[v] = "imported"
      BY <1>1, <2>2, CandidateImported
    <2>4. sync'[v] = [t \in Targets |-> "pending"]
      BY <2>1, <2>2 DEF Typed, TypeOK
    <2> QED BY <2>3, <2>4
  <1>2. ASSUME NEW p \in Promoters, PromotionStep(p), ~CommitPromotion(p) PROVE UNCHANGED previous
    BY <1>2 DEF PromotionStep, OpenPromotion, FindActive, LockActive, PassGate, RefusePromotion, known
  <1>3. ASSUME NEW u \in Versions, ImportCandidate(u) \/ ImportAndActivate(u) PROVE UNCHANGED previous
    BY <1>3 DEF ImportCandidate, ImportAndActivate
  <1> QED BY <1>1, <1>2, <1>3, ReviewKeepsVersions, SyncKeepsVersions DEF Next, vars, RestartApi, known

\* A run reaches "dropped" by deleting the predecessor.
LEMMA DroppedFacts ==
    ASSUME Typed, [Next]_vars, NEW s \in Syncers, run'[s].pc = "dropped"
    PROVE  /\ run'[s].version = run[s].version
           /\ run[s].pc = "dropped" \/ DropPrevious(s)
  <1>1. CASE UNCHANGED run
    BY <1>1
  <1>2. CASE RestartApi
    BY <1>2 DEF RestartApi, NoRun
  <1>3. ASSUME NEW q \in Syncers, SyncStep(q)
        PROVE  /\ run'[s].version = run[s].version
               /\ run[s].pc = "dropped" \/ DropPrevious(s)
    <2>1. CASE StartSync(q) \/ ReadActive(q) \/ LockVersion(q) \/ ClearVersion(q) \/ Prune(q)
      <3>1. PICK pc \in {"running", "seen", "locked", "cleared", "upserted"} : Move(q, pc)
        BY <2>1 DEF StartSync, ReadActive, LockVersion, ClearVersion, Prune
      <3> QED BY <3>1, MoveFacts
    <2>2. CASE DropPrevious(q)
      <3>1. Move(q, "dropped")
        BY <2>2 DEF DropPrevious
      <3>2. run'[q].version = run[q].version /\ (s # q => run'[s] = run[s])
        BY <3>1, MoveFacts
      <3>3. CASE s = q
        BY <2>2, <3>2, <3>3
      <3>4. CASE s # q
        BY <3>2, <3>4
      <3> QED BY <3>3, <3>4
    <2>3. ASSUME NEW v \in Versions, QueueSync(q, v) \/ BeginCliSync(q, v)
          PROVE  s # q /\ run'[s] = run[s]
      BY <2>3, RunFacts DEF QueueSync, BeginCliSync, RunTx
    <2>4. CASE LockSyncJob(q)
      BY <2>4, LockJobFacts
    <2>5. CASE Upsert(q)
      BY <2>5, UpsertFacts
    <2>6. CASE FailPreflight(q) \/ CommitSync(q) \/ StoreFails(q) \/ LoseRun(q) \/ RefuseSync(q)
      <3>1. EndRun(q)
        BY <2>6 DEF FailPreflight, CommitSync, StoreFails, LoseRun, RefuseSync
      <3> QED BY <3>1, EndFacts
    <2> QED BY <1>3, <2>1, <2>2, <2>3, <2>4, <2>5, <2>6 DEF SyncStep
  <1>4. ASSUME NEW v \in Versions, ImportCandidate(v) \/ ImportAndActivate(v) PROVE UNCHANGED run
    BY <1>4 DEF ImportCandidate, ImportAndActivate
  <1>5. ASSUME NEW p \in Promoters, PromotionStep(p) PROVE UNCHANGED run
    BY <1>5 DEF PromotionStep, OpenPromotion, FindActive, LockActive, PassGate, CommitPromotion,
                RefusePromotion
  <1>6. ASSUME NEW r \in Reviewers, ReviewStep(r) PROVE UNCHANGED run
    BY <1>6, ReviewKeepsVersions
  <1> QED BY <1>1, <1>2, <1>3, <1>4, <1>5, <1>6 DEF Next, vars

\* Every step keeps the predecessors out of the stores.
LEMMA StepGone == Typed /\ Chain /\ Held /\ Gone /\ [Next]_vars => Gone'
  <1> SUFFICES ASSUME Typed, Chain, Held, Gone, [Next]_vars PROVE Gone'
    OBVIOUS
  <1>1. ASSUME NEW v \in Versions, NEW t \in Targets, sync'[v][t] = "succeeded" PROVE Rid(v, t)'
    <2>1. previous'[v] = previous[v]
      BY <1>1, PreviousFacts
    <2>2. CASE sync[v][t] = "succeeded"
      BY <2>1, <2>2, RidKept DEF Gone
    <2>3. ASSUME NEW s \in Syncers, CommitSync(s), Job(s) = <<v, t>> PROVE Rid(v, t)'
      BY <2>1, <2>3, RidKept DEF Gone, CommitSync, Job
    <2> QED BY <1>1, <2>2, <2>3, EntryFacts
  <1>2. ASSUME NEW s \in Syncers, run'[s].pc = "dropped"
        PROVE  Rid(run[s].version, TargetOf[s])'
    <2>1. run'[s].version = run[s].version /\ TargetOf[s] \in Targets
      BY <1>2, DroppedFacts, TargetAssumption
    <2>2. CASE run[s].pc = "dropped"
      <3>1. run[s].version \in Versions /\ version[run[s].version] \in Published
        BY <2>2 DEF Typed, Pinned, Held, RunHolds
      <3>2. previous'[run[s].version] = previous[run[s].version]
        BY <3>1, PreviousFacts DEF Published
      <3>3. Rid(run[s].version, TargetOf[s])
        BY <2>2 DEF Gone
      <3>4. PICK v \in Versions, t \in Targets :
               v = run[s].version /\ t = TargetOf[s] /\ v = run'[s].version
        BY <2>1, <3>1
      <3>5. Rid(v, t)'
        BY <3>2, <3>3, <3>4, RidKept
      <3> QED BY <3>4, <3>5 DEF Rid, ItemsOf
    <2>3. CASE DropPrevious(s)
      <3>1. store'[TargetOf[s]] = [i \in Items |-> IF VersionOf[i] = previous[run[s].version]
                                                   THEN Absent ELSE store[TargetOf[s]][i]]
            /\ UNCHANGED previous
        BY <2>1, <2>3 DEF DropPrevious, known, Typed, TypeOK
      <3> QED BY <2>1, <3>1 DEF Rid, ItemsOf
    <2> QED BY <1>2, <2>2, <2>3, DroppedFacts
  <1> QED BY <1>1, <1>2 DEF Gone

\* Replacement: when a synchronisation is SUCCEEDED the store has nothing of the version
\* that the promotion replaced (ProjectionReplacementService), unless a run projected that
\* version after it was archived.
THEOREM Replacement == Spec => []PredecessorGone
  <1>1. Gone => PredecessorGone
    BY DEF Gone, Rid, PredecessorGone, Actives
  <1> QED BY <1>1, InitTyped, StepTyped, InitChain, StepChain, InitHeld, StepHeld, InitGone, StepGone,
             PTL DEF Spec

-----------------------------------------------------------------------------
(* The projection of the ACTIVE version.                                   *)

\* What the store t has of v is what the items of v say, merged or not.
Matches(v, t) ==
    \A i \in ItemsOf(v) :
        IF Planned(v, t)[i] # Absent
          THEN store[t][i] \in Shows(v, t, Planned(v, t)[i])
          ELSE <<v, t>> \in merged \/ store[t][i] = Absent

\* A run that writes into what it has cleared.
Alone(s, t) == t \in Graph /\ s \in Replacing

\* A run that writes v: its plan is still what the items say and what is no longer to do is
\* written; a run with replace_version writes nothing before it has cleared the version and
\* finds nothing of it then; ChromaDB is pruned last, and a graph that was not cleared
\* counts as merged from there on.
Written(s, v, t) ==
    /\ run[s].plan = Planned(v, t)
    /\ \A i \in ItemsOf(v) : run[s].plan[i] # Absent /\ i \notin run[s].todo =>
          /\ store[t][i] \in Mixed(run[s].plan[i])
          /\ t \notin Graph \/ s \in Replacing => store[t][i] = New(run[s].plan[i])
    /\ run[s].pc = "writing" /\ Alone(s, t) =>
          \A i \in ItemsOf(v) : run[s].plan[i] # Absent => i \in run[s].todo
    /\ run[s].pc # "writing" /\ Alone(s, t) =>
          /\ <<v, t>> \notin merged
          /\ \A i \in ItemsOf(v) : run[s].plan[i] = Absent \/ i \in run[s].todo => store[t][i] = Absent
    /\ run[s].pc \in {"upserted", "dropped"} =>
          /\ run[s].todo = {}
          /\ t \in Graph /\ s \notin Replacing => <<v, t>> \in merged
          /\ t \notin Graph =>
                \A i \in ItemsOf(v) : run[s].plan[i] = Absent => store[t][i] = Absent

RunFresh(s, v) ==
    run[s].pc \in Touching /\ run[s].version = v /\ version[v] = "active" /\ v \notin blind
        => Written(s, v, TargetOf[s])

Fresh == ProjectionFresh /\ \A s \in Syncers, v \in Versions : RunFresh(s, v)

\* Nothing is ACTIVE at first.
LEMMA InitFresh == Init => Fresh
  BY DEF Init, Fresh, ProjectionFresh, RunFresh, Actives, NoRun, Touching

\* A published version that is ACTIVE after a step was so before it; a version that becomes
\* ACTIVE has its jobs pending.
LEMMA ActiveAgain ==
    ASSUME Typed, Chain, [Next]_vars, NEW v \in Versions, version'[v] = "active"
    PROVE  /\ version[v] \in Published => version[v] = "active"
           /\ version[v] = "active" \/ \A t \in Targets : sync'[v][t] = "pending"
  <1> USE DEF Published
  <1>0. version \in [Versions -> {"none", "imported", "active", "archived"}]
        /\ sync \in [Versions -> [Targets -> {"none", "pending", "succeeded", "failed"}]]
    BY DEF Typed, TypeOK
  <1>1. ASSUME NEW p \in Promoters, CommitPromotion(p)
        PROVE  /\ version[v] \in Published => version[v] = "active"
               /\ version[v] = "active" \/ \A t \in Targets : sync'[v][t] = "pending"
    <2>1. /\ version' = Replaced(promo[p].candidate, promo[p].active)
          /\ sync' = [sync EXCEPT ![promo[p].candidate] = [t \in Targets |-> "pending"]]
          /\ promo[p].candidate \in Versions /\ version[promo[p].candidate] = "imported"
      BY <1>1, CandidateImported DEF CommitPromotion
    <2>2. v = promo[p].candidate \/ version[v] = "active"
      BY <2>1 DEF Replaced
    <2> QED BY <1>0, <2>1, <2>2
  <1>2. ASSUME NEW u \in Versions, ImportAndActivate(u)
        PROVE  /\ version[v] \in Published => version[v] = "active"
               /\ version[v] = "active" \/ \A t \in Targets : sync'[v][t] = "pending"
    <2>1. /\ version[u] = "none" /\ sync' = [sync EXCEPT ![u] = [t \in Targets |-> "pending"]]
          /\ version' = [x \in Versions |-> IF x = u THEN "active"
                                      ELSE IF x \in Actives THEN "archived" ELSE version[x]]
      BY <1>2 DEF ImportAndActivate
    <2>2. v = u \/ version[v] = "active"
      BY <2>1
    <2> QED BY <1>0, <2>1, <2>2
  <1>3. ASSUME NEW u \in Versions, ImportCandidate(u) PROVE version[v] = "active"
    BY <1>0, <1>3 DEF ImportCandidate
  <1>4. ASSUME NEW p \in Promoters, PromotionStep(p), ~CommitPromotion(p) PROVE UNCHANGED version
    BY <1>4 DEF PromotionStep, OpenPromotion, FindActive, LockActive, PassGate, RefusePromotion, known
  <1> QED BY <1>1, <1>2, <1>3, <1>4, ReviewKeepsVersions, SyncKeepsVersions
          DEF Next, vars, RestartApi, known

\* What the items of a version say changes with the items only.
LEMMA SameEffective ==
    ASSUME NEW v \in Versions, \A i \in ItemsOf(v) : item'[i] = item[i] /\ payload'[i] = payload[i]
    PROVE  Effective(v)' = Effective(v)
  BY DEF Effective, ItemsOf

\* A review of the ACTIVE version that is recorded without invalidating its projections
\* leaves what its items say, or the version counts as blind.
LEMMA ReviewEffective ==
    ASSUME Typed, Held, NEW r \in Reviewers, CommitReview(r), NEW v \in Versions,
           version[v] = "active", v \notin blind'
    PROVE  \/ Effective(v)' = Effective(v)
           \/ review[r].version = v /\ Invalidates(r)
  <1> DEFINE w == review[r]
  <1>1. /\ w.items \subseteq ItemsOf(w.version)
        /\ item' = [i \in Items |->
                  IF i \in w.items
                    THEN [status |-> IF w.new = w.seen[i].status THEN item[i].status ELSE w.new,
                          revision |-> w.seen[i].revision + 1]
                    ELSE item[i]]
        /\ payload' = [i \in Items |-> IF i \in w.items /\ w.new = "corrected"
                                     THEN payload[i] + 1 ELSE payload[i]]
    BY DEF CommitReview, Held, ReviewHolds
  <1>2. CASE w.version # v
    BY <1>1, <1>2, SameEffective DEF ItemsOf, Typed, TypeOK
  <1>3. CASE w.version = v /\ ~Invalidates(r)
    <2>1. w.new \notin Publishable /\ \A i \in w.items : item[i].status \notin Publishable
      BY <1>3 DEF CommitReview
    <2>2. \A i \in w.items : item'[i].status \notin Publishable
      BY <1>1, <2>1 DEF ItemsOf
    <2>3. \A i \in Items \ w.items : item'[i] = item[i] /\ payload'[i] = payload[i]
      BY <1>1 DEF Typed, TypeOK
    <2> HIDE DEF w
    <2> QED BY <2>1, <2>2, <2>3 DEF Effective
  <1> QED BY <1>2, <1>3

\* While a run projects the ACTIVE version, or its job says SUCCEEDED, no step changes what
\* its items say, unless the version becomes blind.
LEMMA EffectiveKept ==
    ASSUME Typed, Chain, Held, [Next]_vars, NEW v \in Versions, version[v] = "active",
           v \notin blind'
    PROVE  \/ Effective(v)' = Effective(v)
           \/ \A t \in Targets : sync'[v][t] # "succeeded" /\ ~InProgress(v, t)
  <1>1. ASSUME UNCHANGED <<item, payload>> PROVE Effective(v)' = Effective(v)
    BY <1>1 DEF Effective
  <1>2. CASE UNCHANGED vars \/ RestartApi
    BY <1>1, <1>2 DEF vars, RestartApi, reviewed
  <1>3. ASSUME NEW u \in Versions, ImportCandidate(u) \/ ImportAndActivate(u)
        PROVE  Effective(v)' = Effective(v)
    <2>1. u # v /\ ImportItems(u)
      BY <1>3 DEF ImportCandidate, ImportAndActivate
    <2> QED BY <2>1, SameEffective DEF ImportItems, ItemsOf
  <1>4. ASSUME NEW s \in Syncers, SyncStep(s) PROVE UNCHANGED <<item, payload>>
    BY <1>4, SyncKeepsVersions
  <1>5. ASSUME NEW p \in Promoters, PromotionStep(p) PROVE UNCHANGED <<item, payload>>
    BY <1>5 DEF PromotionStep, OpenPromotion, FindActive, LockActive, PassGate, CommitPromotion,
                RefusePromotion, reviewed
  <1>6. ASSUME NEW r \in Reviewers, ReviewStep(r), ~CommitReview(r) PROVE UNCHANGED <<item, payload>>
    BY <1>6 DEF ReviewStep, BeginApiReview, BeginCliReview, BeginPackage, LockItem, LockSyncJobs,
                RefuseReview, reviewed
  <1>7. ASSUME NEW r \in Reviewers, CommitReview(r), review[r].version = v, Invalidates(r)
        PROVE  \A t \in Targets : sync'[v][t] # "succeeded" /\ ~InProgress(v, t)
    <2>1. sync' = InvalidateJobs(v) /\ review[r].pc = "committing"
      BY <1>7 DEF CommitReview
    <2>2. \A t \in Targets : sync'[v][t] # "succeeded"
      BY <2>1 DEF InvalidateJobs, Typed, TypeOK
    <2>3. SyncRows(v) \subseteq holds[r]
      BY <1>7, <2>1 DEF Held, ReviewHolds
    <2>4. ASSUME NEW s \in Syncers, run[s].pc \in Touching, run[s].version = v PROVE FALSE
      <3>1. SyncRow(v, TargetOf[s]) \in holds[s] /\ SyncRow(v, TargetOf[s]) \in SyncRows(v)
        BY <2>4, TargetAssumption DEF Held, RunHolds, SyncRows
      <3> QED BY <2>3, <3>1, SessionFacts DEF Held, Exclusive
    <2> QED BY <2>2, <2>4 DEF InProgress, Job
  <1> QED BY <1>1, <1>2, <1>3, <1>4, <1>5, <1>6, <1>7, ReviewEffective DEF Next

\* The entries of the ACTIVE version in a store change with its own run only.
LEMMA StoreKept ==
    ASSUME Typed, Chain, Held, [Next]_vars, NEW v \in Versions, NEW t \in Targets,
           version[v] = "active",
           \A q \in Syncers : SyncStep(q) => ~(run[q].pc \in Touching /\ Job(q) = <<v, t>>),
           NEW i \in ItemsOf(v)
    PROVE  store'[t][i] = store[t][i]
  <1>0. store \in [Targets -> [Items -> Entries]] /\ i \in Items /\ VersionOf[i] = v
    BY DEF Typed, TypeOK, ItemsOf
  <1>1. CASE UNCHANGED vars \/ RestartApi
    BY <1>1 DEF vars, RestartApi
  <1>2. ASSUME NEW u \in Versions, ImportCandidate(u) \/ ImportAndActivate(u) PROVE UNCHANGED store
    BY <1>2 DEF ImportCandidate, ImportAndActivate, projected
  <1>3. ASSUME NEW r \in Reviewers, ReviewStep(r) PROVE UNCHANGED store
    BY <1>3, ReviewKeepsVersions
  <1>4. ASSUME NEW p \in Promoters, PromotionStep(p) PROVE UNCHANGED store
    BY <1>4 DEF PromotionStep, OpenPromotion, FindActive, LockActive, PassGate, CommitPromotion,
                RefusePromotion, projected
  <1>5. ASSUME NEW s \in Syncers, SyncStep(s) PROVE store'[t][i] = store[t][i]
    <2>0. TargetOf[s] \in Targets
      BY TargetAssumption
    <2>1. ASSUME run[s].pc \in Touching, TargetOf[s] = t PROVE run[s].version # v
      BY <1>5, <2>1 DEF Job
    <2>2. CASE ClearVersion(s)
      <3>1. /\ store' = [store EXCEPT ![TargetOf[s]] =
                    [j \in Items |-> IF VersionOf[j] = run[s].version THEN Absent ELSE @[j]]]
            /\ run[s].pc \in Touching
        BY <2>2 DEF ClearVersion, Touching
      <3> QED BY <1>0, <2>0, <2>1, <3>1
    <2>3. CASE Upsert(s)
      <3>1. PICK j \in run[s].todo :
               j \in Items /\ store' = [store EXCEPT ![TargetOf[s]][j] = Put(s, j)]
        BY <2>3, UpsertFacts
      <3>2. run[s].pc \in Touching /\ VersionOf[j] = run[s].version
        BY <2>3, <3>1 DEF Upsert, Upserting, Held, RunHolds, Touching, ItemsOf
      <3> QED BY <1>0, <2>0, <2>1, <3>1, <3>2
    <2>4. CASE Prune(s)
      <3>1. /\ \/ UNCHANGED store
               \/ store' = [store EXCEPT ![TargetOf[s]] =
                        [j \in Items |-> IF VersionOf[j] = run[s].version /\ run[s].plan[j] = Absent
                                           THEN Absent ELSE @[j]]]
            /\ run[s].pc \in Touching
        BY <2>4 DEF Prune, Upserting, Touching
      <3> QED BY <1>0, <2>0, <2>1, <3>1
    <2>5. CASE DropPrevious(s)
      <3>1. /\ store' = [store EXCEPT ![TargetOf[s]] =
                   [j \in Items |-> IF VersionOf[j] = previous[run[s].version] THEN Absent ELSE @[j]]]
            /\ run[s].version \in Versions
        BY <2>5 DEF DropPrevious, Typed, Pinned
      <3>2. previous[run[s].version] # v
        BY <3>1, ItemAssumption DEF Chain
      <3> QED BY <1>0, <2>0, <3>1, <3>2
    <2>6. CASE ~(ClearVersion(s) \/ Upsert(s) \/ Prune(s) \/ DropPrevious(s))
      BY <1>5, <2>6
         DEF SyncStep, QueueSync, BeginCliSync, StartSync, FailPreflight, ReadActive, LockVersion,
             LockSyncJob, CommitSync, StoreFails, LoseRun, RefuseSync, projected
    <2> QED BY <2>2, <2>3, <2>4, <2>5, <2>6
  <1> QED BY <1>1, <1>2, <1>3, <1>4, <1>5 DEF Next

\* A run that writes goes on with its job, commits, or leaves a mark: the job is FAILED or
\* the store torn.
LEMMA ProgressFacts ==
    ASSUME Typed, [Next]_vars, NEW s \in Syncers, run[s].pc \in Touching
    PROVE  \/ run'[s].pc \in Touching /\ run'[s].version = run[s].version
           \/ CommitSync(s)
           \/ sync'[run[s].version][TargetOf[s]] = "failed"
           \/ Job(s) \in torn'
  <1>0. /\ sync \in [Versions -> [Targets -> {"none", "pending", "succeeded", "failed"}]]
        /\ run[s].version \in Versions /\ TargetOf[s] \in Targets
    BY TargetAssumption DEF Typed, TypeOK, Pinned, Touching
  <1>1. CASE UNCHANGED run
    BY <1>1
  <1>2. CASE RestartApi
    <2>1. CASE s \in InApi
      BY <1>2, <2>1 DEF RestartApi
    <2>2. CASE s \notin InApi
      BY <1>2, <2>2 DEF RestartApi
    <2> QED BY <2>1, <2>2
  <1>3. ASSUME SyncStep(s)
        PROVE  \/ run'[s].pc \in Touching /\ run'[s].version = run[s].version
               \/ CommitSync(s)
               \/ sync'[run[s].version][TargetOf[s]] = "failed"
               \/ Job(s) \in torn'
    <2>1. CASE ClearVersion(s) \/ Prune(s) \/ DropPrevious(s)
      <3>1. PICK pc \in Touching : Move(s, pc)
        BY <2>1 DEF ClearVersion, Prune, DropPrevious, Upserting, Touching
      <3> QED BY <3>1, MoveFacts
    <2>2. CASE Upsert(s)
      BY <2>2, UpsertFacts
    <2>3. CASE StoreFails(s)
      BY <1>0, <2>3 DEF StoreFails, SetEntry
    <2>4. CASE LoseRun(s)
      BY <2>4 DEF LoseRun
    <2>5. CASE CommitSync(s)
      BY <2>5
    <2> QED BY <1>3, <2>1, <2>2, <2>3, <2>4, <2>5
            DEF SyncStep, QueueSync, BeginCliSync, StartSync, FailPreflight, ReadActive,
                LockVersion, LockSyncJob, RefuseSync, Touching
  <1>4. ASSUME NEW q \in Syncers \ {s}, SyncStep(q) PROVE run'[s] = run[s]
    BY <1>4, OtherRuns
  <1>5. ASSUME NEW v \in Versions, ImportCandidate(v) \/ ImportAndActivate(v) PROVE UNCHANGED run
    BY <1>5 DEF ImportCandidate, ImportAndActivate
  <1>6. ASSUME NEW p \in Promoters, PromotionStep(p) PROVE UNCHANGED run
    BY <1>6 DEF PromotionStep, OpenPromotion, FindActive, LockActive, PassGate, CommitPromotion,
                RefusePromotion
  <1>7. ASSUME NEW r \in Reviewers, ReviewStep(r) PROVE UNCHANGED run
    BY <1>7, ReviewKeepsVersions
  <1>8. CASE UNCHANGED vars
    BY <1>1, <1>8 DEF vars
  <1> QED BY <1>1, <1>2, <1>3, <1>4, <1>5, <1>6, <1>7, <1>8 DEF Next

\* A step of the run of v itself.
LEMMA RunFreshStep ==
    ASSUME Typed, Chain, Held, Fresh, NEW s \in Syncers, SyncStep(s), NEW v \in Versions,
           run'[s].pc \in Touching, run'[s].version = v, version[v] = "active", v \notin blind
    PROVE  Written(s, v, TargetOf[s])'
  <1> DEFINE t == TargetOf[s]
  <1> HIDE DEF t
  <1>0. /\ store \in [Targets -> [Items -> Entries]] /\ t \in Targets
        /\ merged \subseteq Versions \X Graph
        /\ \A i \in ItemsOf(v) : i \in Items /\ VersionOf[i] = v
    BY TargetAssumption DEF Typed, TypeOK, ItemsOf, t
  <1>1. Planned(v, t)' = Planned(v, t)
    BY SyncKeepsVersions DEF Effective, Planned
  <1>2. CASE LockSyncJob(s)
    <2>1. /\ run'[s].pc = "writing" /\ run'[s].plan = Planned(v, t)
          /\ run'[s].todo = Documents(v, t)
      BY <1>2, LockJobFacts DEF t
    <2>2. \A i \in ItemsOf(v) : Planned(v, t)[i] # Absent => i \in Documents(v, t)
      BY DEF Documents, ItemsOf
    <2> QED BY <1>1, <2>1, <2>2 DEF Written, ItemsOf, t
  <1>3. ASSUME run[s].pc \in Touching, run[s].version = v PROVE Written(s, v, t)
    BY <1>3 DEF Fresh, RunFresh, t
  <1>4. CASE ClearVersion(s)
    <2>1. /\ run[s].pc = "writing" /\ t \in Graph /\ s \in Replacing /\ Move(s, "cleared")
          /\ store' = [store EXCEPT ![t] =
                    [i \in Items |-> IF VersionOf[i] = run[s].version THEN Absent ELSE @[i]]]
          /\ merged' = merged \ {<<run[s].version, t>>}
      BY <1>4 DEF ClearVersion, Job, t
    <2>2. /\ run'[s].pc = "cleared" /\ run[s].version = v /\ run'[s].plan = run[s].plan
          /\ run'[s].todo = run[s].todo
      BY <2>1, MoveFacts
    <2>3. Written(s, v, t)
      BY <1>3, <2>1, <2>2 DEF Touching
    <2>4. \A i \in ItemsOf(v) : run'[s].plan[i] # Absent => i \in run'[s].todo
      BY <2>1, <2>2, <2>3 DEF Written, Alone
    <2>5. \A i \in ItemsOf(v) : store'[t][i] = Absent
      BY <1>0, <2>1, <2>2
    <2>6. <<v, t>> \notin merged'
      BY <2>1, <2>2
    <2> QED BY <1>1, <2>2, <2>3, <2>4, <2>5, <2>6 DEF Written, ItemsOf, t
  <1>5. CASE Upsert(s)
    <2>1. PICK i \in run[s].todo :
              /\ run'[s].pc = run[s].pc /\ run'[s].version = run[s].version
              /\ run'[s].plan = run[s].plan /\ run'[s].todo = run[s].todo \ {i}
              /\ i \in Items
              /\ store' = [store EXCEPT ![t][i] = Put(s, i)]
      BY <1>5, UpsertFacts DEF t
    <2>2. /\ run[s].pc = IF Alone(s, t) THEN "cleared" ELSE "writing"
          /\ UNCHANGED merged
      BY <1>5 DEF Upsert, Upserting, Alone, t
    <2>3. Written(s, v, t)
      BY <1>3, <2>1, <2>2 DEF Touching
    <2>4. store'[t][i] = Put(s, i) /\ \A j \in Items \ {i} : store'[t][j] = store[t][j]
      BY <1>0, <2>1
    <2>5. run[s].plan[i] # Absent /\ VersionOf[i] = v
      BY <1>5, <2>1, <2>2 DEF Typed, Pinned, Held, RunHolds, Touching, ItemsOf
    <2>6. /\ Put(s, i) \in Mixed(run[s].plan[i])
          /\ t \notin Graph \/ s \in Replacing => Put(s, i) = New(run[s].plan[i])
      <3>1. Alone(s, t) => store[t][i] = Absent
        BY <2>1, <2>2, <2>3, <2>5 DEF Written, ItemsOf
      <3> QED BY <2>1, <3>1, PutFacts DEF Alone, t
    <2>7. \A j \in ItemsOf(v) : run'[s].plan[j] # Absent /\ j \notin run'[s].todo =>
             /\ store'[t][j] \in Mixed(run'[s].plan[j])
             /\ t \notin Graph \/ s \in Replacing => store'[t][j] = New(run'[s].plan[j])
      <3> SUFFICES ASSUME NEW j \in ItemsOf(v), run'[s].plan[j] # Absent, j \notin run'[s].todo
                   PROVE  /\ store'[t][j] \in Mixed(run'[s].plan[j])
                          /\ t \notin Graph \/ s \in Replacing
                                => store'[t][j] = New(run'[s].plan[j])
        OBVIOUS
      <3>1. CASE j = i
        BY <2>1, <2>4, <2>6, <3>1
      <3>2. CASE j # i
        BY <1>0, <2>1, <2>3, <2>4, <3>2 DEF Written
      <3> QED BY <3>1, <3>2
    <2>8. \A j \in ItemsOf(v) : run'[s].plan[j] = Absent \/ j \in run'[s].todo
             => store'[t][j] = store[t][j] /\ (run[s].plan[j] = Absent \/ j \in run[s].todo)
      BY <1>0, <2>1, <2>4, <2>5
    <2>9. run'[s].pc # "writing" /\ Alone(s, t) =>
             /\ <<v, t>> \notin merged'
             /\ \A j \in ItemsOf(v) :
                   run'[s].plan[j] = Absent \/ j \in run'[s].todo => store'[t][j] = Absent
      BY <2>1, <2>2, <2>3, <2>8 DEF Written
    <2>10. /\ run'[s].plan = Planned(v, t)' /\ run'[s].pc \notin {"upserted", "dropped"}
           /\ ~(run'[s].pc = "writing" /\ Alone(s, t))
      BY <1>1, <2>1, <2>2, <2>3 DEF Written
    <2> QED BY <2>7, <2>9, <2>10 DEF Written, ItemsOf, Alone, t
  <1>6. CASE Prune(s)
    <2>1. /\ run[s].pc = IF Alone(s, t) THEN "cleared" ELSE "writing"
          /\ run[s].todo = {} /\ Move(s, "upserted")
          /\ merged' = IF t \in Graph /\ s \notin Replacing THEN merged \cup {<<run[s].version, t>>}
                       ELSE merged
          /\ store' = IF t \in Graph THEN store
                ELSE [store EXCEPT ![t] =
                        [i \in Items |-> IF VersionOf[i] = run[s].version /\ run[s].plan[i] = Absent
                                           THEN Absent ELSE @[i]]]
      BY <1>6 DEF Prune, Upserting, Alone, Job, t
    <2>2. /\ run'[s].pc = "upserted" /\ run[s].version = v /\ run'[s].plan = run[s].plan
          /\ run'[s].todo = {}
      BY <2>1, MoveFacts
    <2>3. Written(s, v, t)
      BY <1>3, <2>1, <2>2 DEF Touching
    <2>4. \A i \in ItemsOf(v) : run[s].plan[i] # Absent => store'[t][i] = store[t][i]
      BY <1>0, <2>1
    <2>5. t \notin Graph => \A i \in ItemsOf(v) : run[s].plan[i] = Absent => store'[t][i] = Absent
      BY <1>0, <2>1, <2>2
    <2>6. \A i \in ItemsOf(v) : run[s].plan[i] # Absent =>
             /\ store'[t][i] \in Mixed(run[s].plan[i])
             /\ t \notin Graph \/ s \in Replacing => store'[t][i] = New(run[s].plan[i])
      BY <2>1, <2>3, <2>4 DEF Written
    <2>7. Alone(s, t) => /\ <<v, t>> \notin merged'
                         /\ \A i \in ItemsOf(v) : run[s].plan[i] = Absent => store'[t][i] = Absent
      BY <2>1, <2>3 DEF Written, Alone
    <2>8. t \in Graph /\ s \notin Replacing => <<v, t>> \in merged'
      BY <2>1, <2>2
    <2> QED BY <1>1, <2>2, <2>3, <2>5, <2>6, <2>7, <2>8 DEF Written, ItemsOf, t
  <1>7. CASE DropPrevious(s)
    <2>1. /\ run[s].pc = "upserted" /\ Move(s, "dropped")
          /\ store' = [store EXCEPT ![t] =
                [i \in Items |-> IF VersionOf[i] = previous[run[s].version] THEN Absent ELSE @[i]]]
          /\ UNCHANGED merged
      BY <1>7 DEF DropPrevious, observed, t
    <2>2. /\ run'[s].pc = "dropped" /\ run[s].version = v /\ run'[s].plan = run[s].plan
          /\ run'[s].todo = run[s].todo
      BY <2>1, MoveFacts
    <2>3. Written(s, v, t)
      BY <1>3, <2>1, <2>2 DEF Touching
    <2>4. previous[v] # v
      BY ItemAssumption DEF Chain
    <2>5. \A i \in ItemsOf(v) : store'[t][i] = store[t][i]
      BY <1>0, <2>1, <2>2, <2>4
    <2> QED BY <1>1, <2>1, <2>2, <2>3, <2>5 DEF Written, ItemsOf, t
  <1>8. ASSUME \/ \E u \in Versions : QueueSync(s, u) \/ BeginCliSync(s, u)
               \/ StartSync(s) \/ ReadActive(s) \/ LockVersion(s)
               \/ FailPreflight(s) \/ CommitSync(s) \/ StoreFails(s) \/ LoseRun(s) \/ RefuseSync(s)
        PROVE  FALSE
    <2>1. CASE \E u \in Versions : QueueSync(s, u) \/ BeginCliSync(s, u)
      BY <2>1, RunFacts DEF QueueSync, BeginCliSync, RunTx, Touching
    <2>2. CASE StartSync(s) \/ ReadActive(s) \/ LockVersion(s)
      <3>1. PICK pc \in {"running", "seen", "locked"} : Move(s, pc)
        BY <2>2 DEF StartSync, ReadActive, LockVersion
      <3> QED BY <3>1, MoveFacts DEF Touching
    <2>3. CASE FailPreflight(s) \/ CommitSync(s) \/ StoreFails(s) \/ LoseRun(s) \/ RefuseSync(s)
      <3>1. EndRun(s)
        BY <2>3 DEF FailPreflight, CommitSync, StoreFails, LoseRun, RefuseSync
      <3> QED BY <3>1, EndFacts DEF Touching
    <2> QED BY <1>8, <2>1, <2>2, <2>3
  <1> QED BY <1>2, <1>4, <1>5, <1>6, <1>7, <1>8 DEF SyncStep

\* What was reviewed blindly stays marked.
LEMMA BlindGrows == [Next]_vars => blind \subseteq blind'
  <1> SUFFICES ASSUME [Next]_vars PROVE blind \subseteq blind'
    OBVIOUS
  <1>1. ASSUME NEW r \in Reviewers, ReviewStep(r) PROVE blind \subseteq blind'
    BY <1>1 DEF ReviewStep, BeginApiReview, BeginCliReview, BeginPackage, LockItem, LockSyncJobs,
                CommitReview, RefuseReview, observed
  <1>2. ASSUME NEW p \in Promoters, PromotionStep(p) PROVE UNCHANGED blind
    BY <1>2 DEF PromotionStep, OpenPromotion, FindActive, LockActive, PassGate, CommitPromotion,
                RefusePromotion, observed
  <1>3. ASSUME NEW v \in Versions, ImportCandidate(v) \/ ImportAndActivate(v) PROVE UNCHANGED blind
    BY <1>3 DEF ImportCandidate, ImportAndActivate, observed
  <1>4. CASE UNCHANGED vars \/ RestartApi
    BY <1>4 DEF vars, RestartApi
  <1> QED BY <1>1, <1>2, <1>3, <1>4, SyncKeepsVersions DEF Next

\* Only the run of a job mends the store it tore.
LEMMA TornFacts ==
    ASSUME [Next]_vars, NEW j \in torn, j \notin torn'
    PROVE  \E s \in Syncers : CommitSync(s) /\ Job(s) = j
  <1>1. ASSUME NEW r \in Reviewers, ReviewStep(r) PROVE UNCHANGED torn
    BY <1>1 DEF ReviewStep, BeginApiReview, BeginCliReview, BeginPackage, LockItem, LockSyncJobs,
                CommitReview, RefuseReview, observed
  <1>2. ASSUME NEW p \in Promoters, PromotionStep(p) PROVE UNCHANGED torn
    BY <1>2 DEF PromotionStep, OpenPromotion, FindActive, LockActive, PassGate, CommitPromotion,
                RefusePromotion, observed
  <1>3. ASSUME NEW v \in Versions, ImportCandidate(v) \/ ImportAndActivate(v) PROVE UNCHANGED torn
    BY <1>3 DEF ImportCandidate, ImportAndActivate, observed
  <1>4. CASE UNCHANGED vars \/ RestartApi
    BY <1>4 DEF vars, RestartApi
  <1>5. ASSUME NEW s \in Syncers, SyncStep(s) PROVE CommitSync(s) /\ Job(s) = j
    BY <1>5 DEF SyncStep, QueueSync, BeginCliSync, StartSync, FailPreflight, ReadActive, LockVersion,
                LockSyncJob, ClearVersion, Upsert, Prune, DropPrevious, CommitSync, StoreFails, LoseRun,
                RefuseSync, observed
  <1> QED BY <1>1, <1>2, <1>3, <1>4, <1>5 DEF Next

\* Only a run of a graph changes whether it counts as merged.
LEMMA MergedFacts ==
    ASSUME [Next]_vars, NEW j, ~(j \in merged' <=> j \in merged)
    PROVE  \E s \in Syncers : SyncStep(s) /\ run[s].pc \in Touching /\ Job(s) = j
  <1>1. ASSUME NEW r \in Reviewers, ReviewStep(r) PROVE UNCHANGED merged
    BY <1>1 DEF ReviewStep, BeginApiReview, BeginCliReview, BeginPackage, LockItem, LockSyncJobs,
                CommitReview, RefuseReview, observed
  <1>2. ASSUME NEW p \in Promoters, PromotionStep(p) PROVE UNCHANGED merged
    BY <1>2 DEF PromotionStep, OpenPromotion, FindActive, LockActive, PassGate, CommitPromotion,
                RefusePromotion, observed
  <1>3. ASSUME NEW v \in Versions, ImportCandidate(v) \/ ImportAndActivate(v) PROVE UNCHANGED merged
    BY <1>3 DEF ImportCandidate, ImportAndActivate, observed
  <1>4. CASE UNCHANGED vars \/ RestartApi
    BY <1>4 DEF vars, RestartApi
  <1>5. ASSUME NEW s \in Syncers, SyncStep(s) PROVE run[s].pc \in Touching /\ Job(s) = j
    <2>1. CASE ClearVersion(s)
      BY <2>1 DEF ClearVersion, Touching
    <2>2. CASE Prune(s)
      BY <2>2 DEF Prune, Upserting, Touching
    <2>3. CASE ~(ClearVersion(s) \/ Prune(s))
      BY <1>5, <2>3
         DEF SyncStep, QueueSync, BeginCliSync, StartSync, FailPreflight, ReadActive, LockVersion,
             LockSyncJob, Upsert, DropPrevious, CommitSync, StoreFails, LoseRun, RefuseSync, observed
    <2> QED BY <2>1, <2>2, <2>3
  <1> QED BY <1>1, <1>2, <1>3, <1>4, <1>5 DEF Next

\* A run moves by its own steps, unless the API restarts.
LEMMA QuietRun ==
    ASSUME Typed, [Next]_vars, NEW s \in Syncers, ~SyncStep(s), run'[s].pc # "idle"
    PROVE  run'[s] = run[s]
  <1>1. ASSUME NEW r \in Reviewers, ReviewStep(r) PROVE UNCHANGED run
    BY <1>1, ReviewKeepsVersions
  <1>2. ASSUME NEW p \in Promoters, PromotionStep(p) PROVE UNCHANGED run
    BY <1>2 DEF PromotionStep, OpenPromotion, FindActive, LockActive, PassGate, CommitPromotion,
                RefusePromotion
  <1>3. ASSUME NEW v \in Versions, ImportCandidate(v) \/ ImportAndActivate(v) PROVE UNCHANGED run
    BY <1>3 DEF ImportCandidate, ImportAndActivate
  <1>4. CASE RestartApi
    <2>1. run' = [q \in Syncers |-> IF q \in InApi THEN NoRun ELSE run[q]]
      BY <1>4 DEF RestartApi
    <2> QED BY <2>1 DEF NoRun
  <1>5. CASE UNCHANGED vars
    BY <1>5 DEF vars
  <1> QED BY <1>1, <1>2, <1>3, <1>4, <1>5, OtherRuns DEF Next

\* Every step keeps what the runs have written.
LEMMA StepRunFresh ==
    ASSUME Typed, Chain, Held, Fresh, [Next]_vars, NEW s \in Syncers, NEW v \in Versions,
           run'[s].pc \in Touching, run'[s].version = v, version'[v] = "active", v \notin blind'
    PROVE  Written(s, v, TargetOf[s])'
  <1>1. v \notin blind
    BY BlindGrows
  <1>2. CASE SyncStep(s)
    BY <1>1, <1>2, RunFreshStep, SyncKeepsVersions
  <1>3. CASE ~SyncStep(s)
    <2>1. run'[s] = run[s]
      BY <1>3, QuietRun DEF Touching
    <2>2. version[v] = "active"
      BY <2>1, ActiveAgain DEF Held, RunHolds, Touching
    <2>3. Written(s, v, TargetOf[s]) /\ TargetOf[s] \in Targets /\ InProgress(v, TargetOf[s])
      BY <1>1, <2>1, <2>2, TargetAssumption DEF Fresh, RunFresh, InProgress, Job
    <2>4. Planned(v, TargetOf[s])' = Planned(v, TargetOf[s])
      <3>1. Effective(v)' = Effective(v)
        BY <2>2, <2>3, EffectiveKept
      <3> QED BY <3>1 DEF Planned
    <2>5. ASSUME NEW q \in Syncers, SyncStep(q), run[q].pc \in Touching, Job(q) = <<v, TargetOf[s]>>
          PROVE  FALSE
      BY <1>3, <2>1, <2>5, OneRun DEF Job
    <2>6. \A i \in ItemsOf(v) : store'[TargetOf[s]][i] = store[TargetOf[s]][i]
      BY <2>2, <2>3, <2>5, StoreKept
    <2>7. <<v, TargetOf[s]>> \in merged' <=> <<v, TargetOf[s]>> \in merged
      <3>1. PICK j : j = <<v, TargetOf[s]>>
        OBVIOUS
      <3> QED BY <2>5, <3>1, MergedFacts
    <2> QED BY <2>1, <2>3, <2>4, <2>6, <2>7 DEF Written, ItemsOf, Alone
  <1> QED BY <1>2, <1>3

\* A SUCCEEDED job after a step: its run has just committed, or it was SUCCEEDED before and
\* nothing it depends on has changed.
LEMMA StepProjectionFresh ==
    ASSUME Typed, Chain, Held, Fresh, [Next]_vars, NEW v \in Versions, NEW t \in Targets,
           version'[v] = "active", sync'[v][t] = "succeeded", v \notin blind',
           <<v, t>> \notin torn', ~InProgress(v, t)'
    PROVE  Matches(v, t)'
  <1>1. version[v] = "active" /\ v \notin blind
    BY ActiveAgain, BlindGrows
  <1>2. ASSUME NEW s \in Syncers, CommitSync(s), Job(s) = <<v, t>> PROVE Matches(v, t)'
    <2>1. /\ run[s].pc = "dropped" /\ run[s].version = v /\ TargetOf[s] = t
          /\ UNCHANGED <<store, item, payload, merged>>
      BY <1>2 DEF CommitSync, Job, reviewed
    <2>2. Written(s, v, t)
      BY <1>1, <2>1 DEF Fresh, RunFresh, Touching
    <2>3. Matches(v, t)
      <3>1. merged \subseteq Versions \X Graph
        BY DEF Typed, TypeOK
      <3>2. \A n : New(n) = [payload |-> n, left |-> {}]
        BY DEF New
      <3> QED BY <2>1, <2>2, <3>1, <3>2 DEF Written, Matches, Shows, Mixed, Alone
    <2> QED BY <2>1, <2>3 DEF Matches, Shows, Planned, Effective, ItemsOf
  <1>3. ASSUME \A s \in Syncers : ~(CommitSync(s) /\ Job(s) = <<v, t>>) PROVE Matches(v, t)'
    <2>1. sync[v][t] = "succeeded"
      BY <1>3, EntryFacts
    <2>2. <<v, t>> \notin torn
      BY <1>3, TornFacts
    <2>3. ~InProgress(v, t)
      <3> SUFFICES ASSUME NEW s \in Syncers, run[s].pc \in Touching, Job(s) = <<v, t>> PROVE FALSE
        BY DEF InProgress
      <3>1. run[s].version = v /\ TargetOf[s] = t
        BY DEF Job
      <3>2. ~(run'[s].pc \in Touching /\ run'[s].version = v)
        BY <3>1 DEF InProgress, Job
      <3> QED BY <1>3, <3>1, <3>2, ProgressFacts
    <2>4. Matches(v, t)
      BY <1>1, <2>1, <2>2, <2>3 DEF Fresh, ProjectionFresh, Matches, Actives
    <2>5. Planned(v, t)' = Planned(v, t)
      <3>1. Effective(v)' = Effective(v)
        BY <1>1, <2>1, EffectiveKept
      <3> QED BY <3>1 DEF Planned
    <2>6. \A i \in ItemsOf(v) : store'[t][i] = store[t][i]
      BY <1>1, <2>3, StoreKept DEF InProgress
    <2>7. <<v, t>> \in merged' <=> <<v, t>> \in merged
      <3>1. PICK j : j = <<v, t>>
        OBVIOUS
      <3> QED BY <2>3, <3>1, MergedFacts DEF InProgress
    <2> QED BY <2>4, <2>5, <2>6, <2>7 DEF Matches, Shows, ItemsOf
  <1> QED BY <1>2, <1>3

\* Every step keeps the projections fresh.
LEMMA StepFresh == Typed /\ Chain /\ Held /\ Fresh /\ [Next]_vars => Fresh'
  <1> SUFFICES ASSUME Typed, Chain, Held, Fresh, [Next]_vars PROVE Fresh'
    OBVIOUS
  <1>1. ProjectionFresh'
    BY StepProjectionFresh DEF ProjectionFresh, Matches, Actives
  <1>2. ASSUME NEW s \in Syncers, NEW v \in Versions PROVE RunFresh(s, v)'
    BY StepRunFresh DEF RunFresh
  <1> QED BY <1>1, <1>2 DEF Fresh

\* Freshness: while the SyncJob of the ACTIVE version says SUCCEEDED its store has what the
\* reviewed items say, because a review that publishes locks and resets the SyncJobs
\* (_invalidate_structural_projection_jobs) and a run locks its own before it reads them.
\* A graph upserted without replace_version has what they say and may keep what older
\* payloads gave (upsert_nodes: SET n += row.properties) and the nodes of withdrawn items;
\* every other projection has exactly the plan.
THEOREM Freshness == Spec => []ProjectionFresh
  <1>1. Fresh => ProjectionFresh
    BY DEF Fresh
  <1> QED BY <1>1, InitTyped, StepTyped, InitChain, StepChain, InitHeld, StepHeld, InitFresh, StepFresh,
             PTL DEF Spec

\* Soundness: both promises of a projection hold together, upserts with and without
\* replace_version and the imports that activate their version included.
THEOREM Soundness == Spec => []ProjectionSound
  <1>1. ProjectionFresh /\ PredecessorGone => ProjectionSound
    BY DEF ProjectionSound
  <1> QED BY <1>1, Freshness, Replacement, PTL

-----------------------------------------------------------------------------
(* Serial reviews.                                                         *)

\* The locked read of an item is its first: what a review has seen is what the item says
\* until it commits, because it holds the row.
ReviewSerial(r) ==
    review[r].pc # "idle" =>
        /\ review[r].pc # "locking"
        /\ \A i \in review[r].items :
              /\ ItemRow(i) \in holds[r] /\ review[r].seen[i] = item[i]
              /\ version[VersionOf[i]] # "none"

Serial == \A r \in Reviewers : ReviewSerial(r)

\* The route of a single review, which loads the item before it locks it.
ReviewOverHttp == \E r \in Reviewers, i \in Items, new \in Statuses : BeginApiReview(r, i, new)

\* No review has begun.
LEMMA InitSerial == Init => Serial
  BY DEF Init, Serial, ReviewSerial, NoReview

\* A version that was imported stays so.
LEMMA ImportedStays ==
    ASSUME Typed, [Next]_vars, NEW v \in Versions, version[v] # "none"
    PROVE  version'[v] # "none"
  <1> USE DEF Typed, TypeOK
  <1>1. CASE UNCHANGED vars
    BY <1>1 DEF vars
  <1>2. ASSUME NEW u \in Versions, ImportCandidate(u) \/ ImportAndActivate(u)
        PROVE  version'[v] # "none"
    <2>1. CASE ImportCandidate(u)
      BY <2>1 DEF ImportCandidate
    <2>2. CASE ImportAndActivate(u)
      BY <2>2 DEF ImportAndActivate
    <2> QED BY <1>2, <2>1, <2>2
  <1>3. ASSUME NEW r \in Reviewers, ReviewStep(r) PROVE version'[v] # "none"
    BY <1>3, ReviewKeepsVersions
  <1>4. ASSUME NEW s \in Syncers, SyncStep(s) PROVE version'[v] # "none"
    BY <1>4, SyncKeepsVersions
  <1>5. ASSUME NEW p \in Promoters, PromotionStep(p) PROVE version'[v] # "none"
    <2>1. CASE CommitPromotion(p)
      BY <2>1 DEF CommitPromotion, Replaced
    <2>2. CASE ~CommitPromotion(p)
      BY <1>5, <2>2 DEF PromotionStep, OpenPromotion, FindActive, LockActive, PassGate,
                        RefusePromotion, known
    <2> QED BY <2>1, <2>2
  <1>6. CASE RestartApi
    BY <1>6 DEF RestartApi, known
  <1> QED BY <1>1, <1>2, <1>3, <1>4, <1>5, <1>6 DEF Next

\* An import changes the items of a version that was not there.
LEMMA ImportNew ==
    ASSUME NEW v \in Versions, ImportCandidate(v) \/ ImportAndActivate(v),
           NEW i \in Items, version[VersionOf[i]] # "none"
    PROVE  item'[i] = item[i]
  BY DEF ImportCandidate, ImportAndActivate, ImportItems, ItemsOf

\* What another session does keeps what a review has seen, as long as it leaves the items
\* alone that the review holds.
LEMMA SerialFrame ==
    ASSUME Typed, [Next]_vars, NEW r \in Reviewers, ReviewSerial(r), review'[r] = review[r],
           holds[r] \subseteq holds'[r],
           \A i \in review[r].items :
               review[r].pc # "idle" /\ ItemRow(i) \in holds[r] /\ version[VersionOf[i]] # "none"
                   => item'[i] = item[i]
    PROVE  ReviewSerial(r)'
  <1> SUFFICES ASSUME review[r].pc # "idle" PROVE ReviewSerial(r)'
    BY DEF ReviewSerial
  <1>1. review[r].items \subseteq Items
    BY DEF Typed, TypeOK
  <1>2. ASSUME NEW i \in review[r].items
        PROVE  /\ ItemRow(i) \in holds'[r] /\ review'[r].seen[i] = item'[i]
               /\ version'[VersionOf[i]] # "none"
    BY <1>1, <1>2, ImportedStays, ItemAssumption DEF ReviewSerial
  <1> QED BY <1>2 DEF ReviewSerial, ItemRow

\* A review that begins with a lock has seen what it locked.
LEMMA BeginSerial ==
    ASSUME Typed, NEW r \in Reviewers, NEW v \in Versions, NEW is \in SUBSET ItemsOf(v),
           NEW new \in Statuses, NEW pc \in {"invalidating", "committing"},
           Begin(r, v, is, new, pc), \A i \in is : ItemRow(i) \in holds'[r],
           UNCHANGED <<version, item>>, version[v] # "none"
    PROVE  ReviewSerial(r)'
  <1> DEFINE w == [pc |-> pc, version |-> v, items |-> is, new |-> new, seen |-> Seen(is),
                   active |-> version[v] = "active"]
  <1>1. review' = [review EXCEPT ![r] = w]
    BY Zenon DEF Begin
  <1>2. w.items = is /\ w.pc = pc /\ w.seen = Seen(is)
    OBVIOUS
  <1> HIDE DEF w
  <1>3. review'[r] = w
    BY <1>1 DEF Typed, TypeOK
  <1>4. \A i \in is : Seen(is)[i] = item[i] /\ VersionOf[i] = v
    BY DEF Seen, ItemsOf
  <1> QED BY <1>2, <1>3, <1>4 DEF ReviewSerial, ItemRow

\* A review changes only items whose rows it holds.
LEMMA ReviewedByHolder ==
    ASSUME Typed, Serial, NEW r \in Reviewers, ReviewStep(r), NEW i \in Items, item'[i] # item[i]
    PROVE  /\ CommitReview(r) /\ i \in review[r].items /\ ItemRow(i) \in holds[r]
           /\ item'[i].revision = item[i].revision + 1
  <1>1. CommitReview(r)
    BY DEF ReviewStep, BeginApiReview, BeginCliReview, BeginPackage, LockItem, LockSyncJobs,
           RefuseReview, reviewed
  <1>2. i \in review[r].items /\ review[r].pc = "committing"
    BY <1>1 DEF CommitReview
  <1>3. item'[i].revision = review[r].seen[i].revision + 1
    BY <1>1, <1>2 DEF CommitReview
  <1> QED BY <1>1, <1>2, <1>3 DEF Serial, ReviewSerial

\* A step of one review keeps what all have seen.
LEMMA ReviewStepSerial ==
    ASSUME Typed, Held, Serial, [Next]_vars, NEW r \in Reviewers, ReviewStep(r), ~ReviewOverHttp
    PROVE  Serial'
  <1> USE SessionFacts
  <1>0. Exclusive /\ ReviewSerial(r) /\ \A q \in Reviewers : ReviewSerial(q)
    BY DEF Held, Serial
  <1>a. UNCHANGED version
    BY ReviewKeepsVersions
  <1>1. ASSUME \A q \in Reviewers \ {r} : review'[q] = review[q],
               \A q \in Sessions \ {r} : holds[q] \subseteq holds'[q],
               ReviewSerial(r)'
        PROVE  Serial'
    <2>1. ASSUME NEW q \in Reviewers \ {r} PROVE ReviewSerial(q)'
      <3>1. review'[q] = review[q] /\ holds[q] \subseteq holds'[q] /\ holds[q] \cap holds[r] = {}
        BY <1>0, <1>1 DEF Exclusive
      <3>2. ASSUME NEW i \in review[q].items, ItemRow(i) \in holds[q] PROVE item'[i] = item[i]
        <4>1. i \in Items
          BY DEF Typed, TypeOK
        <4> QED BY <3>1, <3>2, <4>1, ReviewedByHolder
      <3> QED BY <1>0, <3>1, <3>2, SerialFrame
    <2> QED BY <1>1, <2>1 DEF Serial
  <1>2. ASSUME NEW i \in Items, NEW new \in Statuses, BeginCliReview(r, i, new) PROVE Serial'
    <2> DEFINE v == VersionOf[i]
               pc == AfterLock(r, version[v] = "active", new, {i})
    <2>1. v \in Versions /\ {i} \in SUBSET ItemsOf(v) /\ version[v] # "none"
      BY <1>2, ItemAssumption DEF ItemsOf, BeginCliReview
    <2>2. Begin(r, v, {i}, new, pc) /\ Lock(r, {ItemRow(i)}) /\ UNCHANGED <<version, item>>
      BY <1>2 DEF BeginCliReview, known, reviewed
    <2>3. pc \in {"invalidating", "committing"}
      BY DEF AfterLock
    <2> HIDE DEF v, pc
    <2>4. ItemRow(i) \in holds'[r] /\ \A q \in Sessions : holds[q] \subseteq holds'[q]
      BY <1>0, <2>2, LockHeld
    <2>5. ReviewSerial(r)'
      BY <2>1, <2>2, <2>3, <2>4, BeginSerial
    <2>6. \A q \in Reviewers \ {r} : review'[q] = review[q]
      BY <2>1, <2>2, BeginHeld
    <2> QED BY <1>1, <2>4, <2>5, <2>6
  <1>3. ASSUME NEW v \in Versions, NEW is \in SUBSET ItemsOf(v), BeginPackage(r, v, is) PROVE Serial'
    <2>1. /\ Begin(r, v, is, "approved", "invalidating") /\ "approved" \in Statuses
          /\ version[v] # "none" /\ UNCHANGED <<version, item>>
      BY <1>3 DEF BeginPackage, Statuses, known, reviewed
    <2> DEFINE rows == {VersionRow(v)} \cup {ItemRow(i) : i \in ItemsOf(v)}
    <2>2. Lock(r, rows) /\ \A i \in is : ItemRow(i) \in rows
      BY <1>3 DEF BeginPackage
    <2> HIDE DEF rows
    <2>3. (\A i \in is : ItemRow(i) \in holds'[r]) /\ \A q \in Sessions : holds[q] \subseteq holds'[q]
      BY <1>0, <2>2, LockHeld
    <2>4. ReviewSerial(r)'
      BY <2>1, <2>3, BeginSerial
    <2>5. \A q \in Reviewers \ {r} : review'[q] = review[q]
      BY <2>1, BeginHeld
    <2> QED BY <1>1, <2>3, <2>4, <2>5
  <1>4. CASE LockItem(r)
    BY <1>0, <1>4 DEF LockItem, ReviewSerial
  <1>5. CASE LockSyncJobs(r)
    <2>1. /\ review' = [review EXCEPT ![r].pc = "committing"] /\ review[r].pc = "invalidating"
          /\ Lock(r, SyncRows(review[r].version)) /\ UNCHANGED item
      BY <1>5 DEF LockSyncJobs, reviewed
    <2>2. /\ review'[r].items = review[r].items /\ review'[r].seen = review[r].seen
          /\ review'[r].pc = "committing"
          /\ \A q \in Reviewers \ {r} : review'[q] = review[q]
      BY <2>1 DEF Typed, TypeOK
    <2>3. \A q \in Sessions : holds[q] \subseteq holds'[q]
      BY <1>0, <2>1, LockHeld
    <2>4. ReviewSerial(r)'
      BY <1>0, <1>a, <2>1, <2>2, <2>3 DEF ReviewSerial, ItemRow
    <2> QED BY <1>1, <2>2, <2>3, <2>4
  <1>6. CASE CommitReview(r) \/ RefuseReview(r)
    <2>1. review' = [review EXCEPT ![r] = NoReview] /\ Release(r)
      BY <1>6 DEF CommitReview, RefuseReview
    <2>2. review'[r].pc = "idle" /\ \A q \in Reviewers \ {r} : review'[q] = review[q]
      BY <2>1 DEF Typed, TypeOK, NoReview
    <2>3. ReviewSerial(r)'
      BY <2>2 DEF ReviewSerial
    <2> QED BY <1>0, <1>1, <2>1, <2>2, <2>3, ReleaseHeld
  <1> QED BY <1>2, <1>3, <1>4, <1>5, <1>6 DEF ReviewStep, ReviewOverHttp

\* Every step keeps what the reviews have seen.
LEMMA StepSerial ==
    Typed /\ Chain /\ Held /\ Serial /\ [Next]_vars /\ [~ReviewOverHttp]_vars => Serial'
  <1> SUFFICES ASSUME Typed, Chain, Held, Serial, [Next]_vars, [~ReviewOverHttp]_vars PROVE Serial'
    OBVIOUS
  <1> USE SessionFacts
  <1>0. Exclusive /\ \A q \in Reviewers : ReviewSerial(q)
    BY DEF Held, Serial
  <1>1. CASE UNCHANGED vars
    BY <1>1 DEF vars, Serial, ReviewSerial, ItemRow
  <1>2. ASSUME NEW v \in Versions, ImportCandidate(v) \/ ImportAndActivate(v) PROVE Serial'
    <2>1. UNCHANGED <<review, holds>>
      BY <1>2 DEF ImportCandidate, ImportAndActivate
    <2>2. ASSUME NEW r \in Reviewers PROVE ReviewSerial(r)'
      <3>1. ASSUME NEW i \in review[r].items, version[VersionOf[i]] # "none" PROVE item'[i] = item[i]
        BY <1>2, <3>1, ImportNew DEF Typed, TypeOK
      <3> QED BY <1>0, <2>1, <3>1, SerialFrame
    <2> QED BY <2>2 DEF Serial
  <1>3. ASSUME NEW r \in Reviewers, ReviewStep(r), ~UNCHANGED vars PROVE Serial'
    BY <1>3, ReviewStepSerial
  <1>4. ASSUME NEW p \in Promoters, PromotionStep(p) PROVE Serial'
    <2>1. UNCHANGED <<review, item>>
      BY <1>4 DEF PromotionStep, OpenPromotion, FindActive, LockActive, PassGate, CommitPromotion,
                  RefusePromotion, reviewed
    <2>2. \A r \in Reviewers : holds[r] \subseteq holds'[r]
      BY <1>0, <1>4, LockHeld, ReleaseHeld
         DEF PromotionStep, OpenPromotion, FindActive, LockActive, PassGate, CommitPromotion,
             RefusePromotion
    <2> QED BY <1>0, <2>1, <2>2, SerialFrame DEF Serial
  <1>5. ASSUME NEW s \in Syncers, SyncStep(s) PROVE Serial'
    <2>1. UNCHANGED <<review, item>>
      BY <1>5, SyncKeepsVersions
    <2>2. UNCHANGED holds \/ Release(s) \/ \E rows : Lock(s, rows)
      BY <1>5 DEF SyncStep, QueueSync, BeginCliSync, StartSync, FailPreflight, ReadActive, LockVersion,
                  LockSyncJob, ClearVersion, Upsert, Prune, DropPrevious, CommitSync, StoreFails,
                  LoseRun, RefuseSync, EndRun
    <2>3. \A r \in Reviewers : holds[r] \subseteq holds'[r]
      BY <1>0, <2>2, LockHeld, ReleaseHeld
    <2> QED BY <1>0, <2>1, <2>3, SerialFrame DEF Serial
  <1>6. CASE RestartApi
    <2>1. ASSUME NEW r \in Reviewers PROVE ReviewSerial(r)'
      <3>1. CASE r \in InApi
        <4>1. review'[r].pc = "idle"
          BY <3>1, <1>6 DEF RestartApi, NoReview
        <4> QED BY <4>1 DEF ReviewSerial
      <3>2. CASE r \notin InApi
        <4>1. review'[r] = review[r] /\ holds'[r] = holds[r] /\ UNCHANGED item
          BY <3>2, <1>6 DEF RestartApi, reviewed
        <4> QED BY <1>0, <4>1, SerialFrame
      <3> QED BY <3>1, <3>2
    <2> QED BY <2>1 DEF Serial
  <1> QED BY <1>1, <1>2, <1>3, <1>4, <1>5, <1>6 DEF Next

\* A review that is recorded moves the revision that the item has.
LEMMA RecordedOnTop ==
    ASSUME Typed, Serial, [Next]_vars, NEW i \in Items, version[VersionOf[i]] # "none",
           item'[i] # item[i]
    PROVE  item'[i].revision = item[i].revision + 1
  <1>1. CASE UNCHANGED vars
    BY <1>1 DEF vars
  <1>2. ASSUME NEW v \in Versions, ImportCandidate(v) \/ ImportAndActivate(v) PROVE FALSE
    BY <1>2, ImportNew
  <1>3. ASSUME NEW r \in Reviewers, ReviewStep(r) PROVE item'[i].revision = item[i].revision + 1
    BY <1>3, ReviewedByHolder
  <1>4. ASSUME NEW p \in Promoters, PromotionStep(p) PROVE FALSE
    BY <1>4 DEF PromotionStep, OpenPromotion, FindActive, LockActive, PassGate, CommitPromotion,
                RefusePromotion, reviewed
  <1>5. ASSUME NEW s \in Syncers, SyncStep(s) PROVE FALSE
    BY <1>5, SyncKeepsVersions
  <1>6. CASE RestartApi
    BY <1>6 DEF RestartApi, reviewed
  <1> QED BY <1>1, <1>2, <1>3, <1>4, <1>5, <1>6 DEF Next

\* As long as nobody reviews a single item over HTTP, no review overwrites another: scripts
\* and packages lock the rows with their first read (KnowledgeReviewService._locked,
\* approve_pending) and hold them until they commit.
THEOREM SerialReviews == Spec /\ [][~ReviewOverHttp]_vars => ReviewsAreSerial
  <1>1. Typed /\ Serial /\ [Next]_vars =>
            [\A i \in Items : version[VersionOf[i]] # "none" /\ item'[i] # item[i]
                => item'[i].revision = item[i].revision + 1]_vars
    BY RecordedOnTop
  <1> QED BY <1>1, InitTyped, StepTyped, InitChain, StepChain, InitHeld, StepHeld, InitSerial, StepSerial,
             PTL DEF Spec, ReviewsAreSerial

=============================================================================
