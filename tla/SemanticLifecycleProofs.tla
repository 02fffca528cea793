------------------------ MODULE SemanticLifecycleProofs ------------------------
(***************************************************************************)
(* What SemanticLifecycle promises whatever the knowledge says, whatever   *)
(* the language model answers and however many proposals, reviews, syncs,  *)
(* promotions and restarts there are.  The inductive invariant has seven   *)
(* parts:                                                                  *)
(*   Typed      the types of the rows, of the job and of the requests      *)
(*   Ordered    the order of the last updates has each proposal once       *)
(*   Rows       what a row says of its own history                         *)
(*   Inherited  a proposal carried forward says what its source says       *)
(*   Reviewing  a request decides what was pending when it read it         *)
(*   Thinking   a job that goes on is not blocked, its answer was parsed   *)
(*   Stored     what a sync has written when it starts to clean            *)
(* Inherited needs Rows and Reviewing: only a second request can change    *)
(* the words of a source, and then it is on record in overlapped.          *)
(***************************************************************************)
EXTENDS SemanticLifecycle, TLAPS, WellFoundedInduction, FiniteSetTheorems, SequenceTheorems

-----------------------------------------------------------------------------
(* Rows.  What the drafts, the packages and the corrections hold is        *)
(* whatever the knowledge and the model make of them.                      *)

Origins == {"generate", "reinference_required", "carry_forward"}
Statuses == Publishable \cup {"pending_review", "rejected"}
Verdicts == {"approved", "corrected", "rejected"}
Words(B) == [summary : B, claims : B]
ProposalRow(B) ==
    [version : Nat, evidence : B, model : Models, correction : Words(B), origin : Origins,
     source : Nat, revision : Nat, decided : BOOLEAN, status : Statuses, payload : Words(B)]
InferenceJob(B) ==
    [kind : {"inference"}, phase : {"queued", "calling", "answered"}, version : Nat,
     evidence : B, plan : B, answer : Words(B)]
SyncJob(B) ==
    [kind : {"sync"}, phase : {"queued", "embedding", "writing", "cleaning"}, version : Nat,
     documents : B]
ReviewRow == [proposal : Nat, action : Verdicts, revision : Nat]

\* The job of the worker.
JobTyped == \E B : job \in {NoJob} \cup InferenceJob(B) \cup SyncJob(B)

\* The rows and their columns.
Typed ==
    /\ \E B : knowledge \in Seq(B)
    /\ \E B : proposal \in Seq(ProposalRow(B))
    /\ JobTyped
    /\ model \in Models
    /\ review \in [Reviewers -> {NoReview} \cup ReviewRow]
    /\ changes \in Nat
    /\ Active \in 1 .. MaxVersions

\* The proposals, each once, in the order of their last update.
Ordered ==
    /\ touched \in Seq(Proposals) /\ ToSet(touched) = Proposals
    /\ Len(touched) = Len(proposal) /\ IsInjective(touched)

\* Every statement has a reference.
Cited(words) == \A s \in DOMAIN words.claims : words.claims[s] # {}

Carried(q) == proposal[q].origin = "carry_forward"

\* What a row says of its own history.
Rows ==
    \A q \in Proposals :
        /\ proposal[q].version \in 1 .. Active /\ proposal[q].source < q
        /\ proposal[q].revision \in 0 .. 1
        /\ proposal[q].status = "pending_review" => proposal[q].revision = 0
        /\ proposal[q].status \in Publishable /\ ~Carried(q) => proposal[q].decided
        /\ proposal[q].decided => proposal[q].revision = 1
        /\ Cited(proposal[q].payload) /\ Cited(proposal[q].correction)

\* A proposal that was carried forward says what its source says, unless two requests
\* review the source at once, and about evidence that did not change.
Inherited ==
    \A q \in Proposals : Carried(q) =>
        LET s == proposal[q].source
        IN /\ s \in Proposals /\ proposal[q].status \in Publishable
           /\ proposal[q].correction = NoWords
           /\ Carried(s) \/ proposal[s].decided
           /\ Compatible(proposal[s].evidence, proposal[q].evidence)
           /\ s \in overlapped \/ PayloadOf(proposal[q]) = PayloadOf(proposal[s])

\* A request reviews a proposal that was pending when it read it.
Reviewing ==
    /\ \A r \in Reviewers : review[r] # NoReview =>
           /\ review[r].proposal \in Proposals /\ ~Carried(review[r].proposal)
           /\ review[r].revision = 0
    /\ \A q \in overlapped : q \in Proposals /\ ~Carried(q)

\* A job that goes on has a plan that is not blocked, an answer was parsed.
Thinking ==
    job.kind = "inference" =>
        /\ job.phase # "queued" => job.plan.decision \in Origins
        /\ job.phase = "answered" /\ job.plan.decision # "carry_forward" => Cited(job.answer)

\* The documents are of proposals; while a sync cleans, its documents are there and
\* nothing else is said of their proposals.
Stored ==
    /\ \A d \in store : d.proposal \in Proposals
    /\ job.kind = "sync" => \A d \in job.documents : d.proposal \in Proposals
    /\ InJob("sync", "cleaning") =>
           /\ job.documents \subseteq store
           /\ \A d \in store, e \in job.documents : e.proposal = d.proposal => d \in job.documents

Inv == Typed /\ Ordered /\ Rows /\ Inherited /\ Reviewing /\ Thinking /\ Stored

-----------------------------------------------------------------------------
(* Sequences. *)

\* A set of naturals that is not empty has a smallest element.
LEMMA Smallest ==
    ASSUME NEW S \in SUBSET Nat, S # {}
    PROVE  \E j \in S : \A k \in S : j <= k
  <1> DEFINE R == OpToRel(<, Nat)
  <1>1. IsWellFoundedOn(R, Nat)
    BY NatLessThanWellFounded
  <1>2. PICK j \in S : \A y \in S : ~(<<y, j>> \in R)
    <2> HIDE DEF R
    <2> QED BY <1>1, WFMin
  <1>3. \A y \in S : ~(y < j)
    BY <1>2 DEF OpToRel
  <1> QED BY <1>3

\* A row more.
LEMMA Appended ==
    ASSUME NEW B, NEW s \in Seq(B), NEW e, NEW t, t = Append(s, e)
    PROVE  /\ t \in Seq(B \cup {e}) /\ Len(t) = Len(s) + 1
           /\ Len(s) + 1 \notin DOMAIN s /\ DOMAIN t = DOMAIN s \cup {Len(s) + 1}
           /\ t[Len(s) + 1] = e /\ \A n \in DOMAIN s : t[n] = s[n]
  <1> DEFINE C == B \cup {e}
  <1>1. s \in Seq(C) /\ e \in C
    BY SeqMonotonic
  <1> HIDE DEF C
  <1>2. t \in Seq(C) /\ Len(t) = Len(s) + 1 /\ t[Len(s) + 1] = e
        /\ \A n \in 1 .. Len(s) : t[n] = s[n]
    BY <1>1, AppendProperties
  <1>3. /\ DOMAIN s = 1 .. Len(s) /\ Len(s) \in Nat
        /\ DOMAIN t = 1 .. Len(t)
    BY <1>1, <1>2, LenProperties
  <1> QED BY <1>2, <1>3 DEF C

\* A row changed.
LEMMA Replaced ==
    ASSUME NEW B, NEW s \in Seq(B), NEW n \in DOMAIN s, NEW e, NEW t, t = [s EXCEPT ![n] = e]
    PROVE  /\ t \in Seq(B \cup {e}) /\ Len(t) = Len(s) /\ DOMAIN t = DOMAIN s
           /\ t[n] = e /\ \A m \in DOMAIN s \ {n} : t[m] = s[m]
  <1> DEFINE C == B \cup {e}
  <1>1. s \in Seq(C) /\ e \in C
    BY SeqMonotonic
  <1> HIDE DEF C
  <1>2. DOMAIN s = 1 .. Len(s) /\ Len(s) \in Nat
    BY LenProperties
  <1>3. /\ t \in Seq(C) /\ Len(t) = Len(s)
        /\ \A j \in 1 .. Len(s) : t[j] = IF j = n THEN e ELSE s[j]
    BY <1>1, <1>2, ExceptSeq
  <1> QED BY <1>1, <1>2, <1>3, LenProperties DEF C

\* The first element that is of a kind is one of that kind.
LEMMA FirstOf ==
    ASSUME NEW n \in Nat, NEW I \in SUBSET (1 .. n), I # {}
    PROVE  Min(I) \in I
  <1>1. \E x \in I : \A y \in I : x =< y
    BY Smallest
  <1> QED BY <1>1 DEF Min

\* Moving an element of a sequence to the front: what is there stays there, once.
LEMMA MovedToFront ==
    ASSUME NEW D, NEW s \in Seq(D), IsInjective(s), NEW q \in ToSet(s),
           NEW t, t = <<q>> \o RemoveFirst(s, q)
    PROVE  t \in Seq(D) /\ ToSet(t) = ToSet(s) /\ Len(t) = Len(s) /\ IsInjective(t)
  <1>1. Len(s) \in Nat /\ DOMAIN s = 1 .. Len(s) /\ \A n \in 1 .. Len(s) : s[n] \in D
    BY LenProperties, ElementOfSeq
  <1>0. Len(s) \in Nat
    BY <1>1
  <1> DEFINE I == {i \in 1 .. Len(s) : s[i] = q}
  <1>2. \E i \in 1 .. Len(s) : s[i] = q
    BY <1>1 DEF ToSet
  <1>3. Min(I) \in I
    BY <1>1, <1>2, FirstOf
  <1>4. PICK m \in 1 .. Len(s) : m = Min(I) /\ s[m] = q
    BY <1>3
  <1>5. SelectInSeq(s, LAMBDA v : v = q) = m
    BY <1>2, <1>4 DEF SelectInSeq
  <1> DEFINE a == SubSeq(s, 1, m - 1)
             b == SubSeq(s, m + 1, Len(s))
  <1>6. t = <<q>> \o (a \o b)
    BY <1>2, <1>5 DEF RemoveFirst, RemoveAt
  <1>7. a \in Seq(D) /\ Len(a) = m - 1 /\ \A i \in 1 .. m - 1 : a[i] = s[i]
    BY <1>1, SubSeqProperties
  <1>8. /\ b \in Seq(D) /\ Len(b) = Len(s) - m
        /\ \A i \in 1 .. Len(s) - m : b[i] = s[m + i]
    <2>1. /\ b \in Seq(D) /\ Len(b) = IF m + 1 <= Len(s) THEN Len(s) - (m + 1) + 1 ELSE 0
          /\ \A i \in 1 .. Len(s) - (m + 1) + 1 : b[i] = s[(m + 1) + i - 1]
      BY <1>1, SubSeqProperties
    <2> HIDE DEF b
    <2>2. m \in Nat /\ m <= Len(s) /\ Len(s) - (m + 1) + 1 = Len(s) - m
      BY <1>1
    <2>3. \A i \in 1 .. Len(s) - m : (m + 1) + i - 1 = m + i
      BY <2>2
    <2>4. Len(b) = Len(s) - m
      <3>1. Len(b) = IF m + 1 <= Len(s) THEN Len(s) - (m + 1) + 1 ELSE 0
        BY <2>1
      <3>2. m \in Nat /\ m <= Len(s)
        BY <2>2
      <3>3. PICK l \in Nat : l = Len(s)
        BY <1>0
      <3>4. (IF m + 1 <= l THEN l - (m + 1) + 1 ELSE 0) = l - m
        BY <3>2, <3>3
      <3> QED BY <3>1, <3>3, <3>4
    <2>5. ASSUME NEW i \in 1 .. Len(s) - m PROVE b[i] = s[m + i]
      <3>1. b[i] = s[(m + 1) + i - 1]
        BY <2>1, <2>2
      <3> QED BY <2>3, <3>1
    <2> QED BY <2>1, <2>4, <2>5
  <1> HIDE DEF a, b, I
  <1>9. /\ a \o b \in Seq(D) /\ Len(a \o b) = Len(s) - 1
        /\ \A i \in 1 .. Len(s) - 1 : (a \o b)[i] = IF i < m THEN s[i] ELSE s[i + 1]
    <2>1. /\ a \o b \in Seq(D) /\ Len(a \o b) = Len(a) + Len(b)
          /\ \A i \in 1 .. Len(a) + Len(b) :
                (a \o b)[i] = IF i <= Len(a) THEN a[i] ELSE b[i - Len(a)]
      BY <1>7, <1>8, ConcatProperties
    <2>2. Len(a) + Len(b) = Len(s) - 1
      BY <1>1, <1>7, <1>8
    <2>3. ASSUME NEW i \in 1 .. Len(s) - 1
          PROVE  (a \o b)[i] = IF i < m THEN s[i] ELSE s[i + 1]
      <3>1. CASE i < m
        BY <1>1, <1>7, <2>1, <2>2, <3>1
      <3>2. CASE ~(i < m)
        <4>1. (a \o b)[i] = b[i - (m - 1)]
          BY <1>1, <1>7, <2>1, <2>2, <3>2
        <4>2. i - (m - 1) \in 1 .. Len(s) - m /\ m + (i - (m - 1)) = i + 1
          BY <1>1, <3>2
        <4> QED BY <1>8, <3>2, <4>1, <4>2
      <3> QED BY <3>1, <3>2
    <2> QED BY <2>1, <2>2, <2>3
  <1>10. <<q>> \in Seq(D) /\ Len(<<q>>) = 1 /\ <<q>>[1] = q
    BY <1>1, <1>4
  <1> DEFINE c == a \o b
  <1>11. c \in Seq(D) /\ t = <<q>> \o c /\ Len(c) = Len(s) - 1
         /\ \A i \in 1 .. Len(s) - 1 : c[i] = IF i < m THEN s[i] ELSE s[i + 1]
    BY <1>6, <1>9
  <1> HIDE DEF c
  <1>12. /\ t \in Seq(D) /\ Len(t) = Len(s) /\ t[1] = q
         /\ \A i \in 2 .. Len(s) : t[i] = c[i - 1]
    <2> DEFINE h == <<q>>
    <2>1. h \in Seq(D) /\ Len(h) = 1 /\ h[1] = q /\ t = h \o c /\ c \in Seq(D)
      BY <1>10, <1>11
    <2> HIDE DEF h
    <2> DEFINE u == h \o c
    <2>a. /\ u \in Seq(D) /\ Len(u) = Len(h) + Len(c)
          /\ \A i \in 1 .. Len(h) + Len(c) : u[i] = IF i <= Len(h) THEN h[i] ELSE c[i - Len(h)]
      BY <2>1, ConcatProperties
    <2>2. /\ t \in Seq(D) /\ Len(t) = Len(h) + Len(c)
          /\ \A i \in 1 .. Len(h) + Len(c) : t[i] = IF i <= Len(h) THEN h[i] ELSE c[i - Len(h)]
      <3> HIDE DEF u
      <3>1. t = u
        BY <2>1 DEF u
      <3> QED BY <2>a, <3>1
    <2>3. Len(h) + Len(c) = Len(s)
      BY <1>1, <1>11, <2>1
    <2>4. t[1] = q
      BY <1>1, <2>1, <2>2, <2>3
    <2>5. ASSUME NEW i \in 2 .. Len(s) PROVE t[i] = c[i - 1]
      BY <1>1, <2>1, <2>2, <2>3
    <2> QED BY <2>2, <2>3, <2>4, <2>5
  <1>13. DOMAIN t = 1 .. Len(s)
    BY <1>12, LenProperties
  <1>14. \A i \in 2 .. Len(s) : t[i] = IF i <= m THEN s[i - 1] ELSE s[i]
    <2> SUFFICES ASSUME NEW i \in 2 .. Len(s)
                 PROVE  t[i] = IF i <= m THEN s[i - 1] ELSE s[i]
      OBVIOUS
    <2>1. i - 1 \in 1 .. Len(s) - 1 /\ (i - 1 < m <=> i <= m) /\ (i - 1) + 1 = i
      BY <1>1
    <2>2. c[i - 1] = IF i - 1 < m THEN s[i - 1] ELSE s[(i - 1) + 1]
      BY <1>11, <2>1
    <2> QED BY <1>12, <2>1, <2>2
  <1>15. ToSet(t) = ToSet(s)
    <2>1. ASSUME NEW x \in ToSet(t) PROVE x \in ToSet(s)
      <3>1. PICK i \in 1 .. Len(s) : x = t[i]
        BY <1>13 DEF ToSet
      <3>2. CASE i = 1
        BY <3>1, <3>2, <1>12
      <3>3. CASE i # 1 /\ i <= m
        <4>1. i \in 2 .. Len(s) /\ i - 1 \in 1 .. Len(s)
          BY <1>1, <3>3
        <4>2. t[i] = s[i - 1]
          BY <4>1, <3>3, <1>14
        <4> QED BY <3>1, <4>1, <4>2, <1>1 DEF ToSet
      <3>4. CASE i # 1 /\ ~(i <= m)
        <4>1. i \in 2 .. Len(s)
          BY <1>1, <3>4
        <4>2. t[i] = s[i]
          BY <4>1, <3>4, <1>14
        <4> QED BY <3>1, <4>2, <1>1 DEF ToSet
      <3> QED BY <3>2, <3>3, <3>4
    <2>2. ASSUME NEW x \in ToSet(s) PROVE x \in ToSet(t)
      <3>1. PICK j \in 1 .. Len(s) : x = s[j]
        BY <1>1 DEF ToSet
      <3>2. CASE j = m
        <4>1. x = t[1]
          BY <1>4, <1>12, <3>1, <3>2
        <4>2. 1 \in DOMAIN t
          <5>1. 1 <= Len(s)
            BY <1>0, <1>4
          <5> QED BY <1>0, <1>13, <5>1
        <4> QED BY <4>1, <4>2 DEF ToSet
      <3>3. CASE j < m
        <4>1. j + 1 \in 2 .. Len(s) /\ j + 1 <= m /\ (j + 1) - 1 = j
          BY <1>1, <3>3
        <4>2. t[j + 1] = s[j]
          BY <4>1, <1>14
        <4>3. j + 1 \in DOMAIN t
          <5>1. j + 1 \in 1 .. Len(s)
            BY <1>1, <4>1
          <5> QED BY <5>1, <1>13
        <4> QED BY <3>1, <4>2, <4>3 DEF ToSet
      <3>4. CASE j > m
        <4>1. j \in 2 .. Len(s) /\ ~(j <= m)
          BY <1>1, <3>4
        <4>2. t[j] = s[j] /\ j \in DOMAIN t
          BY <4>1, <1>1, <1>13, <1>14
        <4> QED BY <3>1, <4>2 DEF ToSet
      <3> QED BY <1>1, <3>2, <3>3, <3>4
    <2> QED BY <2>1, <2>2
  <1>16. IsInjective(t)
    <2> SUFFICES ASSUME NEW i \in 1 .. Len(s), NEW j \in 1 .. Len(s), t[i] = t[j]
                 PROVE  i = j
      BY <1>13 DEF IsInjective
    <2>1. \A x, y \in 1 .. Len(s) : s[x] = s[y] => x = y
      BY <1>1 DEF IsInjective
    <2> DEFINE from(x) == IF x = 1 THEN m ELSE IF x <= m THEN x - 1 ELSE x
    <2>2. \A x \in 1 .. Len(s) : from(x) \in 1 .. Len(s)
      BY <1>1
    <2>3. \A x \in 1 .. Len(s) : t[x] = s[from(x)]
      BY <1>1, <1>4, <1>12, <1>14
    <2>4. s[from(i)] = s[from(j)] /\ from(i) \in 1 .. Len(s) /\ from(j) \in 1 .. Len(s)
      BY <2>2, <2>3
    <2>5. from(i) = from(j)
      <3> HIDE DEF from
      <3> QED BY <2>1, <2>4
    <2>6. i \in Nat /\ j \in Nat /\ m \in Nat /\ m >= 1 /\ i >= 1 /\ j >= 1
      BY <1>1
    <2> QED BY <2>5, <2>6
  <1> QED BY <1>12, <1>15, <1>16

-----------------------------------------------------------------------------
(* Rows. *)

\* The proposals are numbered from 1.
LEMMA RowFacts ==
    ASSUME Typed
    PROVE  /\ Len(proposal) \in Nat /\ Proposals = 1 .. Len(proposal)
           /\ \E B : \A q \in Proposals : proposal[q] \in ProposalRow(B)
  BY LenProperties, ElementOfSeq DEF Typed, Proposals

\* A row over some data is a row over more.
LEMMA RowGrows ==
    ASSUME NEW B, NEW C, B \subseteq C
    PROVE  ProposalRow(B) \subseteq ProposalRow(C)
  BY DEF ProposalRow, Words

\* A proposal that is stored.
LEMMA ProposalAdded ==
    ASSUME Typed, NEW B, NEW p \in ProposalRow(B), proposal' = Append(proposal, p)
    PROVE  /\ \E C : proposal' \in Seq(ProposalRow(C))
           /\ Len(proposal') = Len(proposal) + 1
           /\ Proposals' = Proposals \cup {Len(proposal) + 1}
           /\ Len(proposal) + 1 \notin Proposals
           /\ proposal'[Len(proposal) + 1] = p
           /\ \A q \in Proposals : proposal'[q] = proposal[q]
  <1>1. PICK C : proposal \in Seq(ProposalRow(C))
    BY DEF Typed
  <1> DEFINE D == B \cup C
  <1>2. ProposalRow(C) \subseteq ProposalRow(D) /\ p \in ProposalRow(D)
    BY RowGrows
  <1>3. proposal \in Seq(ProposalRow(D))
    BY <1>1, <1>2, SeqMonotonic
  <1> HIDE DEF D
  <1>4. proposal' \in Seq(ProposalRow(D))
    BY <1>2, <1>3, AppendProperties
  <1> QED BY <1>3, <1>4, Appended DEF Proposals

\* A proposal that is decided.
LEMMA ProposalChanged ==
    ASSUME Typed, NEW q \in Proposals, NEW B, NEW p \in ProposalRow(B),
           proposal' = [proposal EXCEPT ![q] = p]
    PROVE  /\ \E C : proposal' \in Seq(ProposalRow(C))
           /\ Len(proposal') = Len(proposal)
           /\ Proposals' = Proposals
           /\ proposal'[q] = p
           /\ \A x \in Proposals \ {q} : proposal'[x] = proposal[x]
  <1>1. PICK C : proposal \in Seq(ProposalRow(C))
    BY DEF Typed
  <1> DEFINE D == B \cup C
  <1>2. ProposalRow(C) \subseteq ProposalRow(D) /\ p \in ProposalRow(D)
    BY RowGrows
  <1>3. proposal \in Seq(ProposalRow(D))
    BY <1>1, <1>2, SeqMonotonic
  <1> HIDE DEF D
  <1>4. q \in 1 .. Len(proposal)
    BY RowFacts
  <1>5. proposal' \in Seq(ProposalRow(D))
    BY <1>2, <1>3, <1>4, ExceptSeq
  <1> QED BY <1>3, <1>5, Replaced DEF Proposals

\* What the payload in force is.
LEMMA PayloadFacts ==
    ASSUME NEW B, NEW p \in ProposalRow(B)
    PROVE  /\ PayloadOf(p) \in Words(B)
           /\ Cited(p.payload) /\ Cited(p.correction) => Cited(PayloadOf(p))
           /\ p.correction = NoWords => PayloadOf(p) = p.payload
  BY DEF PayloadOf, ProposalRow

\* No words are words without a statement.
LEMMA NoWordsFacts == NoWords \in Words({"none", <<>>}) /\ Cited(NoWords)
  BY DEF NoWords, Words, Cited

\* A parsed draft has the references of its claims.
LEMMA ParsedFacts ==
    ASSUME NEW d, \A n \in DOMAIN d : d[n].refs # {}
    PROVE  /\ Cited(Parsed(d))
           /\ \E B : Parsed(d) \in Words(B)
  <1>1. \A s \in DOMAIN Parsed(d).claims : Parsed(d).claims[s] # {}
    <2>1. DOMAIN Parsed(d).claims = {d[n].says : n \in DOMAIN d}
      BY DEF Parsed
    <2>2. ASSUME NEW n \in DOMAIN d PROVE d[n].refs \subseteq Parsed(d).claims[d[n].says]
      <3>1. n \in {m \in DOMAIN d : d[m].says = d[n].says}
        OBVIOUS
      <3> QED BY <3>1 DEF Parsed
    <2> QED BY <2>1, <2>2
  <1>2. Parsed(d) \in Words({"model", Parsed(d).claims})
    BY DEF Parsed, Words
  <1> QED BY <1>1, <1>2 DEF Cited

-----------------------------------------------------------------------------
(* The plan. *)

\* What a plan says: nothing, when something is in the way, or what to do.
LEMMA PlanFacts ==
    /\ Plan(Active).decision \in Origins \cup {"blocked"}
    /\ Plan(Active).decision \in Origins => ~Blocked(Active)
    /\ Plan(Active).decision = "generate" => Plan(Active).source = 0
    /\ Plan(Active).decision \in {"carry_forward", "reinference_required"} =>
           /\ Inherits(Active)
           /\ Plan(Active).source = Source(Active)
           /\ Plan(Active).status = proposal[Source(Active)].status
           /\ Plan(Active).payload = PayloadOf(proposal[Source(Active)])
    /\ Plan(Active).decision = "carry_forward" => Reusable(Source(Active), Active)
  BY DEF Plan, Origins

\* The source of a plan is the one reviewed proposal of the version before.
LEMMA SourceFacts ==
    ASSUME Inherits(Active)
    PROVE  /\ Source(Active) \in PublishableOf(Active - 1)
           /\ Source(Active) \in Proposals
           /\ proposal[Source(Active)].status \in Publishable
  <1>1. PublishableOf(Active - 1) # {}
    BY DEF Inherits
  <1>2. Source(Active) \in PublishableOf(Active - 1)
    BY <1>1 DEF Source
  <1> QED BY <1>2 DEF PublishableOf, Of

\* When nothing is in the way there is one such source.
LEMMA OnlySource ==
    ASSUME Typed, Inherits(Active), ~Blocked(Active)
    PROVE  PublishableOf(Active - 1) = {Source(Active)}
  <1> DEFINE S == PublishableOf(Active - 1)
  <1>1. IsFiniteSet(S)
    <2>1. S \subseteq 1 .. Len(proposal)
      BY RowFacts DEF PublishableOf, Of
    <2>2. IsFiniteSet(1 .. Len(proposal))
      BY RowFacts, FS_Interval
    <2> HIDE DEF S
    <2> QED BY <2>1, <2>2, FS_Subset
  <1>2. ~(Cardinality(S) > 1)
    BY DEF Blocked
  <1>3. Source(Active) \in S
    BY SourceFacts
  <1> HIDE DEF S
  <1>4. Cardinality(S) \in Nat /\ Cardinality(S) # 0
    BY <1>1, <1>3, FS_CardinalityType, FS_EmptySet
  <1>5. Cardinality(S) = 1
    BY <1>2, <1>4
  <1>6. \E x : S = {x}
    BY <1>1, <1>5, FS_Singleton
  <1> QED BY <1>3, <1>6 DEF S

-----------------------------------------------------------------------------
(* The invariant holds to begin with. *)

\* The first proposal was answered, reviewed and synchronised.
LEMMA InitInv == Init => Inv
  <1> SUFFICES ASSUME Init PROVE Inv
    OBVIOUS
  <1>1. PICK B : Parsed(FirstDraft) \in Words(B)
    BY ParsedFacts, FirstDraftAssumption
  <1>2. Cited(Parsed(FirstDraft))
    BY ParsedFacts, FirstDraftAssumption
  <1> DEFINE row == [version |-> 1, evidence |-> Current, model |-> model,
                     correction |-> NoWords, origin |-> "generate", source |-> 0,
                     revision |-> 1, decided |-> TRUE, status |-> "approved",
                     payload |-> Parsed(FirstDraft)]
             C == B \cup {"none", <<>>, Current}
             first == [i \in DOMAIN FirstContent |->
                         [source |-> FirstContent[i], status |-> "approved", fixed |-> FALSE]]
  <1>3. row \in ProposalRow(C)
    <2>1. Parsed(FirstDraft) \in Words(C) /\ NoWords \in Words(C)
      BY <1>1, NoWordsFacts DEF Words
    <2>2. model \in Models
      BY DEF Init
    <2> QED BY <2>1, <2>2 DEF ProposalRow, Origins, Statuses, Publishable
  <1>4. proposal = <<row>> /\ knowledge = <<first>>
    BY DEF Init
  <1>5. /\ row.version = 1 /\ row.source = 0 /\ row.revision = 1 /\ row.decided
        /\ row.status = "approved" /\ row.origin = "generate"
        /\ row.payload = Parsed(FirstDraft) /\ row.correction = NoWords
    OBVIOUS
  <1> HIDE DEF row, C, first
  <1>6. proposal \in Seq(ProposalRow(C)) /\ Len(proposal) = 1 /\ Proposals = {1}
        /\ proposal[1] = row
    BY <1>3, <1>4 DEF Proposals
  <1>7. knowledge \in Seq({first}) /\ Active = 1
    BY <1>4 DEF Active
  <1>8. Typed
    <2>1. job \in {NoJob}
      BY DEF Init
    <2>2. review \in [Reviewers -> {NoReview} \cup ReviewRow]
      BY DEF Init
    <2>3. model \in Models /\ changes \in Nat
      BY DEF Init
    <2>4. Active \in 1 .. MaxVersions
      BY <1>7, LifecycleAssumption
    <2> QED BY <1>6, <1>7, <2>1, <2>2, <2>3, <2>4 DEF Typed, JobTyped
  <1>9. Ordered
    <2>1. touched = <<1>>
      BY DEF Init
    <2> QED BY <1>6, <2>1 DEF Ordered, ToSet, IsInjective
  <1>10. Rows
    <2>1. Cited(row.payload) /\ Cited(row.correction)
      BY <1>2, <1>5, NoWordsFacts
    <2> QED BY <1>5, <1>6, <1>7, <2>1 DEF Rows
  <1>11. Inherited
    BY <1>5, <1>6 DEF Inherited, Carried
  <1>12. Reviewing
    BY DEF Init, Reviewing
  <1>13. job = NoJob
    BY DEF Init
  <1>14. Thinking
    BY <1>13 DEF Thinking, NoJob
  <1>15. Stored
    <2>1. \A d \in store : d.proposal = 1
      BY DEF Init, Document
    <2> QED BY <1>6, <1>13, <2>1 DEF Stored, NoJob, InJob
  <1> QED BY <1>8, <1>9, <1>10, <1>11, <1>12, <1>14, <1>15 DEF Inv

-----------------------------------------------------------------------------
(* Steps of the job that leave the tables alone. *)

tables == <<knowledge, proposal, touched, model, review, overlapped>>

\* The parts of the invariant that are about the tables.
LEMMA TablesKept ==
    ASSUME Inv, UNCHANGED tables, changes' \in Nat
    PROVE  /\ JobTyped' => Typed'
           /\ Ordered' /\ Rows' /\ Inherited' /\ Reviewing'
           /\ Proposals' = Proposals /\ Active' = Active
  <1>1. /\ knowledge' = knowledge /\ proposal' = proposal /\ touched' = touched
        /\ model' = model /\ review' = review /\ overlapped' = overlapped
    BY DEF tables
  <1>2. Proposals' = Proposals /\ Active' = Active
    BY <1>1 DEF Proposals, Active
  <1>3. JobTyped' => Typed'
    BY <1>1, <1>2 DEF Inv, Typed
  <1>4. Ordered'
    BY <1>1, <1>2 DEF Inv, Ordered
  <1>5. Rows'
    BY <1>1, <1>2 DEF Inv, Rows, Carried
  <1>6. Inherited'
    BY <1>1, <1>2 DEF Inv, Inherited, Carried
  <1>7. Reviewing'
    BY <1>1, <1>2 DEF Inv, Reviewing, Carried
  <1> QED BY <1>2, <1>3, <1>4, <1>5, <1>6, <1>7

\* The job that ends.
LEMMA JobEnds ==
    ASSUME job' = NoJob
    PROVE  JobTyped' /\ Thinking' /\ (job'.kind # "sync" /\ ~InJob("sync", "cleaning")')
  BY DEF JobTyped, Thinking, NoJob, InJob

\* The documents of a sync are of proposals.
LEMMA PreparedFacts ==
    ASSUME Typed, Ordered, NEW d \in Prepared
    PROVE  d.proposal \in Proposals /\ Usable(d.proposal) /\ d = Document(d.proposal)
  <1> DEFINE I == {i \in 1 .. Len(touched) : Usable(touched[i])}
  <1>1. Len(touched) \in Nat /\ \A i \in 1 .. Len(touched) : touched[i] \in Proposals
    BY LenProperties, ElementOfSeq DEF Ordered
  <1>2. SelectInSeq(touched, Usable) = IF I # {} THEN Min(I) ELSE 0
    BY DEF SelectInSeq
  <1>3. I # {}
    BY <1>2 DEF Prepared
  <1>4. Min(I) \in I
    BY <1>1, <1>3, FirstOf
  <1>5. d = Document(touched[Min(I)])
    <2>1. Min(I) # 0
      BY <1>4
    <2> HIDE DEF I
    <2> QED BY <1>2, <1>3, <2>1 DEF Prepared
  <1>6. PICK q \in Proposals : d = Document(q) /\ Usable(q)
    BY <1>1, <1>4, <1>5
  <1> QED BY <1>6 DEF Document

\* The job is one of the two kinds, or there is none.
LEMMA JobFacts ==
    ASSUME JobTyped
    PROVE  /\ job.kind = "inference" => \E B : job \in InferenceJob(B)
           /\ job.kind = "sync" => \E B : job \in SyncJob(B)
           /\ job.kind \in {"none", "inference", "sync"}
           /\ job.kind = "none" => job = NoJob
  BY DEF JobTyped, NoJob, InferenceJob, SyncJob

\* The evidence the person saw is pinned.
LEMMA QueueInferenceInv ==
    ASSUME Inv, QueueInference PROVE Inv'
  <1> DEFINE new == [kind |-> "inference", phase |-> "queued", version |-> Active,
                     evidence |-> Current, plan |-> NoPlan, answer |-> NoWords]
  <1>1. job' = new /\ UNCHANGED tables /\ changes' = changes /\ UNCHANGED store
    BY DEF QueueInference, tables
  <1>2. new \in InferenceJob({Current, NoPlan, "none", <<>>})
    <2>1. Active \in Nat
      BY DEF Inv, Typed
    <2> QED BY <2>1 DEF InferenceJob, Words, NoWords
  <1>3. new.kind = "inference" /\ new.phase = "queued"
    OBVIOUS
  <1> HIDE DEF new
  <1>4. JobTyped'
    BY <1>1, <1>2 DEF JobTyped
  <1>5. Typed' /\ Ordered' /\ Rows' /\ Inherited' /\ Reviewing' /\ Proposals' = Proposals
    BY <1>1, <1>4, TablesKept DEF Inv, Typed
  <1>6. Thinking'
    BY <1>1, <1>3 DEF Thinking
  <1>7. Stored'
    BY <1>1, <1>3, <1>5 DEF Inv, Stored, InJob
  <1> QED BY <1>5, <1>6, <1>7 DEF Inv

\* The plan is one that goes on, or the job ends.
LEMMA PlanInferenceInv ==
    ASSUME Inv, PlanInference PROVE Inv'
  <1>1. UNCHANGED tables /\ changes' = changes /\ UNCHANGED store
    BY DEF PlanInference, tables, counters
  <1>2. PICK B : job \in InferenceJob(B)
    BY JobFacts DEF PlanInference, InJob, Inv, Typed
  <1> DEFINE plan == Plan(Active)
             phase == IF plan.decision = "carry_forward" THEN "answered" ELSE "calling"
             new == [job EXCEPT !.plan = plan, !.phase = phase]
  <1>3. \/ job' = NoJob
        \/ plan.decision # "blocked" /\ job' = new
    BY DEF PlanInference, Finish
  <1>4. CASE job' = NoJob
    <2>1. Typed' /\ Ordered' /\ Rows' /\ Inherited' /\ Reviewing' /\ Proposals' = Proposals
      BY <1>1, <1>4, JobEnds, TablesKept DEF Inv, Typed
    <2>2. Stored'
      BY <1>1, <1>4, <2>1, JobEnds DEF Inv, Stored
    <2> QED BY <2>1, <2>2, <1>4, JobEnds DEF Inv
  <1>5. CASE plan.decision # "blocked" /\ job' = new
    <2>1. plan.decision \in Origins
      BY <1>5, PlanFacts
    <2> HIDE DEF plan
    <2>2. phase \in {"calling", "answered"} /\ (phase = "answered" => plan.decision = "carry_forward")
      OBVIOUS
    <2> HIDE DEF phase
    <2>3. new.kind = "inference" /\ new.phase = phase /\ new.plan = plan
          /\ new \in InferenceJob(B \cup {plan})
      BY <1>2, <2>2 DEF InferenceJob, Words
    <2> HIDE DEF new
    <2>4. JobTyped'
      BY <1>5, <2>3 DEF JobTyped
    <2>5. Typed' /\ Ordered' /\ Rows' /\ Inherited' /\ Reviewing' /\ Proposals' = Proposals
      BY <1>1, <2>4, TablesKept DEF Inv, Typed
    <2>6. Thinking'
      BY <1>5, <2>1, <2>2, <2>3 DEF Thinking
    <2>7. Stored'
      BY <1>1, <1>5, <2>3, <2>5 DEF Inv, Stored, InJob
    <2> QED BY <2>5, <2>6, <2>7 DEF Inv
  <1> QED BY <1>3, <1>4, <1>5

\* A draft that is stored in the job has references.
LEMMA AnswerInv ==
    ASSUME Inv, Answer PROVE Inv'
  <1>1. UNCHANGED tables /\ changes' = changes /\ UNCHANGED store
    BY DEF Answer, tables, counters
  <1>2. PICK B : job \in InferenceJob(B)
    BY JobFacts DEF Answer, InJob, Inv, Typed
  <1>3. CASE job' = NoJob
    <2>1. Typed' /\ Ordered' /\ Rows' /\ Inherited' /\ Reviewing' /\ Proposals' = Proposals
      BY <1>1, <1>3, JobEnds, TablesKept DEF Inv, Typed
    <2>2. Stored'
      BY <1>1, <1>3, <2>1, JobEnds DEF Inv, Stored
    <2> QED BY <2>1, <2>2, <1>3, JobEnds DEF Inv
  <1>4. ASSUME NEW d \in Drafts, Acceptable(d, job.evidence),
               job' = [job EXCEPT !.answer = Parsed(d), !.phase = "answered"]
        PROVE  Inv'
    <2>1. \A n \in DOMAIN d : d[n].refs # {}
      BY <1>4 DEF Acceptable
    <2>2. PICK C : Parsed(d) \in Words(C)
      BY <2>1, ParsedFacts
    <2>3. Cited(Parsed(d))
      BY <2>1, ParsedFacts
    <2> DEFINE words == Parsed(d)
               new == [job EXCEPT !.answer = words, !.phase = "answered"]
    <2>4. job.phase = "calling" /\ job.kind = "inference"
      BY DEF Answer, InJob
    <2>5. job.plan.decision \in Origins
      BY <2>4 DEF Inv, Thinking
    <2>6. words \in Words(B \cup C)
      BY <2>2 DEF Words
    <2> HIDE DEF words
    <2>7. new.kind = "inference" /\ new.phase = "answered" /\ new.plan = job.plan
          /\ new.answer = words /\ new \in InferenceJob(B \cup C)
      BY <1>2, <2>6 DEF InferenceJob, Words
    <2>8. job' = new
      BY <1>4 DEF words
    <2> HIDE DEF new
    <2>9. JobTyped'
      BY <2>7, <2>8 DEF JobTyped
    <2>10. Typed' /\ Ordered' /\ Rows' /\ Inherited' /\ Reviewing' /\ Proposals' = Proposals
      BY <1>1, <2>9, TablesKept DEF Inv, Typed
    <2>11. Cited(job'.answer)
      BY <2>3, <2>7, <2>8 DEF words
    <2>12. Thinking'
      BY <2>5, <2>7, <2>8, <2>11 DEF Thinking, Cited
    <2>13. Stored'
      BY <1>1, <2>7, <2>8, <2>10 DEF Inv, Stored, InJob
    <2> QED BY <2>10, <2>12, <2>13 DEF Inv
  <1> QED BY <1>3, <1>4 DEF Answer, Finish

\* A sync begins without documents.
LEMMA QueueSyncInv ==
    ASSUME Inv, QueueSync PROVE Inv'
  <1> DEFINE new == [kind |-> "sync", phase |-> "queued", version |-> Active, documents |-> {}]
  <1>1. job' = new /\ UNCHANGED tables /\ changes' = changes /\ UNCHANGED store
    BY DEF QueueSync, tables
  <1>2. Active \in Nat
    BY DEF Inv, Typed
  <1>3. new \in SyncJob({{}}) /\ new.kind = "sync" /\ new.phase = "queued" /\ new.documents = {}
    BY <1>2 DEF SyncJob
  <1> HIDE DEF new
  <1>4. JobTyped'
    BY <1>1, <1>3 DEF JobTyped
  <1>5. Typed' /\ Ordered' /\ Rows' /\ Inherited' /\ Reviewing' /\ Proposals' = Proposals
    BY <1>1, <1>4, TablesKept DEF Inv, Typed
  <1>6. Thinking'
    BY <1>1, <1>3 DEF Thinking
  <1>7. Stored'
    BY <1>1, <1>3, <1>5 DEF Inv, Stored, InJob
  <1> QED BY <1>5, <1>6, <1>7 DEF Inv

\* The sync takes a phase more.
LEMMA SyncGoesOn ==
    ASSUME Inv, job.kind = "sync", UNCHANGED tables, UNCHANGED changes,
           NEW phase \in {"embedding", "writing", "cleaning"}, NEW documents,
           job' = [[job EXCEPT !.phase = phase] EXCEPT !.documents = documents]
    PROVE  /\ Typed' /\ Ordered' /\ Rows' /\ Inherited' /\ Reviewing' /\ Thinking'
           /\ Proposals' = Proposals
           /\ job'.kind = "sync" /\ job'.phase = phase /\ job'.documents = documents
  <1>1. PICK B : job \in SyncJob(B)
    BY JobFacts DEF Inv, Typed
  <1>2. /\ job' \in SyncJob(B \cup {documents})
        /\ job'.kind = "sync" /\ job'.phase = phase /\ job'.documents = documents
    BY <1>1 DEF SyncJob
  <1>3. JobTyped'
    BY <1>2 DEF JobTyped
  <1>4. Typed' /\ Ordered' /\ Rows' /\ Inherited' /\ Reviewing' /\ Proposals' = Proposals
    BY <1>3, TablesKept DEF Inv, Typed
  <1>5. Thinking'
    BY <1>2 DEF Thinking
  <1> QED BY <1>2, <1>4, <1>5

\* The sync ends.
LEMMA SyncEnds ==
    ASSUME Inv, job' = NoJob, UNCHANGED tables, UNCHANGED changes,
           \A d \in store' : d.proposal \in Proposals
    PROVE  Inv'
  <1>1. Typed' /\ Ordered' /\ Rows' /\ Inherited' /\ Reviewing' /\ Proposals' = Proposals
    BY JobEnds, TablesKept DEF Inv, Typed
  <1>2. Stored'
    BY <1>1, JobEnds DEF Stored
  <1> QED BY <1>1, <1>2, JobEnds DEF Inv

\* The documents are of usable proposals.
LEMMA PrepareSyncInv ==
    ASSUME Inv, PrepareSync PROVE Inv'
  <1>1. UNCHANGED tables /\ UNCHANGED changes /\ UNCHANGED store /\ job.kind = "sync"
    BY DEF PrepareSync, tables, counters, InJob
  <1>2. CASE job' = NoJob
    <2>1. \A d \in store' : d.proposal \in Proposals
      BY <1>1 DEF Inv, Stored
    <2> QED BY <1>1, <1>2, <2>1, SyncEnds
  <1>3. CASE job' = [job EXCEPT !.phase = "embedding", !.documents = Prepared]
    <2>1. \A d \in Prepared : d.proposal \in Proposals
      BY PreparedFacts DEF Inv
    <2>2. PICK documents : documents = Prepared
      OBVIOUS
    <2>3. job' = [[job EXCEPT !.phase = "embedding"] EXCEPT !.documents = documents]
      BY <1>3, <2>2
    <2>4. /\ Typed' /\ Ordered' /\ Rows' /\ Inherited' /\ Reviewing' /\ Thinking'
          /\ Proposals' = Proposals
          /\ job'.kind = "sync" /\ job'.phase = "embedding" /\ job'.documents = documents
      BY <1>1, <2>3, SyncGoesOn
    <2>5. Stored'
      BY <1>1, <2>1, <2>2, <2>4 DEF Inv, Stored, InJob
    <2> QED BY <2>4, <2>5 DEF Inv
  <1> QED BY <1>2, <1>3 DEF PrepareSync, Finish

\* The documents are the ones that were prepared.
LEMMA CheckSyncInv ==
    ASSUME Inv, CheckSync PROVE Inv'
  <1>1. UNCHANGED tables /\ UNCHANGED changes /\ UNCHANGED store /\ job.kind = "sync"
    BY DEF CheckSync, tables, counters, InJob
  <1>2. CASE job' = NoJob
    <2>1. \A d \in store' : d.proposal \in Proposals
      BY <1>1 DEF Inv, Stored
    <2> QED BY <1>1, <1>2, <2>1, SyncEnds
  <1>3. CASE job' = [job EXCEPT !.phase = "writing"]
    <2>1. PICK documents : documents = job.documents
      OBVIOUS
    <2>2. PICK B : job \in SyncJob(B)
      BY <1>1, JobFacts DEF Inv, Typed
    <2>3. job' = [[job EXCEPT !.phase = "writing"] EXCEPT !.documents = documents]
      BY <1>3, <2>1, <2>2 DEF SyncJob
    <2>4. /\ Typed' /\ Ordered' /\ Rows' /\ Inherited' /\ Reviewing' /\ Thinking'
          /\ Proposals' = Proposals
          /\ job'.kind = "sync" /\ job'.phase = "writing" /\ job'.documents = documents
      BY <1>1, <2>3, SyncGoesOn
    <2>5. Stored'
      BY <1>1, <2>1, <2>4 DEF Inv, Stored, InJob
    <2> QED BY <2>4, <2>5 DEF Inv
  <1> QED BY <1>2, <1>3 DEF CheckSync, Finish

\* After the upsert the documents are in the collection.
LEMMA UpsertInv ==
    ASSUME Inv, Upsert PROVE Inv'
  <1>1. UNCHANGED tables /\ UNCHANGED changes /\ job.kind = "sync"
        /\ job' = [job EXCEPT !.phase = "cleaning"]
        /\ store' = {d \in store : \A e \in job.documents : e.proposal # d.proposal}
                      \cup job.documents
    BY DEF Upsert, tables, counters, InJob
  <1>2. PICK documents : documents = job.documents
    OBVIOUS
  <1>3. PICK B : job \in SyncJob(B)
    BY <1>1, JobFacts DEF Inv, Typed
  <1>4. job' = [[job EXCEPT !.phase = "cleaning"] EXCEPT !.documents = documents]
    BY <1>1, <1>2, <1>3 DEF SyncJob
  <1>5. /\ Typed' /\ Ordered' /\ Rows' /\ Inherited' /\ Reviewing' /\ Thinking'
        /\ Proposals' = Proposals
        /\ job'.kind = "sync" /\ job'.phase = "cleaning" /\ job'.documents = documents
    BY <1>1, <1>4, SyncGoesOn
  <1>6. /\ \A d \in store : d.proposal \in Proposals
        /\ \A d \in documents : d.proposal \in Proposals
    BY <1>1, <1>2 DEF Inv, Stored
  <1>7. Stored'
    BY <1>1, <1>2, <1>5, <1>6 DEF Stored, InJob
  <1> QED BY <1>5, <1>7 DEF Inv

\* The cleaning only deletes.
LEMMA CleanInv ==
    ASSUME Inv, Clean PROVE Inv'
  <1>1. UNCHANGED tables /\ UNCHANGED changes /\ job' = NoJob /\ store' \subseteq store
    BY DEF Clean, tables, counters, Finish
  <1>2. \A d \in store' : d.proposal \in Proposals
    BY <1>1 DEF Inv, Stored
  <1> QED BY <1>1, <1>2, SyncEnds

-----------------------------------------------------------------------------
(* Steps of the tables. *)

\* The worker stores nothing.
LEMMA NothingStored ==
    ASSUME Inv, job' = NoJob, UNCHANGED tables, UNCHANGED <<changes, store>>
    PROVE  Inv'
  <1>1. \A d \in store' : d.proposal \in Proposals
    BY DEF Inv, Stored
  <1> QED BY <1>1, SyncEnds

\* What the worker stores.
LEMMA ProposedFacts ==
    ASSUME Inv, InJob("inference", "answered"), Plan(Active) = job.plan
    PROVE  /\ \E B : Proposed \in ProposalRow(B)
           /\ Proposed.version = Active /\ Proposed.source \in 0 .. Len(proposal)
           /\ Proposed.revision = 0 /\ ~Proposed.decided
           /\ Proposed.correction = NoWords
           /\ Proposed.status = "pending_review" \/ Proposed.origin = "carry_forward"
           /\ Proposed.model = model /\ Proposed.evidence = Current
           /\ Proposed.origin = job.plan.decision /\ Proposed.source = job.plan.source
           /\ Cited(Proposed.payload)
           /\ ~Blocked(Active)
           /\ Proposed.origin = "carry_forward" =>
                  /\ Inherits(Active) /\ Proposed.source = Source(Active)
                  /\ Reusable(Source(Active), Active)
                  /\ Proposed.status = proposal[Source(Active)].status
                  /\ Proposed.payload = PayloadOf(proposal[Source(Active)])
  <1>1. PICK B : job \in InferenceJob(B)
    BY JobFacts DEF InJob, Inv, Typed
  <1> DEFINE s == Source(Active)
  <1>2. job.plan.decision \in Origins
    BY DEF Inv, Thinking, InJob
  <1>3. ~Blocked(Active)
    BY <1>2, PlanFacts
  <1>4. job.plan.decision # "generate" =>
           Inherits(Active) /\ job.plan.source = s /\ s \in Proposals
           /\ proposal[s].status \in Publishable
           /\ job.plan.status = proposal[s].status /\ job.plan.payload = PayloadOf(proposal[s])
    BY <1>2, PlanFacts, SourceFacts DEF Origins
  <1>5. job.plan.source \in 0 .. Len(proposal)
    <2>1. job.plan.decision = "generate" => job.plan.source = 0
      BY PlanFacts
    <2> QED BY <1>4, <2>1, RowFacts DEF Inv
  <1> DEFINE carried == job.plan.decision = "carry_forward"
             words == IF carried THEN job.plan.payload ELSE job.answer
             status == IF carried THEN job.plan.status ELSE "pending_review"
  <1>6. Cited(words) /\ \E C : words \in Words(C)
    <2>1. CASE carried
      <3>1. PICK C : proposal[s] \in ProposalRow(C)
        BY <1>4, <2>1, RowFacts DEF Inv
      <3>2. Cited(proposal[s].payload) /\ Cited(proposal[s].correction)
        BY <1>4, <2>1 DEF Inv, Rows
      <3>3. PICK w : w = PayloadOf(proposal[s])
        OBVIOUS
      <3>4. w \in Words(C) /\ Cited(w)
        BY <3>1, <3>2, <3>3, PayloadFacts
      <3>5. words = w
        BY <1>4, <2>1, <3>3
      <3> HIDE DEF words
      <3> QED BY <3>4, <3>5
    <2>2. CASE ~carried
      <3>1. PICK w : w = job.answer
        OBVIOUS
      <3>2. w \in Words(B)
        BY <1>1, <3>1 DEF InferenceJob
      <3>3. Cited(w)
        BY <2>2, <3>1 DEF Inv, Thinking, InJob
      <3>4. words = w
        BY <2>2, <3>1
      <3> HIDE DEF words
      <3> QED BY <3>2, <3>3, <3>4
    <2> QED BY <2>1, <2>2
  <1>7. PICK C : words \in Words(C)
    BY <1>6
  <1>8. status \in Statuses
    BY <1>2, <1>4 DEF Statuses
  <1>9. status = "pending_review" \/ carried
    OBVIOUS
  <1> DEFINE row == [version |-> Active, evidence |-> Current, model |-> model,
                     correction |-> NoWords, origin |-> job.plan.decision,
                     source |-> job.plan.source, revision |-> 0, decided |-> FALSE,
                     status |-> status, payload |-> words]
             D == C \cup {"none", <<>>, Current}
  <1>10. Proposed = row
    BY DEF Proposed
  <1>11. Reusable(s, Active) \/ ~carried
    BY PlanFacts
  <1>12. carried => status = proposal[s].status /\ words = PayloadOf(proposal[s])
    BY <1>4
  <1> HIDE DEF status, words
  <1>13. words \in Words(D) /\ NoWords \in Words(D)
    BY <1>7, NoWordsFacts DEF Words
  <1>14. Active \in Nat /\ model \in Models
    BY DEF Inv, Typed
  <1>15. Proposed \in ProposalRow(D)
    BY <1>2, <1>5, <1>8, <1>10, <1>13, <1>14 DEF ProposalRow
  <1>16. /\ row.version = Active /\ row.source = job.plan.source /\ row.revision = 0
         /\ ~row.decided /\ row.correction = NoWords /\ row.status = status
         /\ row.model = model /\ row.evidence = Current /\ row.origin = job.plan.decision
         /\ row.payload = words
    OBVIOUS
  <1>17. \E E : Proposed \in ProposalRow(E)
    BY <1>15
  <1>18. Cited(row.payload)
    BY <1>6, <1>16
  <1> HIDE DEF row, s
  <1> QED BY <1>3, <1>4, <1>5, <1>9, <1>10, <1>11, <1>12, <1>16, <1>17, <1>18 DEF s

\* Another proposal.
LEMMA Added ==
    ASSUME Inv, InJob("inference", "answered"), Plan(Active) = job.plan,
           Add(Proposed), job' = NoJob,
           UNCHANGED <<knowledge, model, review, store, overlapped, counters>>
    PROVE  Inv'
  <1> DEFINE n == Len(proposal) + 1
  <1>1. PICK p : p = Proposed
    OBVIOUS
  <1>2. PICK B : p \in ProposalRow(B)
    BY <1>1, ProposedFacts
  <1>3. proposal' = Append(proposal, p) /\ touched' = <<n>> \o touched
    BY <1>1 DEF Add
  <1>4. /\ \E C : proposal' \in Seq(ProposalRow(C))
        /\ Len(proposal') = Len(proposal) + 1
        /\ Proposals' = Proposals \cup {n}
        /\ n \notin Proposals
        /\ proposal'[n] = p
        /\ \A q \in Proposals : proposal'[q] = proposal[q]
    BY <1>2, <1>3, ProposalAdded DEF Inv
  <1>5. Len(proposal) \in Nat /\ Proposals = 1 .. Len(proposal)
    BY RowFacts DEF Inv
  <1>6. Active' = Active /\ changes' = changes /\ overlapped' = overlapped
        /\ review' = review /\ knowledge' = knowledge /\ model' = model /\ store' = store
    BY DEF Active, counters
  <1>7. Typed'
    BY <1>4, <1>6, JobEnds DEF Inv, Typed
  <1>8. Ordered'
    <2>1. touched \in Seq(Proposals) /\ ToSet(touched) = Proposals
          /\ Len(touched) = Len(proposal) /\ IsInjective(touched)
      BY DEF Inv, Ordered
    <2> DEFINE h == <<n>>
               u == h \o touched
               P == Proposals \cup {n}
    <2>2. h \in Seq(P) /\ Len(h) = 1 /\ h[1] = n
      OBVIOUS
    <2>3. touched \in Seq(P)
      BY <2>1, SeqMonotonic
    <2> HIDE DEF h, P
    <2>4. /\ u \in Seq(P) /\ Len(u) = Len(h) + Len(touched)
          /\ \A i \in 1 .. Len(h) + Len(touched) :
                u[i] = IF i <= Len(h) THEN h[i] ELSE touched[i - Len(h)]
      BY <2>2, <2>3, ConcatProperties
    <2>5. touched' = u
      BY <1>3 DEF h
    <2> HIDE DEF u
    <2>6. PICK l \in Nat : l = Len(proposal)
      BY <1>5
    <2>7. DOMAIN touched = 1 .. l /\ Len(touched) = l
      BY <2>1, <2>6, LenProperties
    <2>8. Len(u) = l + 1 /\ DOMAIN u = 1 .. l + 1 /\ u[1] = n
      BY <2>2, <2>4, <2>6, <2>7, LenProperties
    <2>9. \A i \in 1 .. l : u[i + 1] = touched[i]
      <3> SUFFICES ASSUME NEW i \in 1 .. l PROVE u[i + 1] = touched[i]
        OBVIOUS
      <3>1. i + 1 \in 1 .. 1 + l /\ ~(i + 1 <= 1) /\ (i + 1) - 1 = i
        BY <2>6
      <3> QED BY <3>1, <2>2, <2>4, <2>7
    <2>10. \A i \in 2 .. l + 1 : u[i] = touched[i - 1] /\ i - 1 \in 1 .. l
      <3> SUFFICES ASSUME NEW i \in 2 .. l + 1 PROVE u[i] = touched[i - 1] /\ i - 1 \in 1 .. l
        OBVIOUS
      <3>1. i - 1 \in 1 .. l /\ (i - 1) + 1 = i
        BY <2>6
      <3> QED BY <3>1, <2>9
    <2>11. \A i \in 1 .. l : touched[i] \in Proposals
      BY <2>1, <2>7 DEF ToSet
    <2>12. ToSet(u) = P
      <3>1. ASSUME NEW x \in ToSet(u) PROVE x \in P
        <4>1. PICK i \in 1 .. l + 1 : x = u[i]
          BY <2>8 DEF ToSet
        <4> QED BY <4>1, <2>4, <2>8, ElementOfSeq
      <3>2. ASSUME NEW x \in P PROVE x \in ToSet(u)
        <4>1. CASE x = n
          BY <4>1, <2>6, <2>8 DEF ToSet
        <4>2. CASE x \in Proposals
          <5>1. PICK i \in 1 .. l : x = touched[i]
            BY <2>1, <2>7, <4>2 DEF ToSet
          <5>2. u[i + 1] = x /\ i + 1 \in 1 .. l + 1
            BY <5>1, <2>6, <2>9
          <5> QED BY <5>2, <2>8 DEF ToSet
        <4> QED BY <4>1, <4>2 DEF P
      <3> QED BY <3>1, <3>2
    <2>13. IsInjective(u)
      <3> SUFFICES ASSUME NEW i \in 1 .. l + 1, NEW j \in 1 .. l + 1, u[i] = u[j]
                   PROVE  i = j
        BY <2>8 DEF IsInjective
      <3>1. \A x, y \in 1 .. l : touched[x] = touched[y] => x = y
        BY <2>1, <2>7 DEF IsInjective
      <3>2. ASSUME NEW x \in 2 .. l + 1 PROVE u[x] # n
        BY <3>2, <1>4, <2>10, <2>11
      <3>3. CASE i = 1 /\ j = 1
        BY <3>3
      <3>4. CASE i # 1 /\ j = 1
        <4>1. i \in 2 .. l + 1
          BY <2>6, <3>4
        <4> QED BY <4>1, <3>2, <3>4, <2>8
      <3>5. CASE i = 1 /\ j # 1
        <4>1. j \in 2 .. l + 1
          BY <2>6, <3>5
        <4> QED BY <4>1, <3>2, <3>5, <2>8
      <3>6. CASE i # 1 /\ j # 1
        <4>1. i \in 2 .. l + 1 /\ j \in 2 .. l + 1
          BY <2>6, <3>6
        <4>2. i - 1 = j - 1
          BY <4>1, <2>10, <3>1
        <4> QED BY <4>1, <4>2, <2>6
      <3> QED BY <3>3, <3>4, <3>5, <3>6
    <2>14. Proposals' = P /\ Len(touched') = Len(proposal')
      BY <1>4, <2>5, <2>6, <2>8 DEF P
    <2> QED BY <2>4, <2>5, <2>12, <2>13, <2>14 DEF Ordered
  <1>9. Rows'
    <2>1. ASSUME NEW q \in Proposals
          PROVE  /\ proposal'[q].version \in 1 .. Active' /\ proposal'[q].source < q
                 /\ proposal'[q].revision \in 0 .. 1
                 /\ proposal'[q].status = "pending_review" => proposal'[q].revision = 0
                 /\ proposal'[q].status \in Publishable /\ proposal'[q].origin # "carry_forward"
                        => proposal'[q].decided
                 /\ proposal'[q].decided => proposal'[q].revision = 1
                 /\ Cited(proposal'[q].payload) /\ Cited(proposal'[q].correction)
      BY <1>4, <1>6 DEF Inv, Rows, Carried
    <2>2. /\ p.version = Active /\ p.source \in 0 .. Len(proposal) /\ p.revision = 0
          /\ ~p.decided /\ p.correction = NoWords
          /\ p.status = "pending_review" \/ p.origin = "carry_forward"
          /\ Cited(p.payload)
      BY <1>1, ProposedFacts
    <2>3. /\ p.version \in 1 .. Active' /\ p.source < n
          /\ p.revision \in 0 .. 1
          /\ p.status = "pending_review" => p.revision = 0
          /\ p.status \in Publishable /\ p.origin # "carry_forward" => p.decided
          /\ p.decided => p.revision = 1
          /\ Cited(p.payload) /\ Cited(p.correction)
      <3>1. Active \in 1 .. MaxVersions /\ MaxVersions \in Nat
        BY LifecycleAssumption DEF Inv, Typed
      <3>2. p.version \in 1 .. Active' /\ p.source < n /\ p.revision \in 0 .. 1
        BY <1>5, <1>6, <2>2, <3>1
      <3> QED BY <2>2, <3>2, NoWordsFacts DEF Publishable
    <2> QED BY <1>4, <2>1, <2>3 DEF Rows, Carried
  <1>10. Inherited'
    <2>1. ASSUME NEW q \in Proposals, proposal'[q].origin = "carry_forward", NEW s,
                 s = proposal'[q].source
          PROVE  /\ s \in Proposals' /\ proposal'[q].status \in Publishable
                 /\ proposal'[q].correction = NoWords
                 /\ proposal'[s].origin = "carry_forward" \/ proposal'[s].decided
                 /\ Compatible(proposal'[s].evidence, proposal'[q].evidence)
                 /\ s \in overlapped' \/ PayloadOf(proposal'[q]) = PayloadOf(proposal'[s])
      <3>1. proposal'[q] = proposal[q] /\ s = proposal[q].source
        BY <1>4, <2>1
      <3>2. /\ s \in Proposals /\ proposal[q].status \in Publishable
            /\ proposal[q].correction = NoWords
            /\ proposal[s].origin = "carry_forward" \/ proposal[s].decided
            /\ Compatible(proposal[s].evidence, proposal[q].evidence)
            /\ s \in overlapped \/ PayloadOf(proposal[q]) = PayloadOf(proposal[s])
        BY <2>1, <3>1 DEF Inv, Inherited, Carried
      <3>3. proposal'[s] = proposal[s] /\ s \in Proposals'
        BY <1>4, <3>2
      <3> QED BY <1>6, <3>1, <3>2, <3>3
    <2>2. ASSUME p.origin = "carry_forward", NEW s, s = p.source
          PROVE  /\ s \in Proposals' /\ p.status \in Publishable
                 /\ p.correction = NoWords
                 /\ proposal'[s].origin = "carry_forward" \/ proposal'[s].decided
                 /\ Compatible(proposal'[s].evidence, p.evidence)
                 /\ s \in overlapped' \/ PayloadOf(p) = PayloadOf(proposal'[s])
      <3>1. /\ Inherits(Active) /\ s = Source(Active) /\ Reusable(s, Active)
            /\ p.status = proposal[s].status /\ p.payload = PayloadOf(proposal[s])
            /\ p.correction = NoWords /\ p.evidence = Current
        BY <1>1, <2>2, ProposedFacts
      <3>2. s \in Proposals /\ proposal[s].status \in Publishable
        BY <3>1, SourceFacts
      <3>3. proposal'[s] = proposal[s] /\ s \in Proposals'
        BY <1>4, <3>2
      <3>4. proposal[s].origin = "carry_forward" \/ proposal[s].decided
        BY <3>2 DEF Inv, Rows, Carried
      <3>5. Compatible(proposal[s].evidence, p.evidence)
        BY <3>1 DEF Reusable, Current
      <3>6. PayloadOf(p) = p.payload
        BY <1>2, <3>1, PayloadFacts
      <3> QED BY <3>1, <3>2, <3>3, <3>4, <3>5, <3>6
    <2>3. ASSUME NEW q \in Proposals', Carried(q)'
          PROVE  LET s == proposal'[q].source
                 IN /\ s \in Proposals' /\ proposal'[q].status \in Publishable
                    /\ proposal'[q].correction = NoWords
                    /\ proposal'[s].origin = "carry_forward" \/ proposal'[s].decided
                    /\ Compatible(proposal'[s].evidence, proposal'[q].evidence)
                    /\ s \in overlapped' \/ PayloadOf(proposal'[q]) = PayloadOf(proposal'[s])
      BY <1>4, <2>1, <2>2, <2>3 DEF Carried
    <2> QED BY <2>3 DEF Inherited, Carried
  <1>11. Reviewing'
    BY <1>4, <1>6 DEF Inv, Reviewing, Carried
  <1>12. Stored'
    BY <1>4, <1>6, JobEnds DEF Inv, Stored
  <1> QED BY <1>7, <1>8, <1>9, <1>10, <1>11, <1>12, JobEnds DEF Inv

\* What the second transaction does.
LEMMA PersistInv ==
    ASSUME Inv, Persist PROVE Inv'
  <1>1. CASE ContextHolds /\ Plan(Active) = job.plan
    <2>1. Add(Proposed) /\ InJob("inference", "answered") /\ job' = NoJob
          /\ UNCHANGED <<knowledge, model, review, store, overlapped, counters>>
      BY <1>1 DEF Persist, Finish
    <2> QED BY <1>1, <2>1, Added
  <1>2. CASE ~(ContextHolds /\ Plan(Active) = job.plan)
    <2>1. job' = NoJob /\ UNCHANGED tables /\ UNCHANGED <<changes, store>>
      BY <1>2 DEF Persist, Finish, tables, counters
    <2> QED BY <2>1, NothingStored
  <1> QED BY <1>1, <1>2

\* The requests that read a proposal, and the restart, change the reviews only.
LEMMA ReviewsChange ==
    ASSUME Inv, UNCHANGED <<knowledge, proposal, touched, overlapped, store>>,
           model' \in Models, changes' \in Nat,
           job' = job \/ job' = NoJob,
           review' \in [Reviewers -> {NoReview} \cup ReviewRow],
           \A r \in Reviewers : review'[r] # NoReview =>
               /\ review'[r].proposal \in Proposals /\ ~Carried(review'[r].proposal)
               /\ review'[r].revision = 0
    PROVE  Inv'
  <1>1. /\ Proposals' = Proposals /\ Active' = Active
        /\ knowledge' = knowledge /\ proposal' = proposal /\ touched' = touched
        /\ overlapped' = overlapped /\ store' = store
    BY DEF Proposals, Active
  <1>2. JobTyped' /\ Thinking' /\ Stored'
    <2>1. CASE job' = job
      BY <1>1, <2>1 DEF Inv, Typed, JobTyped, Thinking, Stored, InJob
    <2>2. CASE job' = NoJob
      BY <1>1, <2>2, JobEnds DEF Inv, Stored
    <2> QED BY <2>1, <2>2
  <1>3. Typed'
    BY <1>1, <1>2 DEF Inv, Typed
  <1>4. Ordered'
    BY <1>1 DEF Inv, Ordered
  <1>5. Rows'
    BY <1>1 DEF Inv, Rows, Carried
  <1>6. Inherited'
    BY <1>1 DEF Inv, Inherited, Carried
  <1>7. Reviewing'
    BY <1>1 DEF Inv, Reviewing, Carried
  <1> QED BY <1>2, <1>3, <1>4, <1>5, <1>6, <1>7 DEF Inv

\* Only a pending proposal is read for a review.
LEMMA BeginReviewInv ==
    ASSUME Inv, NEW r \in Reviewers, NEW q \in Proposals, NEW a \in Verdicts,
           BeginReview(r, q, a)
    PROVE  Inv'
  <1> DEFINE new == [proposal |-> q, action |-> a, revision |-> proposal[q].revision]
  <1>1. PICK B : proposal[q] \in ProposalRow(B)
    BY RowFacts DEF Inv
  <1>2. review' = [review EXCEPT ![r] = new] /\ proposal[q].status = "pending_review"
    BY DEF BeginReview
  <1>3. proposal[q].revision = 0 /\ ~Carried(q)
    BY <1>2 DEF Inv, Rows, Inherited, Publishable
  <1>4. new \in ReviewRow /\ new.proposal = q /\ new.revision = 0
    BY <1>3, RowFacts DEF ReviewRow, Inv
  <1> HIDE DEF new
  <1>5. review \in [Reviewers -> {NoReview} \cup ReviewRow]
    BY DEF Inv, Typed
  <1>6. /\ review' \in [Reviewers -> {NoReview} \cup ReviewRow]
        /\ \A x \in Reviewers : review'[x] = IF x = r THEN new ELSE review[x]
    BY <1>2, <1>4, <1>5
  <1>7. \A x \in Reviewers : review'[x] # NoReview =>
           /\ review'[x].proposal \in Proposals /\ ~Carried(review'[x].proposal)
           /\ review'[x].revision = 0
    BY <1>3, <1>4, <1>6 DEF Inv, Reviewing
  <1>8. /\ UNCHANGED <<knowledge, proposal, touched, overlapped, store>>
        /\ job' = job /\ model' \in Models /\ changes' \in Nat
    BY DEF BeginReview, Inv, Typed
  <1> QED BY <1>6, <1>7, <1>8, ReviewsChange

\* A restart forgets the job and the requests.
LEMMA RestartInv ==
    ASSUME Inv, Restart PROVE Inv'
  <1>1. review' = [r \in Reviewers |-> NoReview]
    BY DEF Restart
  <1>2. /\ UNCHANGED <<knowledge, proposal, touched, overlapped, store>>
        /\ job' = NoJob /\ model' \in Models /\ changes' \in Nat
    BY DEF Restart, Inv, Typed
  <1> QED BY <1>1, <1>2, ReviewsChange

\* A decision: the row of the proposal, and who decided at once.
LEMMA DecideFacts ==
    ASSUME Inv, NEW r \in Reviewers, review[r] # NoReview, Decide(r),
           NEW q, q = review[r].proposal
    PROVE  \E p :
               /\ q \in Proposals /\ ~Carried(q) /\ proposal' = [proposal EXCEPT ![q] = p]
               /\ \E B : p \in ProposalRow(B)
               /\ p.version = proposal[q].version /\ p.source = proposal[q].source
               /\ p.evidence = proposal[q].evidence /\ p.origin = proposal[q].origin
               /\ p.payload = proposal[q].payload
               /\ p.status \in Verdicts /\ p.revision = 1 /\ p.decided
               /\ Cited(p.payload) /\ Cited(p.correction)
               /\ overlapped' = IF proposal[q].revision # 0 THEN overlapped \cup {q}
                                ELSE overlapped
  <1>1. q \in Proposals /\ ~Carried(q) /\ review[r].revision = 0
    BY DEF Inv, Reviewing
  <1>2. review[r] \in ReviewRow
    BY DEF Inv, Typed
  <1>3. PICK old : old = proposal[q]
    OBVIOUS
  <1>4. PICK action \in Verdicts : action = review[r].action
    BY <1>2 DEF ReviewRow
  <1>5. PICK B : old \in ProposalRow(B)
    BY <1>1, <1>3, RowFacts DEF Inv
  <1>6. Cited(old.payload) /\ Cited(old.correction)
    BY <1>1, <1>3 DEF Inv, Rows
  <1> DEFINE kept == IF old.correction # NoWords THEN {old.correction} ELSE {}
             new == IF action = "corrected" THEN {Correction(r, q)} ELSE {}
             rev == review[r].revision + 1
  <1>7. PICK c \in IF kept \cup new = {} THEN {NoWords} ELSE kept \cup new :
            proposal' = [proposal EXCEPT ![q] =
                            [old EXCEPT !.status = action, !.decided = TRUE,
                                        !.revision = rev, !.correction = c]]
    BY <1>3, <1>4 DEF Decide
  <1>8. rev = 1
    BY <1>1
  <1>9. PICK corrected : corrected = Correction(r, q)
    OBVIOUS
  <1>10. corrected \in Words(B \cup {r}) /\ Cited(corrected)
    <2>1. PICK w : w = old.payload
      OBVIOUS
    <2>2. w \in Words(B)
      BY <1>5, <2>1 DEF ProposalRow
    <2>3. corrected = [w EXCEPT !.summary = r]
      BY <1>3, <1>9, <2>1 DEF Correction
    <2>4. corrected \in Words(B \cup {r}) /\ corrected.claims = w.claims
      BY <2>2, <2>3 DEF Words
    <2> QED BY <1>6, <2>1, <2>4 DEF Cited
  <1>11. c \in {NoWords, old.correction, corrected}
    BY <1>7, <1>9
  <1>12. Cited(c)
    BY <1>6, <1>10, <1>11, NoWordsFacts
  <1> DEFINE D == B \cup {r, "none", <<>>}
  <1>13. c \in Words(D)
    BY <1>5, <1>10, <1>11, NoWordsFacts DEF ProposalRow, Words
  <1> HIDE DEF D, rev
  <1>14. PICK p : p = [old EXCEPT !.status = action, !.decided = TRUE, !.revision = rev,
                                  !.correction = c]
    OBVIOUS
  <1>15. old \in ProposalRow(D)
    BY <1>5 DEF D, ProposalRow, Words
  <1>16. /\ p \in ProposalRow(D)
         /\ p.version = old.version /\ p.source = old.source /\ p.evidence = old.evidence
         /\ p.origin = old.origin /\ p.payload = old.payload
         /\ p.status = action /\ p.revision = 1 /\ p.decided /\ p.correction = c
    <2>1. action \in Statuses /\ 1 \in Nat /\ TRUE \in BOOLEAN
      BY <1>4 DEF Statuses, Verdicts, Publishable
    <2> QED BY <1>8, <1>13, <1>14, <1>15, <2>1 DEF ProposalRow
  <1>17. proposal' = [proposal EXCEPT ![q] = p]
    BY <1>7, <1>14
  <1>18. overlapped' = IF proposal[q].revision # 0 THEN overlapped \cup {q} ELSE overlapped
    BY <1>1, <1>3 DEF Decide
  <1>19. Cited(p.payload) /\ Cited(p.correction)
    BY <1>6, <1>12, <1>16
  <1>20. \E C : p \in ProposalRow(C)
    BY <1>16
  <1> QED BY <1>1, <1>3, <1>4, <1>16, <1>17, <1>18, <1>19, <1>20

\* A decision keeps the invariant, be the proposal pending or decided meanwhile.
LEMMA CommitReviewInv ==
    ASSUME Inv, NEW r \in Reviewers, CommitReview(r) PROVE Inv'
  <1>1. PICK q : q = review[r].proposal
    OBVIOUS
  <1>2. PICK p :
           /\ q \in Proposals /\ ~Carried(q) /\ proposal' = [proposal EXCEPT ![q] = p]
           /\ \E B : p \in ProposalRow(B)
           /\ p.version = proposal[q].version /\ p.source = proposal[q].source
           /\ p.evidence = proposal[q].evidence /\ p.origin = proposal[q].origin
           /\ p.payload = proposal[q].payload
           /\ p.status \in Verdicts /\ p.revision = 1 /\ p.decided
           /\ Cited(p.payload) /\ Cited(p.correction)
           /\ overlapped' = IF proposal[q].revision # 0 THEN overlapped \cup {q}
                            ELSE overlapped
    BY <1>1, DecideFacts DEF CommitReview
  <1>3. /\ \E C : proposal' \in Seq(ProposalRow(C))
        /\ Len(proposal') = Len(proposal)
        /\ Proposals' = Proposals
        /\ proposal'[q] = p
        /\ \A x \in Proposals \ {q} : proposal'[x] = proposal[x]
    BY <1>2, ProposalChanged DEF Inv
  <1>4. /\ Active' = Active /\ knowledge' = knowledge /\ model' = model
        /\ job' = job /\ store' = store /\ changes' = changes
        /\ review' = [review EXCEPT ![r] = NoReview]
    BY DEF CommitReview, counters, Active
  <1>5. \A x \in Proposals : proposal'[x].origin = proposal[x].origin
                             /\ proposal'[x].source = proposal[x].source
                             /\ proposal'[x].version = proposal[x].version
                             /\ proposal'[x].evidence = proposal[x].evidence
    BY <1>2, <1>3
  <1>6. review' \in [Reviewers -> {NoReview} \cup ReviewRow]
        /\ \A x \in Reviewers : review'[x] = NoReview \/ review'[x] = review[x]
    BY <1>4 DEF Inv, Typed
  <1>7. JobTyped' /\ Thinking'
    BY <1>4 DEF Inv, Typed, JobTyped, Thinking
  <1>8. Typed'
    BY <1>3, <1>4, <1>6, <1>7 DEF Inv, Typed
  <1>9. Ordered'
    <2>1. touched' = <<q>> \o RemoveFirst(touched, q)
      BY <1>1 DEF CommitReview
    <2>2. touched \in Seq(Proposals) /\ ToSet(touched) = Proposals
          /\ Len(touched) = Len(proposal) /\ IsInjective(touched)
      BY DEF Inv, Ordered
    <2>3. PICK t : t = touched'
      OBVIOUS
    <2>4. t \in Seq(Proposals) /\ ToSet(t) = ToSet(touched) /\ Len(t) = Len(touched)
          /\ IsInjective(t)
      BY <1>2, <2>1, <2>2, <2>3, MovedToFront
    <2> QED BY <1>3, <2>2, <2>3, <2>4 DEF Ordered
  <1>10. Rows'
    <2>1. ASSUME NEW x \in Proposals
          PROVE  /\ proposal'[x].version \in 1 .. Active' /\ proposal'[x].source < x
                 /\ proposal'[x].revision \in 0 .. 1
                 /\ proposal'[x].status = "pending_review" => proposal'[x].revision = 0
                 /\ proposal'[x].status \in Publishable /\ proposal'[x].origin # "carry_forward"
                        => proposal'[x].decided
                 /\ proposal'[x].decided => proposal'[x].revision = 1
                 /\ Cited(proposal'[x].payload) /\ Cited(proposal'[x].correction)
      <3>1. CASE x = q
        <4>1. p.status # "pending_review"
          BY <1>2 DEF Verdicts
        <4>2. proposal[q].version \in 1 .. Active /\ proposal[q].source < q
          BY <1>2 DEF Inv, Rows
        <4> QED BY <1>2, <1>3, <1>4, <3>1, <4>1, <4>2
      <3>2. CASE x # q
        BY <1>3, <1>4, <3>2 DEF Inv, Rows, Carried
      <3> QED BY <3>1, <3>2
    <2> QED BY <1>3, <2>1 DEF Rows, Carried
  <1>11. Inherited'
    <2>1. ASSUME NEW x \in Proposals, proposal'[x].origin = "carry_forward", NEW s,
                 s = proposal'[x].source
          PROVE  /\ s \in Proposals /\ proposal'[x].status \in Publishable
                 /\ proposal'[x].correction = NoWords
                 /\ proposal'[s].origin = "carry_forward" \/ proposal'[s].decided
                 /\ Compatible(proposal'[s].evidence, proposal'[x].evidence)
                 /\ s \in overlapped' \/ PayloadOf(proposal'[x]) = PayloadOf(proposal'[s])
      <3>1. proposal[x].origin = "carry_forward" /\ s = proposal[x].source /\ x # q
            /\ proposal'[x] = proposal[x]
        BY <1>2, <1>3, <1>5, <2>1 DEF Carried
      <3>2. /\ s \in Proposals /\ proposal[x].status \in Publishable
            /\ proposal[x].correction = NoWords
            /\ proposal[s].origin = "carry_forward" \/ proposal[s].decided
            /\ Compatible(proposal[s].evidence, proposal[x].evidence)
            /\ s \in overlapped \/ PayloadOf(proposal[x]) = PayloadOf(proposal[s])
        BY <3>1 DEF Inv, Inherited, Carried
      <3>3. CASE s = q
        <4>1. proposal[q].decided
          BY <1>2, <3>2, <3>3 DEF Carried
        <4>2. proposal[q].revision = 1
          BY <1>2, <4>1 DEF Inv, Rows
        <4>3. q \in overlapped'
          BY <1>2, <4>2
        <4> QED BY <1>2, <1>3, <1>5, <3>1, <3>2, <3>3, <4>3
      <3>4. CASE s # q
        <4>1. proposal'[s] = proposal[s]
          BY <1>3, <3>2, <3>4
        <4>2. s \in overlapped => s \in overlapped'
          BY <1>2
        <4> QED BY <3>1, <3>2, <4>1, <4>2
      <3> QED BY <3>3, <3>4
    <2> QED BY <1>3, <2>1 DEF Inherited, Carried
  <1>12. Reviewing'
    <2>1. \A x \in Reviewers : review'[x] # NoReview =>
              /\ review'[x].proposal \in Proposals
              /\ proposal'[review'[x].proposal].origin # "carry_forward"
              /\ review'[x].revision = 0
      BY <1>5, <1>6 DEF Inv, Reviewing, Carried
    <2>2. \A x \in overlapped' : x \in Proposals /\ proposal'[x].origin # "carry_forward"
      BY <1>2, <1>5 DEF Inv, Reviewing, Carried
    <2> QED BY <1>3, <2>1, <2>2 DEF Reviewing, Carried
  <1>13. Stored'
    BY <1>3, <1>4 DEF Inv, Stored, InJob
  <1> QED BY <1>7, <1>8, <1>9, <1>10, <1>11, <1>12, <1>13 DEF Inv

\* The structural knowledge changes.
LEMMA KnowledgeChanges ==
    ASSUME Inv, UNCHANGED <<proposal, touched, model, job, review, store, overlapped>>,
           changes' \in Nat, \E B : knowledge' \in Seq(B),
           Active' \in Active .. MaxVersions
    PROVE  Inv'
  <1>1. /\ proposal' = proposal /\ touched' = touched /\ model' = model /\ job' = job
        /\ review' = review /\ store' = store /\ overlapped' = overlapped
        /\ Proposals' = Proposals
    BY DEF Proposals
  <1>2. Active \in Nat /\ Active >= 1 /\ Active' \in Nat /\ Active' >= Active
    BY LifecycleAssumption DEF Inv, Typed
  <1>3. Typed'
    <2>1. Active' \in 1 .. MaxVersions
      BY <1>2, LifecycleAssumption
    <2> QED BY <1>1, <2>1 DEF Inv, Typed, JobTyped
  <1>4. Ordered'
    BY <1>1 DEF Inv, Ordered
  <1>5. Rows'
    <2>1. \A q \in Proposals : proposal[q].version \in 1 .. Active => proposal[q].version \in 1 .. Active'
      BY <1>2
    <2> QED BY <1>1, <2>1 DEF Inv, Rows, Carried
  <1>6. Inherited'
    BY <1>1 DEF Inv, Inherited, Carried
  <1>7. Reviewing'
    BY <1>1 DEF Inv, Reviewing, Carried
  <1>8. Thinking'
    BY <1>1 DEF Inv, Thinking
  <1>9. Stored'
    BY <1>1 DEF Inv, Stored, InJob
  <1> QED BY <1>3, <1>4, <1>5, <1>6, <1>7, <1>8, <1>9 DEF Inv

\* A structural review touches the knowledge only.
LEMMA ReviewItemInv ==
    ASSUME Inv, NEW v \in DOMAIN knowledge, NEW i, NEW s, ReviewItem(v, i, s)
    PROVE  Inv'
  <1>1. PICK k : knowledge' = [knowledge EXCEPT ![v] = k]
    <2> DEFINE k == [knowledge[v] EXCEPT ![i] =
                        [@ EXCEPT !.status = s,
                                  !.fixed = CASE s = "corrected" -> TRUE
                                              [] s = "pending_review" -> FALSE
                                              [] OTHER -> @]]
    <2>1. knowledge' = [knowledge EXCEPT ![v] = k]
      BY DEF ReviewItem
    <2> QED BY <2>1
  <1>2. PICK B : knowledge \in Seq(B)
    BY DEF Inv, Typed
  <1>3. knowledge' \in Seq(B \cup {k}) /\ Len(knowledge') = Len(knowledge)
    BY <1>1, <1>2, Replaced
  <1>4. Active' \in Active .. MaxVersions
    BY <1>3, LifecycleAssumption DEF Inv, Typed, Active
  <1>5. UNCHANGED <<proposal, touched, model, job, review, store, overlapped>>
        /\ changes' \in Nat
    BY DEF ReviewItem, Inv, Typed
  <1>6. \E C : knowledge' \in Seq(C)
    BY <1>3
  <1> QED BY <1>4, <1>5, <1>6, KnowledgeChanges

\* A promotion adds a version of the knowledge.
LEMMA PromoteInv ==
    ASSUME Inv, NEW c, Promote(c) PROVE Inv'
  <1>1. PICK k : knowledge' = Append(knowledge, k)
    BY DEF Promote
  <1>2. PICK B : knowledge \in Seq(B)
    BY DEF Inv, Typed
  <1>3. knowledge' \in Seq(B \cup {k}) /\ Len(knowledge') = Len(knowledge) + 1
    BY <1>1, <1>2, Appended
  <1>4. Active' \in Active .. MaxVersions
    <2>1. Active' = Active + 1 /\ Active < MaxVersions
      BY <1>3 DEF Active, Promote
    <2>2. Active \in Nat /\ MaxVersions \in Nat
      BY LifecycleAssumption DEF Inv, Typed
    <2> QED BY <2>1, <2>2
  <1>5. UNCHANGED <<proposal, touched, model, job, review, store, overlapped>>
        /\ changes' \in Nat
    BY DEF Promote, Inv, Typed, counters
  <1>6. \E C : knowledge' \in Seq(C)
    BY <1>3
  <1> QED BY <1>4, <1>5, <1>6, KnowledgeChanges

-----------------------------------------------------------------------------
\* Every step keeps the invariant.
LEMMA StepInv == Inv /\ [Next]_vars => Inv'
  <1> SUFFICES ASSUME Inv, [Next]_vars PROVE Inv'
    OBVIOUS
  <1>1. CASE Inference
    BY <1>1, QueueInferenceInv, PlanInferenceInv, AnswerInv, PersistInv DEF Inference
  <1>2. CASE Sync
    BY <1>2, QueueSyncInv, PrepareSyncInv, CheckSyncInv, UpsertInv, CleanInv DEF Sync
  <1>3. CASE Review
    BY <1>3, BeginReviewInv, CommitReviewInv DEF Review, Verdicts
  <1>4. CASE Govern
    BY <1>4, ReviewItemInv, PromoteInv DEF Govern
  <1>5. CASE Restart
    BY <1>5, RestartInv
  <1>6. CASE UNCHANGED vars
    <2>1. UNCHANGED <<knowledge, proposal, touched, overlapped, store, model, review, job, changes>>
      BY <1>6 DEF vars
    <2>2. /\ model' \in Models /\ changes' \in Nat
          /\ review' \in [Reviewers -> {NoReview} \cup ReviewRow]
          /\ \A r \in Reviewers : review'[r] # NoReview =>
                 /\ review'[r].proposal \in Proposals /\ ~Carried(review'[r].proposal)
                 /\ review'[r].revision = 0
      BY <2>1 DEF Inv, Typed, Reviewing
    <2> QED BY <2>1, <2>2, ReviewsChange
  <1> QED BY <1>1, <1>2, <1>3, <1>4, <1>5, <1>6 DEF Next

\* Every reachable state satisfies the invariant.
THEOREM Invariance == Spec => []Inv
  <1> QED BY InitInv, StepInv, PTL DEF Spec

-----------------------------------------------------------------------------
\* The invariant has the types.
LEMMA InvTypeOK == Inv => TypeOK
  <1> SUFFICES ASSUME Inv PROVE TypeOK
    OBVIOUS
  <1>1. PICK B : \A q \in Proposals : proposal[q] \in ProposalRow(B)
    BY RowFacts DEF Inv
  <1>2. ASSUME NEW q \in Proposals
        PROVE  /\ proposal[q].version \in 1 .. Active /\ proposal[q].source < q
               /\ proposal[q].origin \in {"generate", "reinference_required", "carry_forward"}
               /\ proposal[q].status \in Publishable \cup {"pending_review", "rejected"}
               /\ proposal[q].revision \in 0 .. 1
    BY <1>1 DEF Inv, Rows, ProposalRow, Origins, Statuses
  <1>3. \A r \in Reviewers : review[r].proposal \in 0 .. Len(proposal)
    <2>1. Len(proposal) \in Nat /\ Proposals = 1 .. Len(proposal)
      BY RowFacts DEF Inv
    <2> SUFFICES ASSUME NEW r \in Reviewers PROVE review[r].proposal \in 0 .. Len(proposal)
      OBVIOUS
    <2>2. CASE review[r] = NoReview
      BY <2>1, <2>2 DEF NoReview
    <2>3. CASE review[r] # NoReview
      BY <2>1, <2>3 DEF Inv, Reviewing
    <2> QED BY <2>2, <2>3
  <1>4. job.kind \in {"none", "inference", "sync"}
    BY JobFacts DEF Inv, Typed
  <1> QED BY <1>2, <1>3, <1>4 DEF Inv, Typed, Ordered, Stored, Reviewing, TypeOK

\* The rows, the reviews, the job and the documents are what they are said to be; the
\* order of the last updates has each proposal once.
THEOREM TypeCorrect == Spec => []TypeOK
  <1> QED BY Invariance, InvTypeOK, PTL

-----------------------------------------------------------------------------
(* A proposal enters once. *)

\* The step that stores a proposal.
LEMMA EntersOnce ==
    Inv /\ [Next]_vars =>
      [Len(proposal') > Len(proposal) =>
          LET p == proposal'[Len(proposal')]
          IN /\ p.evidence = Current /\ Eligible(Current)
             /\ SameGeneration(Current, p.model) = {}
             /\ p.origin = "carry_forward" =>
                    /\ PublishableOf(Active - 1) = {p.source}
                    /\ p.status = proposal[p.source].status
                    /\ p.payload = PayloadOf(proposal[p.source])]_vars
  <1> SUFFICES ASSUME Inv, Next, Len(proposal') > Len(proposal), NEW p,
                      p = proposal'[Len(proposal')]
               PROVE  /\ p.evidence = Current /\ Eligible(Current)
                      /\ SameGeneration(Current, p.model) = {}
                      /\ p.origin = "carry_forward" =>
                             /\ PublishableOf(Active - 1) = {p.source}
                             /\ p.status = proposal[p.source].status
                             /\ p.payload = PayloadOf(proposal[p.source])
    OBVIOUS
  <1>1. Len(proposal) \in Nat /\ ~(Len(proposal) > Len(proposal))
    BY RowFacts DEF Inv
  <1>2. proposal' # proposal
    BY <1>1
  <1>3. ~ \E r \in Reviewers : CommitReview(r)
    <2> SUFFICES ASSUME NEW r \in Reviewers, CommitReview(r) PROVE FALSE
      OBVIOUS
    <2>1. PICK q : q = review[r].proposal
      OBVIOUS
    <2>2. PICK x : /\ q \in Proposals /\ proposal' = [proposal EXCEPT ![q] = x]
                   /\ \E B : x \in ProposalRow(B)
      BY <2>1, DecideFacts DEF CommitReview
    <2>3. Len(proposal') = Len(proposal)
      BY <2>2, ProposalChanged DEF Inv
    <2> QED BY <1>1, <2>3
  <1>4. Persist /\ ContextHolds /\ Plan(Active) = job.plan
    BY <1>2, <1>3 DEF Next, Inference, Sync, Review, Govern, Restart, QueueInference,
       PlanInference, Answer, Persist, QueueSync, PrepareSync, CheckSync, Upsert, Clean,
       BeginReview, ReviewItem, Promote
  <1>5. /\ p = Proposed /\ Len(proposal') = Len(proposal) + 1
    <2>1. PICK row : row = Proposed
      OBVIOUS
    <2>2. PICK B : row \in ProposalRow(B)
      BY <1>4, <2>1, ProposedFacts DEF Persist
    <2>3. proposal' = Append(proposal, row)
      BY <1>4, <2>1 DEF Persist, Add
    <2> QED BY <2>1, <2>2, <2>3, ProposalAdded DEF Inv
  <1>6. /\ p.model = model /\ p.evidence = Current /\ ~Blocked(Active)
        /\ p.origin = "carry_forward" =>
                  /\ Inherits(Active) /\ p.source = Source(Active)
                  /\ p.status = proposal[Source(Active)].status
                  /\ p.payload = PayloadOf(proposal[Source(Active)])
    BY <1>4, <1>5, ProposedFacts DEF Persist
  <1>7. Eligible(Current)
    BY <1>4 DEF ContextHolds
  <1>8. SameGeneration(Current, model) = {}
    BY <1>6 DEF Blocked, Current
  <1>9. p.origin = "carry_forward" => PublishableOf(Active - 1) = {Source(Active)}
    BY <1>6, OnlySource DEF Inv
  <1> QED BY <1>6, <1>7, <1>8, <1>9

\* Whatever happened while the model was thinking, the proposal that
\* SemanticInferenceJobExecutor stores is about the evidence that the ACTIVE version
\* has then, the only one of its model, and carries forward the one decision on record.
THEOREM EnterOnce == Spec => ProposalsEnterOnce
  <1> QED BY Invariance, EntersOnce, PTL DEF Spec, ProposalsEnterOnce

-----------------------------------------------------------------------------
(* A sync leaves the usable. *)

\* The step that ends a sync.
LEMMA CleanLeavesTheUsable ==
    Inv /\ [Next]_vars =>
      [InJob("sync", "cleaning") /\ job' = NoJob /\ changes' = changes
          /\ Prepared = job.documents =>
          store' = Prepared]_vars
  <1> SUFFICES ASSUME Inv, Next, InJob("sync", "cleaning"), job' = NoJob, changes' = changes
               PROVE  store' = job.documents
    OBVIOUS
  <1>1. job # NoJob /\ job' # job
    BY DEF InJob, NoJob
  <1>2. ~Restart
    BY DEF Restart, Inv, Typed
  <1>3. Clean
    BY <1>1, <1>2 DEF Next, Inference, Sync, Review, Govern, QueueInference, PlanInference,
       Answer, Persist, QueueSync, PrepareSync, CheckSync, Upsert, InJob, BeginReview,
       CommitReview, ReviewItem, Promote
  <1>4. /\ job.documents \subseteq store
        /\ \A d \in store, e \in job.documents : e.proposal = d.proposal => d \in job.documents
    BY DEF Inv, Stored
  <1> QED BY <1>3, <1>4 DEF Clean

\* The two writes of SemanticChromaRepository.sync leave in the collection what prepare
\* would take from PostgreSQL at that moment, whatever was there before.
THEOREM SyncLeavesTheUsable == Spec => SyncLeavesTheUsableOnly
  <1> QED BY Invariance, CleanLeavesTheUsable, PTL DEF Spec, SyncLeavesTheUsableOnly

-----------------------------------------------------------------------------
(* The package shows reviewed items only. *)

\* _relation_candidates looks at the review.
LEMMA RelatedReviewed ==
    ASSUME NEW k, NEW kind, NEW owners, NEW i \in Related(k, kind, owners)
    PROVE  Reviewed(k, i)
  BY DEF Related

\* The fields and the events that are candidates are reviewed.
LEMMA CandidatesReviewed ==
    ASSUME NEW k, NEW kind \in {"field", "event"}, NEW i \in Candidates(k, kind)
    PROVE  Reviewed(k, i)
  <1>1. CASE kind = "event"
    BY <1>1, RelatedReviewed DEF Candidates, ValidEvents
  <1>2. CASE kind = "field"
    BY <1>2, RelatedReviewed DEF Candidates
  <1> QED BY <1>1, <1>2

\* Every part that is shown is reviewed.
LEMMA PartsReviewed ==
    ASSUME NEW k, NEW i \in Parts(k)
    PROVE  Reviewed(k, i)
  <1>1. \A S, n : First(S, n) \subseteq S
    BY DEF First
  <1>2. \A S : Distinct(k, S) \subseteq S
    BY DEF Distinct
  <1>3. \A S : Labelled(k, S) \subseteq S
    BY DEF Labelled
  <1>4. ASSUME NEW kind \in {"field", "event"},
               i \in First(Distinct(k, Labelled(k, Candidates(k, kind))), Limit[kind])
        PROVE  Reviewed(k, i)
    <2>1. i \in Candidates(k, kind)
      BY <1>1, <1>2, <1>3, <1>4, Zenon
    <2> QED BY <2>1, CandidatesReviewed
  <1>5. CASE i \in ListedControls(k)
    <2>1. i \in Controls(k)
      BY <1>1, <1>2, <1>3, <1>5, Zenon DEF ListedControls
    <2> QED BY <2>1, RelatedReviewed DEF Controls
  <1>6. CASE i \in ListedStates(k)
    <2>1. i \in States(k)
      BY <1>1, <1>3, <1>6, Zenon DEF ListedStates
    <2> QED BY <2>1, RelatedReviewed DEF States
  <1>7. CASE i \in ListedTables(k)
    <2>1. i \in Tables(k)
      BY <1>1, <1>7, Zenon DEF ListedTables
    <2> QED BY <2>1, RelatedReviewed DEF Tables
  <1>8. CASE i \in Projected(k)
    <2>1. i \in Transitions(k)
      BY <1>1, <1>8 DEF Projected
    <2> QED BY <2>1 DEF Transitions
  <1>9. ASSUME NEW t \in ListedTables(k), i \in ListedColumns(k, t)
        PROVE  Reviewed(k, i)
    <2>1. i \in Related(k, "column", {t})
      BY <1>1, <1>2, <1>3, <1>9, Zenon DEF ListedColumns
    <2> QED BY <2>1, RelatedReviewed
  <1>10. \/ \E kind \in {"field", "event"} :
               i \in First(Distinct(k, Labelled(k, Candidates(k, kind))), Limit[kind])
         \/ i \in ListedControls(k) \/ i \in ListedStates(k) \/ i \in ListedTables(k)
         \/ i \in Projected(k)
         \/ \E t \in ListedTables(k) : i \in ListedColumns(k, t)
    <2> DEFINE P(kind) == First(Distinct(k, Labelled(k, Candidates(k, kind))), Limit[kind])
               A == UNION {P(kind) : kind \in {"field", "event"}}
               C == UNION {ListedColumns(k, t) : t \in ListedTables(k)}
    <2>1. Parts(k) = A \cup ListedControls(k) \cup ListedStates(k) \cup ListedTables(k)
                       \cup Projected(k) \cup C
      BY DEF Parts
    <2>2. CASE i \in A
      BY <2>2
    <2>3. CASE i \in C
      BY <2>3
    <2> HIDE DEF A, C
    <2> QED BY <2>1, <2>2, <2>3
  <1> QED BY <1>4, <1>5, <1>6, <1>7, <1>8, <1>9, <1>10

\* What a claim may refer to is reviewed, and so is the screen and what owns it.
LEMMA ClaimableReviewed ==
    ASSUME NEW v, NEW k, Package(v, k) # NoPackage
    PROVE  /\ Reviewed(k, Screen)
           /\ Effective(k, Screen).of # None => Reviewed(k, Effective(k, Screen).of)
           /\ \A i \in Claimable(Package(v, k)) : Reviewed(k, i)
  <1>1. Buildable(k)
    BY DEF Package
  <1>2. DOMAIN Package(v, k).parts = Parts(k)
    BY <1>1 DEF Package
  <1>3. Claimable(Package(v, k)) \subseteq Parts(k)
    BY <1>2 DEF Claimable
  <1> QED BY <1>1, <1>3, PartsReviewed DEF Buildable

\* The invariant and authorize_hits together.
LEMMA InvSupported == Inv => AnswersAreSupported
  <1> SUFFICES ASSUME Inv, NEW d \in Authorized, NEW q, q = d.proposal, NEW claims,
                      claims = PayloadOf(proposal[q]).claims, NEW k, k = knowledge[Active],
                      NEW owner, owner = Effective(k, Screen).of
               PROVE  /\ Reviewed(k, Screen) /\ owner # None => Reviewed(k, owner)
                      /\ \A s \in DOMAIN claims :
                             claims[s] # {} /\ \A i \in claims[s] : Reviewed(k, i)
    BY DEF AnswersAreSupported
  <1>1. q \in Proposals /\ Usable(q)
    BY DEF Authorized, Inv, Stored
  <1>2. Eligible(Current) /\ Grounded(PayloadOf(proposal[q]), Current)
    BY <1>1 DEF Usable
  <1>3. Current = Package(Active, k)
    BY DEF Current, PackageOf
  <1>4. /\ Reviewed(k, Screen) /\ owner # None => Reviewed(k, owner)
        /\ \A i \in Claimable(Current) : Reviewed(k, i)
    BY <1>2, <1>3, ClaimableReviewed DEF Eligible
  <1>5. \A s \in DOMAIN claims : claims[s] \subseteq Claimable(Current)
    BY <1>2 DEF Grounded
  <1>6. PICK B : proposal[q] \in ProposalRow(B)
    BY <1>1, RowFacts DEF Inv
  <1>7. Cited(PayloadOf(proposal[q]))
    BY <1>1, <1>6, PayloadFacts DEF Inv, Rows
  <1> QED BY <1>4, <1>5, <1>7 DEF Cited

\* Whatever the structural reviewers do and the model answers, every reference of a
\* statement that SemanticRetrievalAuthorizationService.authorize_hits lets through is
\* an item that is approved or corrected at that moment.
THEOREM Supported == Spec => []AnswersAreSupported
  <1> QED BY Invariance, InvSupported, PTL

-----------------------------------------------------------------------------
(* Where the words were reviewed. *)

Step(g, p) == IF Carried(p) THEN g[proposal[p].source] ELSE p

\* The chain of sources ends, since a source is older.
LEMMA RootExists ==
    ASSUME Inv
    PROVE  \E g : g = [p \in Proposals |-> Step(g, p)]
  <1> DEFINE Upto(n) == \E g : g = [p \in 1 .. n |-> Step(g, p)]
             Bad == {n \in 0 .. Len(proposal) : ~Upto(n)}
  <1>1. Len(proposal) \in Nat /\ Proposals = 1 .. Len(proposal)
    BY RowFacts DEF Inv
  <1>2. ASSUME Bad # {} PROVE FALSE
    <2>1. PICK n \in Bad : \A m \in Bad : n <= m
      <3>1. Bad \in SUBSET Nat
        BY <1>1
      <3> HIDE DEF Bad
      <3> QED BY <1>2, <3>1, Smallest
    <2>2. n \in 0 .. Len(proposal) /\ ~Upto(n)
      BY <2>1
    <2>3. CASE n = 0
      <3> DEFINE g == [p \in 1 .. 0 |-> p]
      <3>1. \A p : p \notin 1 .. 0
        OBVIOUS
      <3>2. g = [p \in 1 .. 0 |-> Step(g, p)]
        BY <3>1
      <3> QED BY <2>2, <2>3, <3>2
    <2>4. CASE n # 0
      <3>1. n - 1 \in 0 .. Len(proposal) /\ ~(n <= n - 1) /\ n \in Proposals
        BY <1>1, <2>2, <2>4
      <3>2. n - 1 \notin Bad
        BY <2>1, <3>1
      <3>3. Upto(n - 1)
        BY <3>1, <3>2
      <3> HIDE DEF Bad
      <3>4. PICK g : g = [p \in 1 .. n - 1 |-> Step(g, p)]
        BY <3>3
      <3> DEFINE h == [p \in 1 .. n |-> IF p = n THEN Step(g, n) ELSE g[p]]
      <3>5. ASSUME NEW p \in 1 .. n PROVE h[p] = Step(h, p)
        <4>1. p \in Proposals
          BY <1>1, <3>1, <3>5
        <4>2. Carried(p) => proposal[p].source \in 1 .. n - 1
          <5>1. Carried(p) => proposal[p].source \in Proposals /\ proposal[p].source < p
            BY <4>1 DEF Inv, Rows, Inherited
          <5> QED BY <1>1, <2>2, <3>5, <5>1
        <4>3. Carried(p) => h[proposal[p].source] = g[proposal[p].source]
          BY <1>1, <2>2, <4>2
        <4>4. Step(h, p) = Step(g, p)
          BY <4>3 DEF Step
        <4>5. p # n => g[p] = Step(g, p)
          <5>1. p # n => p \in 1 .. n - 1
            BY <1>1, <2>2
          <5> QED BY <3>4, <5>1
        <4> QED BY <4>4, <4>5
      <3>6. h = [p \in 1 .. n |-> Step(h, p)]
        <4>1. h = [p \in 1 .. n |-> h[p]]
          OBVIOUS
        <4> HIDE DEF h
        <4> QED BY <3>5, <4>1
      <3> HIDE DEF h
      <3>7. Upto(n)
        BY <3>6
      <3> QED BY <2>2, <3>7
    <2> QED BY <2>3, <2>4
  <1>3. Upto(Len(proposal))
    BY <1>1, <1>2
  <1> QED BY <1>1, <1>3

\* What Root computes.
LEMMA RootFacts ==
    ASSUME Inv
    PROVE  \A q \in Proposals :
               Root(q) = IF Carried(q) THEN Root(proposal[q].source) ELSE q
  <1> DEFINE root == CHOOSE g : g = [p \in Proposals |->
                         IF proposal[p].origin = "carry_forward" THEN g[proposal[p].source] ELSE p]
  <1>1. \A q : Root(q) = root[q]
    BY Zenon DEF Root
  <1>2. \E g : g = [p \in Proposals |->
                  IF proposal[p].origin = "carry_forward" THEN g[proposal[p].source] ELSE p]
    BY RootExists DEF Step, Carried
  <1>3. root = [p \in Proposals |->
                  IF proposal[p].origin = "carry_forward" THEN root[proposal[p].source] ELSE p]
    BY <1>2, Zenon
  <1> HIDE DEF root
  <1> QED BY <1>1, <1>3 DEF Carried

\* Compatible evidence is evidence that says the same but for its version.
LEMMA CompatibleFacts ==
    ASSUME NEW p, NEW q, NEW r
    PROVE  Compatible(p, p) /\ (Compatible(p, q) /\ Compatible(q, r) => Compatible(p, r))
  BY DEF Compatible

\* Through any number of versions: the root was decided by a person, about the same
\* evidence and with the same words.
LEMMA RootReviewed ==
    ASSUME Inv
    PROVE  \A q \in Proposals :
               LET p == proposal[q]
                   root == proposal[Root(q)]
               IN /\ Carried(q) \/ p.decided => root.decided
                  /\ Compatible(root.evidence, p.evidence)
                  /\ Root(q) \in overlapped \/ PayloadOf(p) = PayloadOf(root)
  <1> DEFINE Good(q) == /\ Carried(q) \/ proposal[q].decided => proposal[Root(q)].decided
                        /\ Compatible(proposal[Root(q)].evidence, proposal[q].evidence)
                        /\ \/ Root(q) \in overlapped
                           \/ PayloadOf(proposal[q]) = PayloadOf(proposal[Root(q)])
             Bad == {q \in Proposals : ~Good(q)}
  <1>1. ASSUME Bad # {} PROVE FALSE
    <2>1. PICK q \in Bad : \A m \in Bad : q <= m
      <3>1. Bad \in SUBSET Nat
        BY RowFacts DEF Inv
      <3> HIDE DEF Bad
      <3> QED BY <1>1, <3>1, Smallest
    <2>2. q \in Proposals /\ ~Good(q)
      BY <2>1
    <2>3. CASE ~Carried(q)
      <3>1. Root(q) = q
        BY <2>2, <2>3, RootFacts
      <3>2. Good(q)
        BY <2>3, <3>1, CompatibleFacts
      <3> QED BY <2>2, <3>2
    <2>4. CASE Carried(q)
      <3>1. PICK s : s = proposal[q].source
        OBVIOUS
      <3>2. /\ s \in Proposals /\ s < q
            /\ Carried(s) \/ proposal[s].decided
            /\ Compatible(proposal[s].evidence, proposal[q].evidence)
            /\ s \in overlapped \/ PayloadOf(proposal[q]) = PayloadOf(proposal[s])
            /\ s \in overlapped => ~Carried(s)
        BY <2>2, <2>4, <3>1 DEF Inv, Rows, Inherited, Reviewing
      <3>3. Good(s)
        <4>1. ~(q <= s)
          BY <2>2, <3>2, RowFacts DEF Inv
        <4> QED BY <2>1, <3>2, <4>1
      <3>4. Root(q) = Root(s) /\ (~Carried(s) => Root(s) = s)
        BY <2>2, <2>4, <3>1, <3>2, RootFacts
      <3>5. Good(q)
        <4>1. proposal[Root(q)].decided
          BY <3>2, <3>3, <3>4
        <4>2. Compatible(proposal[Root(q)].evidence, proposal[q].evidence)
          BY <3>2, <3>3, <3>4, CompatibleFacts
        <4>3. Root(q) \in overlapped \/ PayloadOf(proposal[q]) = PayloadOf(proposal[Root(q)])
          BY <3>2, <3>3, <3>4
        <4> QED BY <4>1, <4>2, <4>3
      <3> QED BY <2>2, <3>5
    <2> QED BY <2>3, <2>4
  <1> QED BY <1>1

\* The same for what an answer may use.
LEMMA InvReviewedWords == Inv => AnswersUseReviewedWords
  <1> SUFFICES ASSUME Inv, NEW d \in Authorized, NEW q, q = d.proposal
               PROVE  /\ proposal[Root(q)].decided
                      /\ Compatible(proposal[Root(q)].evidence, Current)
                      /\ \/ Root(q) \in overlapped
                         \/ PayloadOf(proposal[q]) = PayloadOf(proposal[Root(q)])
    BY DEF AnswersUseReviewedWords
  <1>1. q \in Proposals /\ Usable(q)
    BY DEF Authorized, Inv, Stored
  <1>2. proposal[q].status \in Publishable /\ proposal[q].evidence = Current
    BY <1>1 DEF Usable
  <1>3. Carried(q) \/ proposal[q].decided
    BY <1>1, <1>2 DEF Inv, Rows
  <1> QED BY <1>1, <1>2, <1>3, RootReviewed

\* Through any number of versions that SemanticLifecyclePlanner carried it forward, a
\* proposal that an answer may use has the words a person decided on, about the
\* evidence the screen has now; two requests that review it at once are the exception.
THEOREM ReviewedWords == Spec => []AnswersUseReviewedWords
  <1> QED BY Invariance, InvReviewedWords, PTL

=============================================================================
