--------------------------- MODULE ChatTurnsProofs ---------------------------
(***************************************************************************)
(* What ChatTurns promises for any number of conversations, versions and   *)
(* items, whatever is asked, reviewed and promoted and however old the     *)
(* indexes are.  The inductive invariant has eight parts:                  *)
(*   WorldTyped  the types of everything but the turn                      *)
(*   StoreSound  one entry per conversation, within the capacity           *)
(*   StoreEarned the contexts kept rest on what was shown                  *)
(*   TurnTyped   the fields a turn has in each phase                       *)
(*   TurnSound   the contexts a turn handles are of their types            *)
(*   Governed    what the turn calls seen is what was reviewed meanwhile   *)
(*   TurnEarned  the context in use and the one to be kept were shown      *)
(*   AskedBack   homonyms stay in the resolution until a screen is named,  *)
(*               unless the question finds more than the resolver keeps    *)
(* StoreEarned needs TurnEarned and the other way round: a turn keeps what *)
(* it loaded.                                                              *)
(***************************************************************************)
EXTENDS ChatTurns, SublistTheorems, FiniteSetTheorems, TLAPS

(***************************************************************************)
(* The parts of the inductive invariant.                                   *)
(***************************************************************************)

Running == turn.phase # "idle"
Asking  == turn.phase \in {"asked", "routed"}
Looking == turn.phase \in {"understood", "narrowed", "searched"}

\* A sequence, over the set of its elements.
IsList(s) == s \in Seq(Elements(s))

\* A turn is a record, of other fields in each part of its life.
AskedFields(t) ==
    [phase |-> t.phase, conv |-> t.conv, q |-> t.q, route |-> t.route,
     condition |-> t.condition, graph |-> t.graph,
     loaded |-> t.loaded, prev |-> t.prev, hinted |-> t.hinted]
ReadFields(t) ==
    [phase |-> t.phase, conv |-> t.conv, q |-> t.q, condition |-> t.condition, graph |-> t.graph,
     loaded |-> t.loaded, prev |-> t.prev, hinted |-> t.hinted,
     version |-> t.version, r |-> t.r, mode |-> t.mode, inherited |-> t.inherited,
     semantic |-> t.semantic, fused |-> t.fused, seeds |-> t.seeds, walks |-> t.walks,
     seen |-> t.seen, touched |-> t.touched]
DoneFields(t) ==
    [conv |-> t.conv, q |-> t.q, version |-> t.version, mode |-> t.mode, inherited |-> t.inherited,
     loaded |-> t.loaded, hinted |-> t.hinted, seen |-> t.seen, touched |-> t.touched,
     phase |-> t.phase, evidence |-> t.evidence, ids |-> t.ids, decision |-> t.decision,
     next |-> t.next]

Pairs == Versions \X (Item \cup {0})
StoreRow == [conv : Conversations, state : States]

\* The variables other than the turn.
WorldTyped ==
    /\ know = [v \in Versions |-> know[v]] /\ \A v \in Versions : know[v] \in [Imported[v] -> Rows]
    /\ active \in Versions
    /\ graph \in [Versions -> SUBSET Item] /\ \A v \in Versions : graph[v] \subseteq Imported[v]
    /\ store \in Seq(StoreRow)
    /\ turns \in 0..MaxTurns /\ reviews \in 0..MaxReviews
    /\ known \in [Conversations -> SUBSET Pairs]
    /\ since \in [Conversations -> [screen : Nat, module : Nat]]

\* The turn, and what it found.
TurnTyped ==
    /\ turn.phase \in {"idle", "asked", "routed", "understood", "narrowed", "searched", "writing", "decided"}
    /\ (Asking => turn = AskedFields(turn)) /\ (Looking => turn = ReadFields(turn))
    /\ Concluding => turn = DoneFields(turn)
    /\ Running => /\ turns < MaxTurns /\ turn.conv \in Conversations /\ turn.q \in Questions
                  /\ turn.loaded \in States /\ turn.hinted \in SUBSET Pairs
    /\ (Asking \/ Looking) => turn.prev \in States
    /\ Reading => /\ turn.version \in Versions /\ turn.inherited \in Entities
                  /\ turn.seen \in SUBSET Item /\ turn.touched \in SUBSET Item
    /\ Looking => IsFiniteSet(turn.r)
    /\ turn.phase = "searched" =>
        /\ turn.semantic \in Seq(Item) /\ IsList(turn.fused)
        /\ IsList(turn.walks) /\ \A w \in Elements(turn.walks) : IsFiniteSet(Nodes(w))
    /\ Concluding => /\ turn.evidence.sources \in Seq(Item)
                     /\ turn.next \in States /\ turn.next.version = turn.version

\* Conversations hold one entry each, with a screen for a screen and a module for a module.
Sensible(state) ==
    /\ state.screen # NoEntity => TypeOf[state.screen.id] = "screen"
    /\ state.module # NoEntity => TypeOf[state.module.id] = "module"
Distinct(s) == \A m, n \in DOMAIN s : s[m].conv = s[n].conv => m = n
StoreSound ==
    /\ Len(store) <= MaxEntries /\ Distinct(store)
    /\ \A e \in Elements(store) : e.state.version # 0 /\ Sensible(e.state)
TurnSound ==
    /\ Running => Sensible(turn.loaded)
    /\ (Asking \/ Looking) => Sensible(turn.prev)
    /\ Concluding => Sensible(turn.next)

\* What the turn calls seen are the items reviewed while it ran, and what it did not see
\* touched is as it was.
Governed ==
    /\ Reading => /\ Reviewed(know[turn.version]) \subseteq turn.seen
                  /\ turn.seen \ turn.touched \subseteq Reviewed(know[turn.version])
    /\ turn.phase = "searched" => Elements(turn.semantic) \subseteq turn.seen
    /\ AnswersAreGoverned

\* A context rests on what was shown, and its module is not older than its screen.
EarnedBy(state, shown) ==
    /\ state.screen # NoEntity => <<state.version, state.screen.id>> \in shown
    /\ state.module # NoEntity => <<state.version, state.module.id>> \in shown
InOrderOf(state, c) == state.module # NoEntity => since[c].module >= since[c].screen
ModuleIn(sources) == \E i \in Elements(sources) : TypeOf[i] = "module"
Told(v, sources) ==
    {<<v, i>> : i \in {j \in Elements(sources) : TypeOf[j] \in {"screen", "module"}}}
StoreEarned ==
    /\ \A e \in Elements(store) : EarnedBy(e.state, known[e.conv]) /\ InOrderOf(e.state, e.conv)
    /\ \A c \in Conversations : since[c].screen <= turns /\ since[c].module <= turns
TurnEarned ==
    /\ Running => InOrderOf(turn.loaded, turn.conv)
    /\ (Asking \/ Looking) =>
        /\ EarnedBy(turn.prev, known[turn.conv] \cup turn.hinted)
        /\ turn.prev = turn.loaded \/ turn.prev.module = NoEntity
    /\ (Reading /\ turn.mode = "CONTEXTUALIZED") =>
        <<turn.version, turn.inherited.id>> \in known[turn.conv] \cup turn.hinted
    /\ Concluding =>
        /\ EarnedBy(turn.next, known[turn.conv] \cup turn.hinted
                                  \cup Told(turn.version, turn.evidence.sources))
        /\ turn.next.module # NoEntity =>
            \/ ModuleIn(turn.evidence.sources)
            \/ turn.next.screen.id = turn.loaded.screen.id /\ turn.loaded.module # NoEntity

\* Homonyms stay among the entities found until the question is narrowed to a screen, when the
\* limits of the resolver leave room for what the question names.
Settled == OneReading \/ Crowded
FoundAs(k, q, i) ==
    [id |-> i, label |-> Matched(k, i), score |-> Score(k, q, i),
     place |-> Place(Targets[q.intent], TypeOf[i])]
AskedBack ==
    /\ turn.phase = "understood" =>
        \A i \in Item :
            (/\ Firm(i) /\ TypeOf[i] \in Elements(Targets[turn.q.intent])
             /\ Named(i) /\ ~Crowded)
                => FoundAs(know[turn.version], turn.q, i) \in turn.r
    /\ (turn.phase \in {"narrowed", "searched"} /\ turn.mode = "DIRECT" /\ ~turn.q.executes) =>
        Ambiguous(turn.r) # {} \/ Settled
    /\ turn.phase = "writing" => turn.decision \in Answers
    /\ AmbiguityIsAsked

StoreInv == WorldTyped /\ StoreSound /\ StoreEarned
TurnInv  == TurnTyped /\ TurnSound /\ Governed /\ TurnEarned /\ AskedBack
Inv      == StoreInv /\ TurnInv

------------------------------------------------------------------------------
(* Lists: sequences, over the set of their elements. *)

\* A sequence over a set is a list of elements of the set.
LEMMA ListFacts ==
    ASSUME NEW S, NEW s \in Seq(S)
    PROVE  /\ Elements(s) \subseteq S /\ IsList(s) /\ IsFiniteSet(Elements(s))
           /\ Len(s) \in Nat /\ DOMAIN s = 1 .. Len(s)
           /\ s # <<>> => Head(s) \in Elements(s)
  <1>1. Len(s) \in Nat /\ DOMAIN s = 1 .. Len(s) /\ \A n \in 1 .. Len(s) : s[n] \in S
    OBVIOUS
  <1>2. Elements(s) \subseteq S
    BY <1>1 DEF Elements
  <1>3. \A n \in 1 .. Len(s) : s[n] \in Elements(s)
    BY <1>1 DEF Elements
  <1>4. s = [n \in 1 .. Len(s) |-> s[n]]
    BY <1>1
  <1>5. IsList(s)
    <2>1. SubSeq(s, 1, Len(s)) \in Seq(Elements(s))
      BY <1>1, <1>3, SubSeqProperties
    <2>2. SubSeq(s, 1, Len(s)) = s
      BY SubSeqFull
    <2> QED BY <2>1, <2>2 DEF IsList
  <1>6. s \in Surjection(1 .. Len(s), Elements(s))
    BY <1>1, <1>3, <1>4 DEF Surjection, Elements
  <1>7. IsFiniteSet(1 .. Len(s))
    BY <1>1, FS_Interval
  <1>8. IsFiniteSet(Elements(s))
    BY <1>6, <1>7, FS_Surjection
  <1>9. s # <<>> => Head(s) \in Elements(s)
    <2>1. s \in Seq(Elements(s))
      BY <1>5 DEF IsList
    <2> QED BY <2>1, HeadTailProperties
  <1> QED BY <1>1, <1>2, <1>5, <1>8, <1>9

\* The first n values of a function are a list.
LEMMA PrefixFacts ==
    ASSUME NEW f, NEW n \in Nat
    PROVE  /\ IsList(SubSeq(f, 1, n)) /\ Len(SubSeq(f, 1, n)) = n
           /\ \A i \in 1 .. n : SubSeq(f, 1, n)[i] = f[i]
           /\ Elements(SubSeq(f, 1, n)) = {f[i] : i \in 1 .. n}
  <1> DEFINE V == {f[i] : i \in 1 .. n}
  <1>1. \A i \in 1 .. n : f[i] \in V
    OBVIOUS
  <1> HIDE DEF V
  <1>2. PICK s : s = SubSeq(f, 1, n)
    OBVIOUS
  <1>3. /\ s \in Seq(V) /\ Len(s) = n /\ \A i \in 1 .. n : s[i] = f[i]
    BY <1>1, <1>2, SubSeqProperties
  <1>4. IsList(s) /\ DOMAIN s = 1 .. n
    BY <1>3, ListFacts
  <1>5. Elements(s) = {f[i] : i \in 1 .. n}
    BY <1>3, <1>4 DEF Elements
  <1> QED BY <1>2, <1>3, <1>4, <1>5

\* Two lists, one after the other.
LEMMA JoinedFacts ==
    ASSUME NEW s, NEW t, IsList(s), IsList(t)
    PROVE  IsList(s \o t) /\ Elements(s \o t) \subseteq Elements(s) \cup Elements(t)
  <1>1. PICK U : U = Elements(s) \cup Elements(t)
    OBVIOUS
  <1>2. s \in Seq(U) /\ t \in Seq(U)
    BY <1>1, SeqMonotonic DEF IsList
  <1>3. s \o t \in Seq(U)
    BY <1>2, ConcatProperties
  <1> QED BY <1>1, <1>3, ListFacts

\* What Within keeps is a list of the elements that are in the set.
LEMMA WithinList ==
    ASSUME NEW s, NEW S, IsList(s)
    PROVE  /\ Within(s, S) \in Seq(S) /\ IsList(Within(s, S))
           /\ Elements(Within(s, S)) = Elements(s) \cap S
  <1>1. Len(s) \in Nat /\ DOMAIN s = 1 .. Len(s)
    BY ListFacts DEF IsList
  <1>2. PICK w : w = Within(s, S)
    OBVIOUS
  <1>3. /\ w \in Seq(S)
        /\ \A x : (\E k \in DOMAIN w : w[k] = x) <=> x \in S /\ \E k \in 1 .. Len(s) : s[k] = x
    BY <1>1, <1>2, WithinFacts
  <1>4. IsList(w)
    BY <1>3, ListFacts
  <1>5. Elements(w) = Elements(s) \cap S
    BY <1>1, <1>3 DEF Elements
  <1> QED BY <1>2, <1>3, <1>4, <1>5

\* The first n elements of a list.
LEMMA UptoFacts ==
    ASSUME NEW s, NEW n \in Nat, IsList(s)
    PROVE  IsList(Upto(s, n)) /\ Elements(Upto(s, n)) \subseteq Elements(s)
  <1>1. Len(s) \in Nat /\ DOMAIN s = 1 .. Len(s)
    BY ListFacts DEF IsList
  <1>2. PICK l \in Nat : l = Len(s)
    BY <1>1
  <1>3. PICK m \in Nat : m = IF l < n THEN l ELSE n
    BY <1>2
  <1>4. Upto(s, n) = SubSeq(s, 1, m)
    BY <1>2, <1>3 DEF Upto
  <1>5. 1 .. m \subseteq 1 .. Len(s)
    <2>1. m <= l
      BY <1>3
    <2> QED BY <1>2, <2>1
  <1>6. {s[i] : i \in 1 .. m} \subseteq Elements(s)
    BY <1>1, <1>5 DEF Elements
  <1> QED BY <1>4, <1>6, PrefixFacts

\* A strict total order of the set S.
OrderOf(R, S) ==
    /\ \A x \in S : <<x, x>> \notin R
    /\ \A x, y \in S : x # y => <<x, y>> \in R \/ <<y, x>> \in R
    /\ \A x, y, z \in S : <<x, y>> \in R /\ <<y, z>> \in R => <<x, z>> \in R

\* In a finite set with a strict total order, every position is somebody's.
LEMMA RanksAreTaken ==
    ASSUME NEW S, IsFiniteSet(S), NEW R, OrderOf(R, S), NEW n \in 1 .. Cardinality(S)
    PROVE  \E x \in S : Cardinality({y \in S : <<y, x>> \in R}) = n - 1
  <1> USE DEF OrderOf
  <1> DEFINE below(x) == {y \in S : <<y, x>> \in R}
  <1>1. PICK c : c = Cardinality(S)
    OBVIOUS
  <1>2. c \in Nat
    BY <1>1, FS_CardinalityType
  <1>3. PICK f : f = [x \in S |-> Cardinality(below(x))]
    OBVIOUS
  <1>4. ASSUME NEW x \in S, NEW T \in SUBSET S, x \notin T
        PROVE  IsFiniteSet(T) /\ Cardinality(T) \in Nat /\ Cardinality(T) < c
    <2>1. IsFiniteSet(T) /\ Cardinality(T) \in Nat /\ Cardinality(T) <= c
      BY <1>1, FS_Subset, FS_CardinalityType
    <2>2. Cardinality(T) # c
      BY <1>1, <1>4, FS_Subset
    <2> QED BY <1>2, <2>1, <2>2
  <1>5. \A x \in S : f[x] \in 0 .. c - 1
    <2> TAKE x \in S
    <2>1. below(x) \in SUBSET S /\ x \notin below(x)
      OBVIOUS
    <2> HIDE DEF below
    <2>2. Cardinality(below(x)) \in Nat /\ Cardinality(below(x)) < c
      BY <1>4, <2>1
    <2> QED BY <1>2, <1>3, <2>2
  <1>6. ASSUME NEW x \in S, NEW y \in S, <<x, y>> \in R PROVE f[x] < f[y]
    <2>1. below(x) \subseteq below(y) /\ x \in below(y) /\ x \notin below(x) /\ below(y) \in SUBSET S
      BY <1>6
    <2> HIDE DEF below
    <2>2. IsFiniteSet(below(y))
      BY <2>1, FS_Subset
    <2>3. Cardinality(below(x)) \in Nat /\ Cardinality(below(y)) \in Nat
      BY <2>1, <2>2, FS_CardinalityType, FS_Subset
    <2>4. Cardinality(below(x)) <= Cardinality(below(y)) /\ Cardinality(below(x)) # Cardinality(below(y))
      BY <2>1, <2>2, FS_Subset
    <2> QED BY <1>3, <2>3, <2>4
  <1>7. \A x, y \in S : f[x] = f[y] => x = y
    <2> TAKE x, y \in S
    <2>1. f[x] \in Int /\ f[y] \in Int
      BY <1>2, <1>5
    <2>2. <<x, y>> \in R => f[x] < f[y]
      BY <1>6
    <2>3. <<y, x>> \in R => f[y] < f[x]
      BY <1>6
    <2> QED BY <2>1, <2>2, <2>3
  <1>8. f \in [S -> 0 .. c - 1]
    BY <1>3, <1>5
  <1>9. f \in Injection(S, 0 .. c - 1)
    BY <1>7, <1>8 DEF Injection, IsInjective
  <1>10. IsFiniteSet(0 .. c - 1) /\ Cardinality(0 .. c - 1) = c
    <2>1. 0 \in Int /\ c - 1 \in Int
      BY <1>2
    <2>2. /\ IsFiniteSet(0 .. c - 1)
          /\ Cardinality(0 .. c - 1) = IF 0 > c - 1 THEN 0 ELSE (c - 1) - 0 + 1
      BY <2>1, FS_Interval
    <2> QED BY <1>2, <2>2
  <1>11. f \in Surjection(S, 0 .. c - 1)
    BY <1>1, <1>9, <1>10, FS_Injection
  <1>12. n - 1 \in 0 .. c - 1
    BY <1>1, <1>2
  <1>13. \E x \in S : f[x] = n - 1
    BY <1>11, <1>12 DEF Surjection
  <1> QED BY <1>3, <1>13

------------------------------------------------------------------------------
(* Rankings, walks and candidates are lists. *)

\* What is compared are reviewed items of the types wanted, within the scope.
LEMMA ComparedFacts ==
    ASSUME NEW k, NEW q, NEW types, NEW within, NEW i \in Compared(k, q, types, within)
    PROVE  i \in Reviewed(k) /\ i \in within /\ TypeOf[i] \in Elements(types)
  BY DEF Compared, Fetched

\* The records found for a question are finite in number, and reviewed.
LEMMA ResolveFacts ==
    ASSUME NEW k, DOMAIN k \in SUBSET Item, NEW q, NEW types, NEW within
    PROVE  /\ IsFiniteSet(Resolve(k, q, types, within))
           /\ \A c \in Resolve(k, q, types, within) :
                /\ c.id \in Reviewed(k) /\ TypeOf[c.id] \in Elements(types)
                /\ c.label = Matched(k, c.id) /\ c.score = q.says[Matched(k, c.id)]
  <1>1. PICK f : f = [i \in Compared(k, q, types, within) |->
                [id |-> i, label |-> Matched(k, i), score |-> Score(k, q, i), place |-> Place(types, TypeOf[i])]]
    OBVIOUS
  <1>2. Compared(k, q, types, within) \in SUBSET Item
    BY ComparedFacts DEF Reviewed
  <1>3. IsFiniteSet(Compared(k, q, types, within))
    BY <1>2, ItemAssumption, FS_Subset
  <1>4. Found(k, q, types, within) = {f[i] : i \in Compared(k, q, types, within)}
    BY <1>1 DEF Found
  <1>5. f \in Surjection(Compared(k, q, types, within), Found(k, q, types, within))
    BY <1>1, <1>4 DEF Surjection
  <1>6. IsFiniteSet(Found(k, q, types, within))
    BY <1>3, <1>5, FS_Surjection
  <1>7. Resolve(k, q, types, within) \in SUBSET Found(k, q, types, within)
    BY DEF Resolve
  <1>8. ASSUME NEW c \in Resolve(k, q, types, within)
        PROVE  /\ c.id \in Reviewed(k) /\ TypeOf[c.id] \in Elements(types)
               /\ c.label = Matched(k, c.id) /\ c.score = q.says[Matched(k, c.id)]
    <2>1. PICK i \in Compared(k, q, types, within) :
            c = [id |-> i, label |-> Matched(k, i), score |-> Score(k, q, i), place |-> Place(types, TypeOf[i])]
      BY <1>7 DEF Found
    <2>2. i \in Reviewed(k) /\ TypeOf[i] \in Elements(types)
      BY ComparedFacts
    <2> QED BY <2>1, <2>2 DEF Score
  <1> QED BY <1>6, <1>7, <1>8, FS_Subset

\* The types a question looks for are a list, so each has its place.
LEMMA TargetPlaces ==
    ASSUME NEW q \in Questions, NEW t \in Elements(Targets[q.intent])
    PROVE  Place(Targets[q.intent], t) \in Nat
  <1>1. q.intent \in DOMAIN Targets
    BY DEF Questions, Intents
  <1>2. PICK types : types = Targets[q.intent]
    OBVIOUS
  <1>3. DOMAIN types \subseteq Nat
    BY <1>1, <1>2 DEF Targets
  <1>4. \E n \in DOMAIN types : types[n] = t
    BY <1>2 DEF Elements
  <1>5. Place(types, t) \in DOMAIN types
    BY <1>4, Zenon DEF Place
  <1> QED BY <1>2, <1>3, <1>5

\* Fewer than m come before x in a set of at most m.
LEMMA RoomIsLeft ==
    ASSUME NEW S, IsFiniteSet(S), NEW P \in SUBSET S, NEW x \in S, x \notin P,
           NEW m \in Nat, ~(Cardinality(S) > m)
    PROVE  Cardinality(P) < m
  <1>1. IsFiniteSet(P) /\ Cardinality(P) \in Nat /\ Cardinality(S) \in Nat
    BY FS_Subset, FS_CardinalityType
  <1>2. Cardinality(P \cup {x}) = Cardinality(P) + 1
    BY <1>1, FS_AddElement
  <1>3. Cardinality(P \cup {x}) <= Cardinality(S)
    <2>1. P \cup {x} \in SUBSET S
      OBVIOUS
    <2> QED BY <2>1, FS_Subset
  <1> QED BY <1>1, <1>2, <1>3

\* An item that the question names is found when the limits leave room for all such items: the
\* named ones, the ones that were imported under a name the question mentions, the corrected ones.
LEMMA NamedIsFound ==
    ASSUME NEW k, DOMAIN k \in SUBSET Item, NEW q \in Questions,
           NEW types, types = Targets[q.intent], NEW i \in Reviewed(k),
           TypeOf[i] \in Elements(types), q.says[Matched(k, i)] >= 97,
           NEW named, IsFiniteSet(named), ~(Cardinality(named) > MaxCandidates),
           NEW titled, IsFiniteSet(titled), ~(Cardinality(titled) > MaxRows),
           NEW fixed, IsFiniteSet(fixed), ~(Cardinality(fixed) > MaxCorrected),
           \A j \in Reviewed(k) : TypeOf[j] \in Elements(types) =>
             /\ q.says[Matched(k, j)] >= 97 => j \in named
             /\ q.says[TitleOf[j]] >= 97 => j \in titled
             /\ k[j].status = "CORRECTED" => j \in fixed
    PROVE  [id |-> i, label |-> Matched(k, i), score |-> Score(k, q, i), place |-> Place(types, TypeOf[i])]
             \in Resolve(k, q, types, Item)
  <1> DEFINE pool == {j \in Reviewed(k) \cap Item : TypeOf[j] \in Elements(types)}
             found == {j \in pool : q.says[TitleOf[j]] > 0}
             Ahead(x) == {j \in found : \/ q.says[TitleOf[j]] > q.says[TitleOf[x]]
                                        \/ q.says[TitleOf[j]] = q.says[TitleOf[x]] /\ j < x}
             corrected == {j \in pool : k[j].status = "CORRECTED"}
             Of1(j) == [id |-> j, label |-> Matched(k, j), score |-> Score(k, q, j), place |-> Place(types, TypeOf[j])]
  <1>1. {MaxCandidates, MaxRows, MaxCorrected} \subseteq Nat /\ Item \subseteq Nat /\ Alphabet \in [Titles -> Nat]
    BY ItemAssumption
  <1>2. Reviewed(k) \subseteq Item /\ i \in pool
    BY DEF Reviewed
  <1>3. \A j \in Item : /\ q.says[Matched(k, j)] \in 0 .. 100 /\ q.says[TitleOf[j]] \in 0 .. 100
                        /\ Matched(k, j) \in Titles
    <2>1. \A j \in Item : TitleOf[j] \in Titles /\ Matched(k, j) \in Titles
      BY DEF Matched, Titles
    <2> QED BY <2>1 DEF Questions
  <1>4. i \in Compared(k, q, types, Item)
    <2>1. CASE k[i].status = "CORRECTED"
      <3>1. PICK before : before = {j \in corrected : j < i}
        OBVIOUS
      <3>2. before \in SUBSET fixed /\ i \in fixed /\ i \notin before
        <4>1. ASSUME NEW j \in before PROVE j \in fixed /\ j # i
          <5>1. j \in Reviewed(k) /\ TypeOf[j] \in Elements(types) /\ k[j].status = "CORRECTED" /\ j < i
            BY <3>1
          <5>2. i \in Nat
            BY <1>1, <1>2
          <5> QED BY <5>1, <5>2
        <4> QED BY <2>1, <4>1
      <3>3. Cardinality(before) < MaxCorrected
        BY <1>1, <3>2, RoomIsLeft
      <3>4. i \in Fetched(k, q, types, Item)
        BY <1>2, <2>1, <3>1, <3>3 DEF Fetched
      <3> QED BY <1>2, <1>3, <3>4 DEF Compared, Score
    <2>2. CASE k[i].status # "CORRECTED"
      <3>1. TitleOf[i] = Matched(k, i) /\ i \in found
        BY <1>2, <1>3, <2>2 DEF Matched
      <3>2. Ahead(i) \in SUBSET titled /\ i \in titled /\ i \notin Ahead(i)
        <4>1. ASSUME NEW j \in Ahead(i) PROVE j \in titled /\ j # i
          <5>1. PICK a, b : a = q.says[TitleOf[j]] /\ b = q.says[TitleOf[i]]
            OBVIOUS
          <5>2. j \in pool /\ (a > b \/ (a = b /\ j < i))
            BY <5>1
          <5>3. j \in Reviewed(k) /\ TypeOf[j] \in Elements(types) /\ j \in Item /\ i \in Item
            BY <1>2, <5>2
          <5>4. a \in 0 .. 100 /\ b \in 0 .. 100 /\ b >= 97
            BY <1>3, <3>1, <5>1, <5>3
          <5>5. a >= 97
            BY <5>2, <5>4
          <5>6. j \in Int /\ i \in Int
            BY <1>1, <5>3
          <5>7. j # i
            BY <5>1, <5>2, <5>4, <5>6
          <5> QED BY <5>1, <5>3, <5>5, <5>7
        <4> QED BY <3>1, <4>1
      <3>3. Cardinality(Ahead(i)) < MaxRows
        BY <1>1, <3>2, RoomIsLeft
      <3>4. i \in Fetched(k, q, types, Item)
        BY <3>1, <3>3 DEF Fetched
      <3> QED BY <1>2, <1>3, <3>4 DEF Compared, Score
    <2> QED BY <2>1, <2>2
  <1>5. PICK all, c : all = Found(k, q, types, Item) /\ c = Of1(i)
    OBVIOUS
  <1>6. c \in all /\ \A d \in all : \E j \in Reviewed(k) : TypeOf[j] \in Elements(types) /\ d = Of1(j)
    <2>1. all = {Of1(j) : j \in Compared(k, q, types, Item)}
      BY <1>5 DEF Found
    <2>2. \A j \in Compared(k, q, types, Item) : j \in Reviewed(k) /\ TypeOf[j] \in Elements(types)
      BY ComparedFacts
    <2> QED BY <1>4, <1>5, <2>1, <2>2
  <1>7. PICK before : before = {d \in all : Stronger(d, c)}
    OBVIOUS
  <1>8. PICK f : f = [j \in named |-> Of1(j)]
    OBVIOUS
  <1>9. PICK records : records = {f[j] : j \in named}
    OBVIOUS
  <1>10. IsFiniteSet(records) /\ ~(Cardinality(records) > MaxCandidates)
    <2>1. f \in Surjection(named, records)
      BY <1>8, <1>9 DEF Surjection
    <2>2. IsFiniteSet(records) /\ Cardinality(records) <= Cardinality(named)
      BY <2>1, FS_Surjection
    <2>3. Cardinality(records) \in Nat /\ Cardinality(named) \in Nat
      BY <2>2, FS_CardinalityType
    <2> QED BY <1>1, <2>2, <2>3
  <1>11. \A d \in before : d \in records /\ d # c
    <2>1. ASSUME NEW d \in before PROVE d \in records /\ d # c
      <3>1. PICK j \in Reviewed(k) : TypeOf[j] \in Elements(types) /\ d = Of1(j)
        BY <1>6, <1>7
      <3>2. /\ d.score = q.says[Matched(k, j)] /\ d.label = Matched(k, j) /\ d.id = j
            /\ c.score = q.says[Matched(k, i)] /\ c.label = Matched(k, i) /\ c.id = i
            /\ d.place = Place(types, TypeOf[j]) /\ c.place = Place(types, TypeOf[i])
        BY <1>5, <3>1 DEF Score
      <3>3. d.score \in Int /\ c.score \in Int /\ c.score >= 97
        BY <1>2, <1>3, <3>2
      <3>4. d.score >= c.score
        BY <1>7, <3>3 DEF Stronger
      <3>5. j \in named
        BY <3>1, <3>2, <3>3, <3>4
      <3>6. d # c
        <4>1. SUFFICES ASSUME d = c PROVE FALSE
          OBVIOUS
        <4>2. ~(c.score > c.score) /\ ~(Alphabet[c.label] < Alphabet[c.label]) /\ ~(c.id < c.id)
          <5>1. c.id \in Int /\ c.label \in Titles
            <6>1. i \in Item
              BY <1>2
            <6>2. Matched(k, i) \in Titles
              BY <1>3, <6>1
            <6>3. i \in Int
              BY <1>1, <6>1
            <6> QED BY <3>2, <6>2, <6>3
          <5>2. Alphabet[c.label] \in Int
            BY <1>1, <5>1
          <5> QED BY <3>3, <5>1, <5>2
        <4>3. c.place < c.place
          BY <1>7, <4>1, <4>2 DEF Stronger
        <4>4. c.place \in Nat
          BY <3>2, TargetPlaces
        <4> QED BY <4>3, <4>4
      <3> QED BY <1>8, <1>9, <3>1, <3>5, <3>6
    <2> QED BY <2>1
  <1>12. c \in records
    <2>1. i \in named
      OBVIOUS
    <2> QED BY <1>5, <1>8, <1>9, <2>1
  <1>13. Cardinality(before) < MaxCandidates
    <2>1. before \in SUBSET records /\ c \notin before
      BY <1>11
    <2> QED BY <1>1, <1>10, <1>12, <2>1, RoomIsLeft
  <1> QED BY <1>5, <1>6, <1>7, <1>13 DEF Resolve

\* The candidates of the resolver, in their order.
LEMMA InOrderList ==
    ASSUME NEW r, IsFiniteSet(r)
    PROVE  IsList(InOrder(r)) /\ IsFiniteSet(Elements(InOrder(r)))
  <1>1. PICK n \in Nat : n = Cardinality(r)
    BY FS_CardinalityType
  <1>2. PICK f : f = [m \in 1 .. Cardinality(r) |->
                        CHOOSE x \in r : Cardinality({y \in r : Worse(y, x)}) = m - 1]
    OBVIOUS
  <1>3. Sorted(r, Worse) = SubSeq(f, 1, n)
    BY <1>1, <1>2 DEF Sorted
  <1>4. PICK s : s = SubSeq(f, 1, n)
    OBVIOUS
  <1>5. IsList(s)
    BY <1>4, PrefixFacts
  <1>6. Len(s) \in Nat
    BY <1>5, ListFacts DEF IsList
  <1>7. PICK g : g = [m \in DOMAIN s |-> s[m].id]
    OBVIOUS
  <1>8. InOrder(r) = SubSeq(g, 1, Len(s))
    BY <1>3, <1>4, <1>7 DEF InOrder, IdsOf
  <1>9. IsList(SubSeq(g, 1, Len(s)))
    BY <1>6, PrefixFacts
  <1> QED BY <1>8, <1>9, ListFacts DEF IsList

\* The fused ranking of a question.
LEMMA FusedList ==
    ASSUME NEW r, IsFiniteSet(r), NEW dense, IsList(dense), NEW semantic, IsList(semantic)
    PROVE  IsList(Fused(Rankings(r, dense, semantic)))
  <1>1. PICK s : s = Rankings(r, dense, semantic)
    OBVIOUS
  <1>2. IsFiniteSet({c \in r : c.score >= 97})
    <2>1. {c \in r : c.score >= 97} \in SUBSET r
      OBVIOUS
    <2> QED BY <2>1, FS_Subset
  <1>3. /\ IsFiniteSet(Elements(InOrder({c \in r : c.score >= 97}))) /\ IsFiniteSet(Elements(InOrder(r)))
        /\ IsFiniteSet(Elements(dense)) /\ IsFiniteSet(Elements(semantic))
    BY <1>2, InOrderList, ListFacts DEF IsList
  <1>4. \A n \in 1 .. 5 : IsFiniteSet(Elements(s[n]))
    <2>1. /\ s[1] = InOrder({c \in r : c.score >= 97}) /\ s[2] = InOrder(r) /\ s[3] = InOrder(r)
          /\ s[4] = dense /\ s[5] = semantic
      BY <1>1 DEF Rankings
    <2>2. \A n \in 1 .. 5 : n = 1 \/ n = 2 \/ n = 3 \/ n = 4 \/ n = 5
      OBVIOUS
    <2> QED BY <1>3, <2>1, <2>2
  <1>5. PICK F : F = {Elements(s[n]) : n \in 1 .. 5}
    OBVIOUS
  <1>6. IsFiniteSet(F)
    <2>1. PICK h : h = [n \in 1 .. 5 |-> Elements(s[n])]
      OBVIOUS
    <2>2. h \in Surjection(1 .. 5, F)
      BY <1>5, <2>1 DEF Surjection
    <2>3. IsFiniteSet(1 .. 5)
      <3>1. 1 \in Int /\ 5 \in Int
        OBVIOUS
      <3> QED BY <3>1, FS_Interval
    <2> QED BY <2>2, <2>3, FS_Surjection
  <1>7. IsFiniteSet(UNION F)
    BY <1>4, <1>5, <1>6, FS_UNION
  <1> DEFINE Lowest(S) == CHOOSE n \in S : \A m \in S : n <= m
             Key(i) == LET in == {n \in 1 .. 5 : i \in Elements(s[n])}
                           Gain(n) == IF n \in in THEN Weight(Rank(s[n], i)) ELSE 0
                       IN  <<0 - (Gain(1) + Gain(2) + Gain(3) + Gain(4) + Gain(5)),
                             Lowest({Rank(s[n], i) : n \in in}),
                             Lowest(in), 0 - Cardinality(in), i>>
             keys == {Key(i) : i \in UNION F}
             ranked == Sorted(keys, Precedes)
             ids == [n \in DOMAIN ranked |-> ranked[n][5]]
  <1>8. Fused(s) = SubSeq(ids, 1, Len(ranked))
    BY <1>5 DEF Fused
  <1>9. PICK h : h = [i \in UNION F |-> Key(i)]
    OBVIOUS
  <1>10. h \in Surjection(UNION F, keys)
    BY <1>9 DEF Surjection
  <1> HIDE DEF keys, Key
  <1>11. IsFiniteSet(keys)
    BY <1>7, <1>10, FS_Surjection
  <1>12. PICK n \in Nat : n = Cardinality(keys)
    BY <1>11, FS_CardinalityType
  <1>13. \E f : ranked = SubSeq(f, 1, n)
    BY <1>12, Zenon DEF Sorted
  <1>14. Len(ranked) \in Nat
    BY <1>13, PrefixFacts
  <1> HIDE DEF ranked, ids
  <1> QED BY <1>1, <1>8, <1>14, PrefixFacts

\* Triples of numbers are compared one after the other.
LEMMA PrecedesFacts ==
    ASSUME NEW a \in Nat, NEW b \in Nat, NEW c \in Nat, NEW x \in Nat, NEW y \in Nat, NEW z \in Nat
    PROVE  Precedes(<<a, b, c>>, <<x, y, z>>)
                <=> a < x \/ (a = x /\ b < y) \/ (a = x /\ b = y /\ c < z)
  <1>1. PICK s : s = <<a, b, c>>
    OBVIOUS
  <1>2. PICK t : t = <<x, y, z>>
    OBVIOUS
  <1>3. /\ DOMAIN s = 1 .. 3 /\ s[1] = a /\ s[2] = b /\ s[3] = c
        /\ t[1] = x /\ t[2] = y /\ t[3] = z
    BY <1>1, <1>2
  <1>4. \A n : n \in 1 .. 3 <=> n = 1 \/ n = 2 \/ n = 3
    OBVIOUS
  <1>5. /\ \A m : m \notin 1 .. (1 - 1)
        /\ \A m : m \in 1 .. (2 - 1) <=> m = 1
        /\ \A m : m \in 1 .. (3 - 1) <=> m = 1 \/ m = 2
    OBVIOUS
  <1>6. Precedes(s, t) <=> \/ s[1] < t[1]
                           \/ s[2] < t[2] /\ s[1] = t[1]
                           \/ s[3] < t[3] /\ s[1] = t[1] /\ s[2] = t[2]
    BY <1>3, <1>4, <1>5 DEF Precedes
  <1> QED BY <1>1, <1>2, <1>3, <1>6

\* A walk that the policy of the intent takes, from one of the seeds.
TakenWalk(w, g, seeds, intent) ==
    \E a \in Elements(seeds) \cap g, b \in g :
        /\ w.edges = Edges(a, b) /\ Chain[a] \cap Chain[b] # {}
        /\ Cardinality(w.edges) <= Policies[intent].hops
        /\ \A c \in w.edges : Kind(c) \in Policies[intent].edges

\* The walks found in a graph of items are a list of walks over finitely many of them.
LEMMA WalksFacts ==
    ASSUME NEW g \in SUBSET Item, NEW seeds, NEW intent
    PROVE  /\ IsList(Walks(g, seeds, intent))
           /\ \A w \in Elements(Walks(g, seeds, intent)) :
                IsFiniteSet(Nodes(w)) /\ TakenWalk(w, g, seeds, intent)
  <1>1. PICK S : \* the walks that are taken
            /\ \A w \in S : TakenWalk(w, g, seeds, intent)
            /\ \A w \in S : \E a, b \in g : w = [from |-> a, to |-> b, edges |-> Edges(a, b)]
            /\ \A w \in S : Nodes(w) \subseteq g
            /\ \E f : /\ \A n \in 1 .. Cardinality(S) :
                           f[n] = CHOOSE x \in S :
                             Cardinality({y \in S :
                                Precedes(<<Cardinality(y.edges), y.to, y.from>>,
                                         <<Cardinality(x.edges), x.to, x.from>>)}) = n - 1
                      /\ Walks(g, seeds, intent) = SubSeq(f, 1, Cardinality(S))
    <2> DEFINE found == {[from |-> a, to |-> b, edges |-> Edges(a, b)] :
                            a \in Elements(seeds) \cap g, b \in g}
               Taken(w) ==
                    /\ w.from # w.to /\ Chain[w.from] \cap Chain[w.to] # {}
                    /\ Nodes(w) \subseteq g /\ Cardinality(w.edges) <= Policies[intent].hops
                    /\ {Kind(c) : c \in w.edges} \subseteq Policies[intent].edges
                    /\ Policies[intent].types # <<>> => TypeOf[w.to] \in Elements(Policies[intent].types)
               T == {w \in found : Taken(w)}
               h == [n \in 1 .. Cardinality(T) |-> CHOOSE x \in T :
                        Cardinality({y \in T : Precedes(<<Cardinality(y.edges), y.to, y.from>>,
                                                       <<Cardinality(x.edges), x.to, x.from>>)}) = n - 1]
    <2>1. Walks(g, seeds, intent) = SubSeq(h, 1, Cardinality(T))
      BY DEF Walks, Sorted
    <2>2. \A w \in T : \E a, b \in g : w = [from |-> a, to |-> b, edges |-> Edges(a, b)]
      OBVIOUS
    <2>3. \A w \in T : Nodes(w) \subseteq g
      OBVIOUS
    <2>5. \A w \in T : TakenWalk(w, g, seeds, intent)
      <3> TAKE w \in T
      <3>1. PICK a \in Elements(seeds) \cap g, b \in g : w = [from |-> a, to |-> b, edges |-> Edges(a, b)]
        OBVIOUS
      <3>2. w.edges = Edges(a, b) /\ w.from = a /\ w.to = b
        BY <3>1
      <3>3. /\ Chain[w.from] \cap Chain[w.to] # {} /\ Cardinality(w.edges) <= Policies[intent].hops
            /\ \A c \in w.edges : Kind(c) \in Policies[intent].edges
        OBVIOUS
      <3> HIDE DEF T
      <3> QED BY <3>2, <3>3 DEF TakenWalk
    <2> HIDE DEF T
    <2>4. \A n \in 1 .. Cardinality(T) :
            h[n] = CHOOSE x \in T :
                        Cardinality({y \in T : Precedes(<<Cardinality(y.edges), y.to, y.from>>,
                                                       <<Cardinality(x.edges), x.to, x.from>>)}) = n - 1
      BY Zenon
    <2> HIDE DEF h
    <2> QED BY <2>1, <2>2, <2>3, <2>4, <2>5, Zenon
  <1>2. IsFiniteSet(S)
    <2>1. PICK h : h = [p \in g \X g |-> [from |-> p[1], to |-> p[2], edges |-> Edges(p[1], p[2])]]
      OBVIOUS
    <2>2. PICK T : T = {h[p] : p \in g \X g}
      OBVIOUS
    <2>3. IsFiniteSet(g \X g)
      BY ItemAssumption, FS_Subset, FS_Product
    <2>4. h \in Surjection(g \X g, T)
      BY <2>1, <2>2 DEF Surjection
    <2>5. IsFiniteSet(T)
      BY <2>3, <2>4, FS_Surjection
    <2>6. S \in SUBSET T
      <3>1. ASSUME NEW w \in S PROVE w \in T
        <4>1. PICK a \in g, b \in g : w = [from |-> a, to |-> b, edges |-> Edges(a, b)]
          BY <1>1
        <4>2. <<a, b>> \in g \X g /\ h[<<a, b>>] = w
          BY <2>1, <4>1
        <4> QED BY <2>2, <4>2
      <3> QED BY <3>1
    <2> QED BY <2>5, <2>6, FS_Subset
  <1>3. PICK c \in Nat : c = Cardinality(S)
    BY <1>2, FS_CardinalityType
  <1>4. PICK f : /\ \A n \in 1 .. c :
                           f[n] = CHOOSE x \in S :
                             Cardinality({y \in S :
                                Precedes(<<Cardinality(y.edges), y.to, y.from>>,
                                         <<Cardinality(x.edges), x.to, x.from>>)}) = n - 1
                 /\ Walks(g, seeds, intent) = SubSeq(f, 1, c)
    BY <1>1, <1>3
  <1>5. PICK n1 : n1 = [w \in S |-> Cardinality(w.edges)]
    OBVIOUS
  <1>6. \A w \in S : /\ n1[w] \in Nat /\ w.to \in Nat /\ w.from \in Nat
                     /\ w = [from |-> w.from, to |-> w.to, edges |-> Edges(w.from, w.to)]
                     /\ IsFiniteSet(Nodes(w))
    <2> TAKE w \in S
    <2>1. PICK a \in g, b \in g : w = [from |-> a, to |-> b, edges |-> Edges(a, b)]
      BY <1>1
    <2>2. a \in Nat /\ b \in Nat
      BY ItemAssumption
    <2>3. IsFiniteSet(g)
      BY ItemAssumption, FS_Subset
    <2>4. IsFiniteSet(Nodes(w))
      BY <1>1, <2>3, FS_Subset
    <2>5. IsFiniteSet(w.edges)
      <3>1. w.edges \in SUBSET Nodes(w)
        BY DEF Nodes
      <3> QED BY <2>4, <3>1, FS_Subset
    <2>6. n1[w] \in Nat
      BY <1>5, <2>5, FS_CardinalityType
    <2> QED BY <2>1, <2>2, <2>4, <2>6
  <1>7. PICK R : R = {p \in S \X S : Precedes(<<Cardinality(p[1].edges), p[1].to, p[1].from>>,
                                              <<Cardinality(p[2].edges), p[2].to, p[2].from>>)}
    OBVIOUS
  <1>8. ASSUME NEW v \in S, NEW w \in S
        PROVE  <<v, w>> \in R <=> \/ n1[v] < n1[w]
                                  \/ n1[v] = n1[w] /\ v.to < w.to
                                  \/ n1[v] = n1[w] /\ v.to = w.to /\ v.from < w.from
    <2>1. <<v, w>> \in R <=> Precedes(<<n1[v], v.to, v.from>>, <<n1[w], w.to, w.from>>)
      BY <1>5, <1>7
    <2> QED BY <1>6, <2>1, PrecedesFacts
  <1>9. \A x \in S : <<x, x>> \notin R
    BY <1>6, <1>8
  <1>10. \A x, y \in S : x # y => <<x, y>> \in R \/ <<y, x>> \in R
    <2> TAKE x, y \in S
    <2>1. x # y => x.to # y.to \/ x.from # y.from
      BY <1>6, Zenon
    <2> QED BY <1>6, <1>8, <2>1
  <1>11. \A x, y, z \in S : <<x, y>> \in R /\ <<y, z>> \in R => <<x, z>> \in R
    BY <1>6, <1>8
  <1>12. ASSUME NEW n \in 1 .. c PROVE f[n] \in S
    <2>1. \E x \in S : Cardinality({y \in S : <<y, x>> \in R}) = n - 1
      <3>1. n \in 1 .. Cardinality(S)
        BY <1>3
      <3>2. OrderOf(R, S)
        BY <1>9, <1>10, <1>11 DEF OrderOf
      <3> QED BY <1>2, <3>1, <3>2, RanksAreTaken
    <2>2. \A x \in S : {y \in S : <<y, x>> \in R} =
                       {y \in S : Precedes(<<Cardinality(y.edges), y.to, y.from>>,
                                           <<Cardinality(x.edges), x.to, x.from>>)}
      BY <1>7
    <2>3. \E x \in S : Cardinality({y \in S : Precedes(<<Cardinality(y.edges), y.to, y.from>>,
                                           <<Cardinality(x.edges), x.to, x.from>>)}) = n - 1
      BY <2>1, <2>2, Zenon
    <2> QED BY <1>4, <2>3, Zenon
  <1>13. IsList(SubSeq(f, 1, c)) /\ Elements(SubSeq(f, 1, c)) = {f[n] : n \in 1 .. c}
    BY PrefixFacts
  <1>14. \A w \in Elements(SubSeq(f, 1, c)) : w \in S
    BY <1>12, <1>13
  <1>15. \A w \in S : TakenWalk(w, g, seeds, intent)
    BY <1>1
  <1> QED BY <1>4, <1>6, <1>13, <1>14, <1>15

\* What a list has, once each.
LEMMA OnceList ==
    ASSUME NEW s, IsList(s)
    PROVE  IsList(Once(s))
  <1> DEFINE firsts == {n \in DOMAIN s : \A m \in 1 .. (n - 1) : s[m] # s[n]}
             before == [n \in 1 .. Cardinality(firsts) |->
                        CHOOSE x \in firsts : Cardinality({y \in firsts : Least(y, x)}) = n - 1]
             at == SubSeq(before, 1, Cardinality(firsts))
             there == [n \in DOMAIN at |-> s[at[n]]]
  <1>1. Once(s) = SubSeq(there, 1, Len(at))
    BY DEF Once, Sorted
  <1>2. Cardinality(firsts) \in Nat
    <2>1. Len(s) \in Nat /\ DOMAIN s = 1 .. Len(s)
      BY ListFacts DEF IsList
    <2>2. IsFiniteSet(1 .. Len(s))
      BY <2>1, FS_Interval
    <2>3. firsts \in SUBSET (1 .. Len(s))
      BY <2>1
    <2> HIDE DEF firsts
    <2> QED BY <2>2, <2>3, FS_Subset, FS_CardinalityType
  <1> HIDE DEF before
  <1>3. Len(at) \in Nat
    BY <1>2, PrefixFacts
  <1> HIDE DEF there, at
  <1> QED BY <1>1, <1>3, PrefixFacts

\* The candidates of the second validation are a list.
LEMMA CandidatesList ==
    ASSUME NEW fused, IsList(fused), NEW walks, IsList(walks),
           \A w \in Elements(walks) : IsFiniteSet(Nodes(w))
    PROVE  IsList(CandidateIds(fused, walks))
  <1> DEFINE ends == SubSeq([n \in DOMAIN walks |-> walks[n].to], 1, Len(walks))
             others == (UNION {Nodes(w) : w \in Elements(walks)}) \ (Elements(fused) \cup Elements(ends))
             ranks == [n \in 1 .. Cardinality(others) |->
                        CHOOSE x \in others : Cardinality({y \in others : Least(y, x)}) = n - 1]
             rest == SubSeq(ranks, 1, Cardinality(others))
  <1>1. CandidateIds(fused, walks) = fused \o Within(Once(ends), Item \ Elements(fused)) \o rest
    <2>1. Sorted(others, Least) = rest
      BY DEF Sorted
    <2>2. CandidateIds(fused, walks)
            = fused \o Within(Once(ends), Item \ Elements(fused)) \o Sorted(others, Least)
      BY DEF CandidateIds
    <2> QED BY <2>1, <2>2, Zenon
  <1>2. IsList(ends)
    <2>1. Len(walks) \in Nat
      BY ListFacts DEF IsList
    <2> QED BY <2>1, PrefixFacts
  <1>3. Cardinality(others) \in Nat
    <2>1. PICK f : f = [w \in Elements(walks) |-> Nodes(w)]
      OBVIOUS
    <2>2. PICK T : T = {Nodes(w) : w \in Elements(walks)}
      OBVIOUS
    <2>3. f \in Surjection(Elements(walks), T)
      BY <2>1, <2>2 DEF Surjection
    <2>4. IsFiniteSet(Elements(walks))
      BY ListFacts DEF IsList
    <2>5. IsFiniteSet(T)
      BY <2>3, <2>4, FS_Surjection
    <2>6. IsFiniteSet(UNION T)
      BY <2>2, <2>5, FS_UNION
    <2>7. others \in SUBSET (UNION T)
      BY <2>2
    <2> HIDE DEF others
    <2> QED BY <2>6, <2>7, FS_Subset, FS_CardinalityType
  <1> HIDE DEF others, ends
  <1>4. IsList(rest)
    <2> HIDE DEF ranks
    <2> QED BY <1>3, PrefixFacts
  <1> HIDE DEF rest
  <1>5. IsList(Within(Once(ends), Item \ Elements(fused)))
    BY <1>2, OnceList, WithinList
  <1>6. IsList(fused \o Within(Once(ends), Item \ Elements(fused)))
    BY <1>5, JoinedFacts
  <1> QED BY <1>1, <1>4, <1>6, JoinedFacts

------------------------------------------------------------------------------
(* The evidence and the answer rest on what was found. *)

\* The least of some numbers is one of them.
LEMMA OneOf ==
    ASSUME NEW S \in SUBSET Nat
    PROVE  One(S) \subseteq S
  <1>1. CASE S = {}
    BY <1>1 DEF One
  <1>2. CASE S # {}
    <2>1. \E x \in S : \A y \in S : x <= y
      BY <1>2, SmallestElement
    <2>2. (CHOOSE x \in S : \A y \in S : x <= y) \in S
      BY <2>1, Zenon
    <2> QED BY <1>2, <2>2 DEF One
  <1> QED BY <1>1, <1>2

\* The ten intents.
LEMMA IntentCases ==
    ASSUME NEW q \in Questions
    PROVE  \/ q.intent = "MUTATIVE_ACTION" \/ q.intent = "SCREEN_PURPOSE" \/ q.intent = "SEARCH_BY_FIELD"
           \/ q.intent = "LIST_FIELDS" \/ q.intent = "LOCATE_FIELD" \/ q.intent = "LOCATE_SCREEN"
           \/ q.intent = "FIND_CONTROL" \/ q.intent = "LIST_COLUMNS" \/ q.intent = "NAVIGATION_EVENT"
           \/ q.intent = "UNKNOWN"
  BY DEF Questions, Intents, Targets

\* A selection of relations of some relations.
LEMMA RelationChoices ==
    ASSUME NEW rels \in SUBSET Item
    PROVE  /\ \A S \in SUBSET rels : One(S) \in SUBSET rels
           /\ \A S, T \in SUBSET rels : Some(S, T) \in SUBSET rels
           /\ \A kinds : \A S \in SUBSET rels : Of(S, kinds) \in SUBSET rels
           /\ \A parents : \A S \in SUBSET rels : Under(parents, S) \in SUBSET rels
  <1>1. rels \in SUBSET Nat
    BY ItemAssumption
  <1>2. \A S \in SUBSET rels : One(S) \in SUBSET rels
    BY <1>1, OneOf
  <1> QED BY <1>2 DEF Some, Of, Under

\* The relations an intent keeps are relations that were found.
LEMMA KeptFacts ==
    ASSUME NEW q \in Questions, NEW k, NEW r, NEW seeds, NEW focal, NEW sources, NEW rels \in SUBSET Item
    PROVE  Kept(q, k, r, seeds, focal, sources, rels) \in SUBSET rels
  <1> DEFINE screens == FocalScreens(focal, sources, rels)
             inside == IF screens = {} THEN rels ELSE Under(screens, rels)
             fields == Of(inside, {"HAS_FIELD"})
             controls == Of(inside, {"HAS_CONTROL"})
             tables == Of(inside, {"HAS_TABLE"})
             located == Some(Of(rels, {"HAS_FIELD"}) \cap focal, One(Of(rels, {"HAS_FIELD"})))
             moves == Of(rels, {"HAS_EVENT", "HAS_CONTROL"})
             mentioned == {c \in moves : q.says[Label(k, c)] >= 97}
             searching == {c \in controls : Label(k, c) \in SearchLabels}
             screen == FirstScreen(r, seeds, focal, sources) \cap rels
             field == located \cup (Of(rels, {"HAS_SCREEN"}) \cap {ParentOf[c] : c \in located})
             control == Some(Of(rels, {"HAS_CONTROL"}) \cap focal, One(Of(rels, {"HAS_CONTROL"})))
             search == (fields \cap focal) \cup Some(searching, One(controls))
             listed == fields \cup controls
             columns == tables \cup Under(tables, Of(rels, {"HAS_COLUMN"}))
             move == Some(One(moves \cap focal),
                          Some(One(Some(Of(mentioned, {"HAS_CONTROL"}), mentioned)),
                               Of(rels, ScreenParts \cup {"FROM_STATE"})))
             mutating == Of(rels, {"HAS_CONTROL", "HAS_EVENT", "FROM_STATE"})
             any == {c \in rels : {c, ParentOf[c]} \cap Elements(Upto(sources, 6)) # {}}
  <1>1. inside \in SUBSET rels
    <2> HIDE DEF screens
    <2> QED BY RelationChoices
  <1> HIDE DEF screens, inside
  <1>2. /\ fields \in SUBSET rels /\ controls \in SUBSET rels /\ tables \in SUBSET rels
        /\ moves \in SUBSET rels
    BY <1>1, RelationChoices
  <1> HIDE DEF fields, controls, tables, moves
  <1>3. mentioned \in SUBSET rels /\ searching \in SUBSET rels
    BY <1>2
  <1> HIDE DEF mentioned, searching
  <1>4. /\ Of(rels, {"HAS_FIELD"}) \in SUBSET rels /\ Of(rels, {"HAS_CONTROL"}) \in SUBSET rels
        /\ Of(rels, {"HAS_SCREEN"}) \in SUBSET rels /\ Of(rels, {"HAS_COLUMN"}) \in SUBSET rels
        /\ Of(rels, ScreenParts \cup {"FROM_STATE"}) \in SUBSET rels
        /\ Of(mentioned, {"HAS_CONTROL"}) \in SUBSET rels
    BY <1>3, RelationChoices
  <1>5. located \in SUBSET rels /\ control \in SUBSET rels
    <2>1. /\ One(Of(rels, {"HAS_FIELD"})) \in SUBSET rels /\ One(Of(rels, {"HAS_CONTROL"})) \in SUBSET rels
          /\ Of(rels, {"HAS_FIELD"}) \cap focal \in SUBSET rels
          /\ Of(rels, {"HAS_CONTROL"}) \cap focal \in SUBSET rels
      BY <1>4, RelationChoices
    <2> QED BY <2>1, RelationChoices
  <1> HIDE DEF located, control
  <1>6. field \in SUBSET rels
    BY <1>4, <1>5
  <1>7. search \in SUBSET rels
    <2>1. One(controls) \in SUBSET rels
      BY <1>2, RelationChoices
    <2>2. Some(searching, One(controls)) \in SUBSET rels
      BY <1>3, <2>1, RelationChoices
    <2> QED BY <1>2, <2>2
  <1>8. columns \in SUBSET rels
    <2>1. Under(tables, Of(rels, {"HAS_COLUMN"})) \in SUBSET rels
      BY <1>4, RelationChoices
    <2> QED BY <1>2, <2>1
  <1>9. move \in SUBSET rels
    <2>1. Some(Of(mentioned, {"HAS_CONTROL"}), mentioned) \in SUBSET rels
      BY <1>3, <1>4, RelationChoices
    <2>2. One(Some(Of(mentioned, {"HAS_CONTROL"}), mentioned)) \in SUBSET rels
      BY <2>1, RelationChoices
    <2>3. Some(One(Some(Of(mentioned, {"HAS_CONTROL"}), mentioned)),
               Of(rels, ScreenParts \cup {"FROM_STATE"})) \in SUBSET rels
      BY <1>4, <2>2, RelationChoices
    <2>4. moves \cap focal \in SUBSET rels
      BY <1>2
    <2>5. One(moves \cap focal) \in SUBSET rels
      BY <2>4, RelationChoices
    <2>6. PICK A \in SUBSET rels : A = One(moves \cap focal)
      BY <2>5
    <2>7. PICK B \in SUBSET rels :
            B = Some(One(Some(Of(mentioned, {"HAS_CONTROL"}), mentioned)),
                     Of(rels, ScreenParts \cup {"FROM_STATE"}))
      BY <2>3
    <2>8. move = Some(A, B)
      BY <2>6, <2>7, Zenon
    <2> HIDE DEF move
    <2> QED BY <2>8, RelationChoices
  <1>10. screen \in SUBSET rels /\ listed \in SUBSET rels /\ mutating \in SUBSET rels /\ any \in SUBSET rels
    BY <1>2, RelationChoices
  <1>11. Kept(q, k, r, seeds, focal, sources, rels) =
           [SCREEN_PURPOSE |-> {}, LOCATE_SCREEN |-> screen, LOCATE_FIELD |-> field, FIND_CONTROL |-> control,
            SEARCH_BY_FIELD |-> search, LIST_FIELDS |-> listed, LIST_COLUMNS |-> columns,
            NAVIGATION_EVENT |-> move, MUTATIVE_ACTION |-> mutating, UNKNOWN |-> any][q.intent]
    BY DEF Kept, screens, inside, fields, controls, tables, moves, mentioned, searching, located, control
  <1> HIDE DEF screen, field, search, listed, columns, move, mutating, any
  <1> QED BY <1>5, <1>6, <1>7, <1>8, <1>9, <1>10, <1>11, IntentCases

\* Evidence selected from what there was: sources, relations and descriptions of the ones found,
\* and nothing when homonyms are left.
SelectedFrom(e, r, sources, rels, semantics) ==
    /\ e.sources \in Seq(Item) /\ Elements(e.sources) \subseteq Elements(sources)
    /\ e.rels \in SUBSET rels
    /\ IsList(e.semantics) /\ Elements(e.semantics) \subseteq Elements(semantics)
    /\ Ambiguous(r) # {} => e.status = "clarification_required"

\* What Select returns is such evidence.
LEMMA SelectFacts ==
    ASSUME NEW q \in Questions, NEW k, NEW r, NEW seeds, NEW sources \in Seq(Item),
           NEW rels \in SUBSET Item, NEW semantics \in Seq(Item),
           NEW e, e = Select(q, k, r, seeds, sources, rels, semantics)
    PROVE  SelectedFrom(e, r, sources, rels, semantics)
  <1> DEFINE focal == Focal(q.intent, r, seeds, sources, semantics)
             kept == Kept(q, k, r, seeds, focal, sources, rels)
             told == IF q.intent = "SCREEN_PURPOSE" THEN Purposes(focal, semantics)
                     ELSE IF q.intent = "UNKNOWN" THEN Upto(semantics, 2) ELSE <<>>
             chosen == [SCREEN_PURPOSE |-> Some(Elements(told), focal),
                        LOCATE_SCREEN |-> FirstScreen(r, seeds, focal, sources),
                        UNKNOWN |-> Elements(Upto(sources, 6))]
             ids == kept \cup {ParentOf[c] : c \in kept} \cup
                    (IF q.intent \in DOMAIN chosen THEN chosen[q.intent] ELSE focal)
             shown == IF q.intent = "UNKNOWN" THEN Upto(sources, 6) ELSE Within(sources, ids)
             enough == IF q.intent = "SCREEN_PURPOSE" THEN told # <<>>
                       ELSE shown # <<>> \/ kept # {} \/ told # <<>>
  <1>1. e = IF Ambiguous(r) # {} THEN NoEvidence("clarification_required")
            ELSE [status |-> IF enough THEN "selected" ELSE "insufficient",
                  sources |-> shown, rels |-> kept, semantics |-> told]
    BY DEF Select
  <1>2. IsList(sources) /\ IsList(semantics) /\ Elements(sources) \subseteq Item
    BY ListFacts
  <1>3. <<>> \in Seq(Item) /\ IsList(<<>>) /\ Elements(<<>>) = {}
    <2>1. <<>> \in Seq(Item) /\ <<>> \in Seq({}) /\ DOMAIN <<>> = {}
      OBVIOUS
    <2>2. Elements(<<>>) = {}
      BY <2>1 DEF Elements
    <2> QED BY <2>1, <2>2 DEF IsList
  <1>4. IsList(told) /\ Elements(told) \subseteq Elements(semantics)
    <2> HIDE DEF focal
    <2>1. IsList(Purposes(focal, semantics)) /\ Elements(Purposes(focal, semantics)) \subseteq Elements(semantics)
      <3>1. IsList(Within(semantics, focal)) /\ Elements(Within(semantics, focal)) \subseteq Elements(semantics)
        BY <1>2, WithinList
      <3> QED BY <3>1, UptoFacts DEF Purposes
    <2>2. IsList(Upto(semantics, 2)) /\ Elements(Upto(semantics, 2)) \subseteq Elements(semantics)
      BY <1>2, UptoFacts
    <2> QED BY <1>3, <2>1, <2>2
  <1>5. kept \in SUBSET rels
    <2> HIDE DEF focal
    <2> QED BY KeptFacts
  <1> HIDE DEF kept, told, focal, ids
  <1>6. shown \in Seq(Item) /\ Elements(shown) \subseteq Elements(sources)
    <2>1. IsList(Upto(sources, 6)) /\ Elements(Upto(sources, 6)) \subseteq Elements(sources)
      BY <1>2, UptoFacts
    <2>2. IsList(Within(sources, ids)) /\ Elements(Within(sources, ids)) \subseteq Elements(sources)
      BY <1>2, WithinList
    <2>3. IsList(shown) /\ Elements(shown) \subseteq Elements(sources)
      BY <2>1, <2>2
    <2> HIDE DEF shown
    <2> QED BY <1>2, <2>3, SeqMonotonic DEF IsList
  <1> HIDE DEF shown, enough
  <1> QED BY <1>1, <1>3, <1>4, <1>5, <1>6 DEF NoEvidence, SelectedFrom

\* A deterministic answer rests on relations of the evidence.
LEMMA SupportFacts ==
    ASSUME NEW q \in Questions, NEW k, NEW e, e.rels \in SUBSET Item, NEW about
    PROVE  Support(q, k, e, about) \in SUBSET e.rels
  <1>1. PICK rels \in SUBSET Item : rels = e.rels
    OBVIOUS
  <1> DEFINE here == Under({about}, rels)
             acting == One({c \in Of(rels, {"HAS_CONTROL", "HAS_EVENT"}) : Label(k, c) \in ActionLabels})
             found == {c \in Of(rels, {"HAS_CONTROL"}) : Mentions(q, k, c)}
             columns == Under(Of(here, {"HAS_TABLE"}), Of(rels, {"HAS_COLUMN"}))
  <1>2. here \in SUBSET rels
    BY RelationChoices
  <1> HIDE DEF here
  <1>3. \A kinds : \A S \in SUBSET rels : {c \in Of(S, kinds) : Mentions(q, k, c)} \in SUBSET rels
    BY RelationChoices
  <1>4. acting \in SUBSET rels
    <2>1. {c \in Of(rels, {"HAS_CONTROL", "HAS_EVENT"}) : Label(k, c) \in ActionLabels} \in SUBSET rels
      BY RelationChoices
    <2> QED BY <2>1, RelationChoices
  <1>5. Searches(q, k, here) \in SUBSET rels
    <2>1. One({c \in Of(here, {"HAS_FIELD"}) : Mentions(q, k, c)}) \in SUBSET rels
      BY <1>2, <1>3, RelationChoices
    <2>2. {c \in Of(here, {"HAS_CONTROL"}) : Label(k, c) \in SearchLabels} \in SUBSET rels
      BY <1>2, RelationChoices
    <2>3. One({c \in Of(here, {"HAS_CONTROL"}) : Label(k, c) \in SearchLabels}) \in SUBSET rels
      BY <2>2, RelationChoices
    <2> QED BY <2>1, <2>3 DEF Searches
  <1>6. FieldPlace(q, k, rels) \in SUBSET rels
    <2>1. One({c \in Of(rels, {"HAS_FIELD"}) : Mentions(q, k, c)}) \in SUBSET rels
      BY <1>3, RelationChoices
    <2>2. Of(rels, {"HAS_SCREEN"}) \in SUBSET rels
      BY RelationChoices
    <2> QED BY <2>1, <2>2 DEF FieldPlace
  <1>7. ScreenPlace(q, k, rels) \in SUBSET rels
    <2>1. Of(rels, {"HAS_SCREEN"}) \in SUBSET rels
      BY RelationChoices
    <2>2. {c \in Of(rels, {"HAS_SCREEN"}) : Mentions(q, k, c)} \in SUBSET rels
      BY <1>3
    <2>3. One({c \in Of(rels, {"HAS_SCREEN"}) : Mentions(q, k, c)}) \in SUBSET rels
      BY <2>2, RelationChoices
    <2> QED BY <2>1, <2>3 DEF ScreenPlace, Some
  <1>8. Navigation(q, k, rels) \in SUBSET rels
    <2>1. /\ Of(rels, {"HAS_EVENT"}) \in SUBSET rels
          /\ Of(rels, {"HAS_CONTROL", "HAS_EVENT", "FROM_STATE"}) \in SUBSET rels
      BY RelationChoices
    <2>2. /\ One({c \in Of(rels, {"HAS_EVENT"}) : Mentions(q, k, c)}) \in SUBSET rels
          /\ One({c \in Of(rels, {"HAS_CONTROL"}) : Mentions(q, k, c)}) \in SUBSET rels
      BY <1>3, RelationChoices
    <2> QED BY <2>1, <2>2 DEF Navigation, Some
  <1>9. Of(here, {"HAS_FIELD"}) \in SUBSET rels /\ columns \in SUBSET rels /\ found \in SUBSET rels
    <2>1. Of(rels, {"HAS_COLUMN"}) \in SUBSET rels
      BY RelationChoices
    <2> QED BY <1>2, <1>3, <2>1, RelationChoices
  <1>10. Support(q, k, e, about) =
           [SCREEN_PURPOSE |-> {}, MUTATIVE_ACTION |-> acting, SEARCH_BY_FIELD |-> Searches(q, k, here),
            LIST_FIELDS |-> Of(here, {"HAS_FIELD"}), LOCATE_FIELD |-> FieldPlace(q, k, rels),
            LOCATE_SCREEN |-> ScreenPlace(q, k, rels), FIND_CONTROL |-> found, LIST_COLUMNS |-> columns,
            NAVIGATION_EVENT |-> Navigation(q, k, rels), UNKNOWN |-> {}][q.intent]
    BY <1>1, Zenon DEF Support, here
  <1> HIDE DEF acting, found, columns
  <1> QED BY <1>1, <1>4, <1>5, <1>6, <1>7, <1>8, <1>9, <1>10, IntentCases

------------------------------------------------------------------------------
(* The context a turn leaves. *)

\* An entity shown by the sources is one of them.
LEMMA ShownFacts ==
    ASSUME NEW k, NEW sources \in Seq(Item), NEW type, NEW x, x = Shown(k, sources, type)
    PROVE  /\ x \in Entities
           /\ x # NoEntity => x.id \in Elements(sources) /\ TypeOf[x.id] = type
  <1>1. PICK found : found = Within(sources, {i \in Item : TypeOf[i] = type})
    OBVIOUS
  <1>2. /\ IsList(found) /\ Elements(found) \subseteq {i \in Item : TypeOf[i] = type}
        /\ Elements(found) \subseteq Elements(sources)
    BY <1>1, ListFacts, WithinList
  <1>3. x = IF found = <<>> THEN NoEntity ELSE [id |-> Head(found), label |-> Label(k, Head(found))]
    BY <1>1 DEF Shown
  <1>4. CASE found = <<>>
    <2>1. x = NoEntity
      BY <1>3, <1>4
    <2>2. NoEntity \in Entities
      BY DEF Entities, NoEntity
    <2> QED BY <2>1, <2>2
  <1>5. CASE found # <<>>
    <2>1. Head(found) \in Elements(found)
      BY <1>2, <1>5, ListFacts DEF IsList
    <2>2. PICK i \in Item : i = Head(found) /\ TypeOf[i] = type /\ i \in Elements(sources)
      BY <1>2, <2>1
    <2>3. Label(k, i) \in Titles
      BY <2>2 DEF Label, Titles
    <2>4. x = [id |-> i, label |-> Label(k, i)]
      BY <1>3, <1>5, <2>2
    <2>5. [id |-> i, label |-> Label(k, i)] \in Entities
      BY <2>2, <2>3 DEF Entities
    <2>6. x.id = i
      BY <2>4
    <2> QED BY <2>2, <2>4, <2>5, <2>6
  <1> QED BY <1>4, <1>5

\* What a turn leaves comes from its sources or from the context it had, in the same version.
LEMMA NextFacts ==
    ASSUME NEW prev \in States, NEW v \in Versions, NEW k, NEW sources \in Seq(Item),
           NEW n, n = NextState(prev, v, k, sources), NEW shown
    PROVE  /\ n \in States /\ n.version = v
           /\ Sensible(prev) => Sensible(n)
           /\ EarnedBy(prev, shown) => EarnedBy(n, shown \cup Told(v, sources))
           /\ n.module # NoEntity => \/ ModuleIn(sources)
                                     \/ n.screen.id = prev.screen.id /\ prev.module # NoEntity
  <1>1. PICK s : s = Shown(k, sources, "screen")
    OBVIOUS
  <1>2. PICK m : m = Shown(k, sources, "module")
    OBVIOUS
  <1>3. s \in Entities /\ (s # NoEntity => s.id \in Elements(sources) /\ TypeOf[s.id] = "screen")
    BY <1>1, ShownFacts
  <1>4. m \in Entities /\ (m # NoEntity => m.id \in Elements(sources) /\ TypeOf[m.id] = "module")
    BY <1>2, ShownFacts
  <1>5. n = [version |-> v,
             screen |-> IF s = NoEntity /\ prev.version = v THEN prev.screen ELSE s,
             module |-> IF m = NoEntity THEN KeptModule(prev, v, s) ELSE m]
    BY <1>1, <1>2 DEF NextState, StateMatches
  <1>6. KeptModule(prev, v, s) = IF prev.version = v /\ (s = NoEntity \/ s.id = prev.screen.id)
                                 THEN prev.module ELSE NoEntity
    BY DEF KeptModule, StateMatches
  <1>7. /\ prev.version \in Versions \cup {0} /\ prev.screen \in Entities /\ prev.module \in Entities
        /\ NoEntity \in Entities
    BY DEF States, Entities, NoEntity
  <1>8. n.version = v
    BY <1>5
  <1>9. PICK a : a = n.screen
    OBVIOUS
  <1>10. PICK b : b = n.module
    OBVIOUS
  <1>11. \/ a = s /\ (s # NoEntity \/ prev.version # v)
         \/ s = NoEntity /\ prev.version = v /\ a = prev.screen
    BY <1>5, <1>9
  <1>12. \/ b = m /\ m # NoEntity
         \/ b = NoEntity
         \/ prev.version = v /\ b = prev.module /\ (s = NoEntity \/ s.id = prev.screen.id)
    BY <1>5, <1>6, <1>10
  <1>13. a \in Entities /\ b \in Entities
    BY <1>3, <1>4, <1>7, <1>11, <1>12
  <1>14. n = [version |-> v, screen |-> a, module |-> b]
    BY <1>5, <1>9, <1>10
  <1>15. n \in States
    BY <1>13, <1>14 DEF States
  <1>16. Sensible(prev) => Sensible(n)
    BY <1>3, <1>4, <1>9, <1>10, <1>11, <1>12 DEF Sensible
  <1>17. ASSUME NEW x, x.id \in Elements(sources), TypeOf[x.id] \in {"screen", "module"}
         PROVE  <<v, x.id>> \in Told(v, sources)
    BY <1>17 DEF Told
  <1>18. EarnedBy(prev, shown) => EarnedBy(n, shown \cup Told(v, sources))
    <2>1. s # NoEntity => <<v, s.id>> \in Told(v, sources)
      BY <1>3, <1>17
    <2>2. m # NoEntity => <<v, m.id>> \in Told(v, sources)
      BY <1>4, <1>17
    <2> QED BY <1>8, <1>9, <1>10, <1>11, <1>12, <2>1, <2>2 DEF EarnedBy
  <1>19. ASSUME b # NoEntity, ~ModuleIn(sources) PROVE a.id = prev.screen.id /\ prev.module # NoEntity
    <2>1. m = NoEntity
      BY <1>4, <1>19 DEF ModuleIn
    <2>2. prev.version = v /\ b = prev.module /\ (s = NoEntity \/ s.id = prev.screen.id)
      BY <1>12, <1>19, <2>1
    <2>3. a.id = prev.screen.id
      BY <1>11, <2>2
    <2> QED BY <1>19, <2>2, <2>3
  <1> QED BY <1>8, <1>9, <1>10, <1>15, <1>16, <1>18, <1>19

\* The context of a route hint: at most a screen.
LEMMA RouteFacts ==
    ASSUME NEW v \in Versions, DOMAIN know[v] \in SUBSET Item, NEW route, NEW s, s = RouteState(v, route)
    PROVE  /\ s \in States /\ s.version = v /\ s.module = NoEntity
           /\ s.screen # NoEntity => TypeOf[s.screen.id] = "screen"
  <1>1. PICK found : found = OnRoute(know[v], route)
    OBVIOUS
  <1>2. PICK i : i = CHOOSE j \in found : TRUE
    OBVIOUS
  <1>3. PICK x : x = IF Cardinality(found) = 1 THEN [id |-> i, label |-> Label(know[v], i)] ELSE NoEntity
    OBVIOUS
  <1>4. s = [version |-> v, screen |-> x, module |-> NoEntity]
    BY <1>1, <1>2, <1>3 DEF RouteState, NoState
  <1>5. x \in Entities /\ (x # NoEntity => TypeOf[x.id] = "screen")
    <2>1. CASE Cardinality(found) = 1
      <3>1. found # {}
        BY <2>1, FS_EmptySet
      <3>2. i \in found
        BY <1>2, <3>1
      <3>3. i \in Item /\ TypeOf[i] = "screen"
        BY <1>1, <3>2 DEF OnRoute, Reviewed
      <3>4. Label(know[v], i) \in Titles
        BY <3>3 DEF Label, Titles
      <3> QED BY <1>3, <2>1, <3>3, <3>4 DEF Entities
    <2>2. CASE Cardinality(found) # 1
      BY <1>3, <2>2 DEF Entities, NoEntity
    <2> QED BY <2>1, <2>2
  <1>6. NoEntity \in Entities
    BY DEF Entities, NoEntity
  <1> QED BY <1>4, <1>5, <1>6 DEF States

\* A question is understood from the conversation only in the version of its context, which
\* has something to inherit.
LEMMA ModeFacts ==
    ASSUME NEW q, NEW r, NEW state \in States, NEW v
    PROVE  /\ Inherited(q, state) \in Entities
           /\ Mode(q, r, state, v) = "CONTEXTUALIZED" =>
                /\ state.version = v
                /\ \/ Inherited(q, state) = state.screen /\ state.screen # NoEntity
                   \/ Inherited(q, state) = state.module /\ state.module # NoEntity
  <1>1. state.screen \in Entities /\ state.module \in Entities /\ NoEntity \in Entities
    BY DEF States, Entities, NoEntity
  <1>2. Inherited(q, state) = IF state.screen # NoEntity THEN state.screen
                              ELSE IF q.intent = "LOCATE_SCREEN" THEN state.module ELSE NoEntity
    BY DEF Inherited
  <1>3. ASSUME Mode(q, r, state, v) = "CONTEXTUALIZED"
        PROVE  state.version = v /\ Inherited(q, state) # NoEntity
    BY <1>3 DEF Mode, StateMatches
  <1> QED BY <1>1, <1>2, <1>3

------------------------------------------------------------------------------
(* The store. *)

\* What is left of a list of entries without its first ones.
LEMMA SuffixFacts ==
    ASSUME NEW s \in Seq(StoreRow), NEW m \in 1 .. Len(s) + 1, NEW w, w = SubSeq(s, m, Len(s))
    PROVE  /\ w \in Seq(StoreRow) /\ Len(w) = Len(s) - m + 1
           /\ Elements(w) \subseteq Elements(s) /\ (Distinct(s) => Distinct(w))
  <1>1. PICK l \in Nat : l = Len(s)
    OBVIOUS
  <1>2. DOMAIN s = 1 .. l /\ \A i \in 1 .. l : s[i] \in StoreRow
    BY <1>1
  <1>3. \A i \in m .. l : i \in 1 .. l
    BY <1>1
  <1>4. /\ w \in Seq(StoreRow) /\ Len(w) = IF m <= l THEN l - m + 1 ELSE 0
        /\ \A i \in 1 .. l - m + 1 : w[i] = s[m + i - 1]
    BY <1>1, <1>2, <1>3, SubSeqProperties
  <1>5. Len(w) = l - m + 1
    BY <1>1, <1>4
  <1>6. DOMAIN w = 1 .. l - m + 1
    BY <1>4, <1>5
  <1>7. \A i \in 1 .. l - m + 1 : m + i - 1 \in 1 .. l
    BY <1>1
  <1>8. Elements(w) \subseteq Elements(s)
    BY <1>2, <1>4, <1>6, <1>7 DEF Elements
  <1>9. ASSUME Distinct(s), NEW i \in 1 .. l - m + 1, NEW j \in 1 .. l - m + 1, w[i].conv = w[j].conv
        PROVE  i = j
    <2>1. s[m + i - 1].conv = s[m + j - 1].conv
      BY <1>4, <1>9
    <2>2. m + i - 1 = m + j - 1
      BY <1>2, <1>7, <1>9, <2>1 DEF Distinct
    <2> QED BY <1>1, <2>2
  <1>10. Distinct(s) => Distinct(w)
    BY <1>6, <1>9 DEF Distinct
  <1> QED BY <1>1, <1>4, <1>5, <1>8, <1>10

\* Putting an entry last takes the place of the one its conversation had.
LEMMA PutFacts ==
    ASSUME NEW s \in Seq(StoreRow), NEW c \in Conversations, NEW state \in States,
           NEW w, w = Put(s, c, state)
    PROVE  /\ w \in Seq(StoreRow) /\ Len(w) \in 1 .. Len(s) + 1
           /\ Entry(s, c) # {} => Len(w) <= Len(s)
           /\ \A e \in Elements(w) : \/ e \in Elements(s) /\ e.conv # c
                                     \/ e = [conv |-> c, state |-> state]
           /\ Distinct(s) => Distinct(w)
  <1>1. PICK o : o = Others(s, c)
    OBVIOUS
  <1>2. PICK row \in StoreRow : row = [conv |-> c, state |-> state]
    BY DEF StoreRow
  <1>3. PICK l \in Nat : l = Len(s)
    OBVIOUS
  <1>4. DOMAIN s = 1 .. l /\ IsList(s) /\ Elements(s) \subseteq StoreRow
    BY <1>3, ListFacts
  <1>5. PICK S : S = {e \in Elements(s) : e.conv # c}
    OBVIOUS
  <1>6. o = Within(s, S)
    BY <1>1, <1>5 DEF Others
  <1>7. o \in Seq(S) /\ Elements(o) = Elements(s) \cap S
    BY <1>4, <1>6, WithinList
  <1>8. PICK n \in Nat : n = Len(o)
    BY <1>7
  <1>9. /\ n \in 0 .. l /\ ((\E i \in 1 .. l : s[i] \notin S) => n < l)
        /\ \E at \in [1 .. n -> 1 .. l] :
             \A i \in 1 .. n : o[i] = s[at[i]] /\ \A j \in 1 .. n : i < j => at[i] < at[j]
    BY <1>3, <1>6, <1>8, WithinOrder
  <1>10. o \in Seq(StoreRow)
    <2>1. S \subseteq StoreRow
      BY <1>4, <1>5
    <2> QED BY <1>7, <2>1, SeqMonotonic
  <1>11. w = Append(o, row)
    BY <1>1, <1>2 DEF Put
  <1>12. /\ w \in Seq(StoreRow) /\ Len(w) = n + 1 /\ w[n + 1] = row
         /\ \A i \in 1 .. n : w[i] = o[i]
    BY <1>8, <1>10, <1>11, AppendProperties
  <1>13. DOMAIN w = 1 .. n + 1 /\ DOMAIN o = 1 .. n
    BY <1>8, <1>10, <1>12
  <1>14. \A i \in 1 .. n + 1 : i \in 1 .. n \/ i = n + 1
    OBVIOUS
  <1>15. \A i \in 1 .. n : o[i] \in S /\ o[i] \in Elements(s) /\ o[i].conv # c
    <2> TAKE i \in 1 .. n
    <2>1. o[i] \in S
      BY <1>7, <1>13
    <2> QED BY <1>5, <2>1
  <1>16. \A e \in Elements(w) : \/ e \in Elements(s) /\ e.conv # c
                                \/ e = [conv |-> c, state |-> state]
    BY <1>2, <1>12, <1>13, <1>14, <1>15 DEF Elements
  <1>17. Entry(s, c) # {} => Len(w) <= Len(s)
    <2>1. ASSUME Entry(s, c) # {} PROVE \E i \in 1 .. l : s[i] \notin S
      <3>1. PICK e \in Elements(s) : e.conv = c
        BY <2>1 DEF Entry
      <3>2. e \notin S
        BY <1>5, <3>1
      <3> QED BY <1>4, <3>2 DEF Elements
    <2> QED BY <1>3, <1>9, <1>12, <2>1
  <1>18. ASSUME Distinct(s) PROVE Distinct(w)
    <2>1. PICK at \in [1 .. n -> 1 .. l] :
             \A i \in 1 .. n : o[i] = s[at[i]] /\ \A j \in 1 .. n : i < j => at[i] < at[j]
      BY <1>9
    <2>2. ASSUME NEW i \in 1 .. n, NEW j \in 1 .. n, w[i].conv = w[j].conv PROVE i = j
      <3>1. s[at[i]].conv = s[at[j]].conv /\ at[i] \in 1 .. l /\ at[j] \in 1 .. l
        BY <1>12, <2>1, <2>2
      <3>2. at[i] = at[j]
        BY <1>4, <1>18, <3>1 DEF Distinct
      <3>3. ~(i < j) /\ ~(j < i)
        BY <2>1, <3>1, <3>2
      <3> QED BY <3>3
    <2>3. \A i \in 1 .. n : w[i].conv # c
      BY <1>12, <1>15
    <2>4. w[n + 1].conv = c
      BY <1>2, <1>12
    <2>5. \A i, j \in 1 .. n + 1 : w[i].conv = w[j].conv => i = j
      BY <1>14, <2>2, <2>3, <2>4
    <2> QED BY <1>13, <2>5 DEF Distinct
  <1>19. Len(w) \in 1 .. Len(s) + 1
    BY <1>3, <1>9, <1>12
  <1> QED BY <1>12, <1>16, <1>17, <1>18, <1>19

\* A saved store keeps its capacity.
LEMMA SaveFacts ==
    ASSUME NEW s \in Seq(StoreRow), NEW c \in Conversations, NEW state \in States,
           NEW w, w = Save(s, c, state)
    PROVE  /\ w \in Seq(StoreRow) /\ Len(w) <= MaxEntries
           /\ \A e \in Elements(w) : \/ e \in Elements(s) /\ e.conv # c
                                     \/ e = [conv |-> c, state |-> state]
           /\ Distinct(s) => Distinct(w)
  <1>1. PICK p : p = Put(s, c, state)
    OBVIOUS
  <1>2. /\ p \in Seq(StoreRow) /\ Len(p) \in 1 .. Len(s) + 1
        /\ \A e \in Elements(p) : \/ e \in Elements(s) /\ e.conv # c
                                  \/ e = [conv |-> c, state |-> state]
        /\ Distinct(s) => Distinct(p)
    BY <1>1, PutFacts
  <1>3. PICK l \in Nat : l = Len(p)
    BY <1>2
  <1>4. PICK m \in Nat : m = MaxEntries
    BY ChatAssumption
  <1>5. PICK over \in Nat : over = IF l > m THEN l - m ELSE 0
    <2>1. CASE l > m
      <3>1. l - m \in Nat
        BY <2>1
      <3> QED BY <2>1, <3>1
    <2>2. CASE ~(l > m)
      BY <2>2
    <2> QED BY <2>1, <2>2
  <1>6. w = SubSeq(p, over + 1, Len(p))
    BY <1>1, <1>3, <1>4, <1>5 DEF Save
  <1>7. over + 1 \in 1 .. Len(p) + 1
    BY <1>3, <1>5
  <1>8. /\ w \in Seq(StoreRow) /\ Len(w) = Len(p) - (over + 1) + 1
        /\ Elements(w) \subseteq Elements(p) /\ (Distinct(p) => Distinct(w))
    BY <1>2, <1>6, <1>7, SuffixFacts
  <1>9. Len(w) <= MaxEntries
    BY <1>3, <1>4, <1>5, <1>8
  <1> QED BY <1>2, <1>8, <1>9

------------------------------------------------------------------------------
(* What the steps leave alone. *)

\* The initial state has all the parts of the invariant.
LEMMA InitInv == Init => Inv
  <1> SUFFICES ASSUME Init PROVE Inv
    OBVIOUS
  <1>1. turn.phase = "idle"
    BY DEF Init, Idle
  <1>2. WorldTyped
    <2>1. PICK n \in Nat \ {0} : Versions = 1 .. n
      BY ChatAssumption
    <2>2. 1 \in Versions
      BY <2>1
    <2>3. Imported \in [Versions -> SUBSET Item]
      BY ChatAssumption
    <2>4. /\ know = [v \in Versions |-> know[v]]
          /\ \A v \in Versions : know[v] \in [Imported[v] -> Rows]
      BY DEF Init, Rows, Statuses
    <2>5. graph \in [Versions -> SUBSET Item] /\ \A v \in Versions : graph[v] \subseteq Imported[v]
      BY <2>2, <2>3 DEF Init
    <2>6. turns \in 0 .. MaxTurns /\ reviews \in 0 .. MaxReviews
      <3>1. MaxTurns \in Nat /\ MaxReviews \in Nat
        BY ChatAssumption
      <3> QED BY <3>1 DEF Init
    <2>7. /\ store \in Seq(StoreRow) /\ active \in Versions
          /\ known \in [Conversations -> SUBSET Pairs]
          /\ since \in [Conversations -> [screen : Nat, module : Nat]]
      BY <2>2 DEF Init
    <2> QED BY <2>4, <2>5, <2>6, <2>7 DEF WorldTyped
  <1>3. StoreSound /\ StoreEarned
    <2>1. MaxEntries \in Nat
      BY ChatAssumption
    <2>2. store = <<>> /\ Elements(store) = {} /\ Len(store) = 0
      BY DEF Init, Elements
    <2>3. StoreSound
      BY <2>1, <2>2 DEF StoreSound, Distinct
    <2>4. StoreEarned
      BY <2>2 DEF StoreEarned, Init
    <2> QED BY <2>3, <2>4
  <1>4. TurnInv
    BY <1>1 DEF TurnInv, TurnTyped, TurnSound, Governed, TurnEarned, AskedBack, AmbiguityIsAsked,
                AnswersAreGoverned, Running, Asking, Looking, Reading, Concluding
  <1> QED BY <1>2, <1>3, <1>4 DEF Inv, StoreInv

\* A step of the turn alone leaves the store and the knowledge as they were.
LEMMA StoreFrame ==
    ASSUME StoreInv, UNCHANGED <<World, store, History>>
    PROVE  StoreInv'
  <1>1. WorldTyped'
    BY DEF StoreInv, WorldTyped, World, History
  <1>2. StoreSound'
    BY DEF StoreInv, StoreSound, World, History
  <1>3. StoreEarned'
    BY DEF StoreInv, StoreEarned, InOrderOf, World, History
  <1> QED BY <1>1, <1>2, <1>3 DEF StoreInv

\* A turn that is over promises nothing.
LEMMA IdleTurn ==
    ASSUME turn' = Idle
    PROVE  TurnInv'
  <1>1. turn'.phase = "idle"
    BY DEF Idle
  <1> QED BY <1>1 DEF TurnInv, TurnTyped, TurnSound, Governed, TurnEarned, AskedBack, AmbiguityIsAsked,
                AnswersAreGoverned, Running, Asking, Looking, Reading, Concluding

\* What was found by more names than the resolver keeps still is, as the turn sees more.
LEMMA CrowdedStays ==
    ASSUME NEW k, k = know[turn.version], NEW k2, k2 = know'[turn'.version],
           turn'.q = turn.q, turn.seen \subseteq turn'.seen, turn'.seen \in SUBSET Item,
           NEW i, turn'.touched = turn.touched \cup {i},
           \A j \in turn.seen \ turn.touched :
             j # i => Matched(k2, j) = Matched(k, j) /\ k2[j].status = k[j].status,
           Crowded
    PROVE  Crowded'
  <1>1. \A S, T : S \in SUBSET T /\ T \in SUBSET Item => Cardinality(S) <= Cardinality(T)
                                                       /\ Cardinality(S) \in Nat /\ Cardinality(T) \in Nat
    BY ItemAssumption, FS_Subset, FS_CardinalityType
  <1>2. PICK S1, S2, S3 : /\ S1 = {j \in Contenders : j \in turn.touched \/ Named(j)}
                          /\ S2 = {j \in Contenders : turn.q.says[TitleOf[j]] >= 97}
                          /\ S3 = {j \in Contenders : j \in turn.touched \/ k[j].status = "CORRECTED"}
    OBVIOUS
  <1>3. PICK T1, T2, T3 : /\ T1 = {j \in Contenders : j \in turn.touched \/ Named(j)}'
                          /\ T2 = {j \in Contenders : turn.q.says[TitleOf[j]] >= 97}'
                          /\ T3 = {j \in Contenders : j \in turn.touched \/ know[turn.version][j].status = "CORRECTED"}'
    OBVIOUS
  <1>4. /\ S1 \in SUBSET T1 /\ S2 \in SUBSET T2 /\ S3 \in SUBSET T3
        /\ T1 \in SUBSET Item /\ T2 \in SUBSET Item /\ T3 \in SUBSET Item
    BY <1>2, <1>3 DEF Contenders, Named
  <1>5. \/ Cardinality(S1) > MaxCandidates
        \/ Cardinality(S2) > MaxRows
        \/ Cardinality(S3) > MaxCorrected
    BY <1>2 DEF Crowded
  <1>6. \/ Cardinality(T1) > MaxCandidates
        \/ Cardinality(T2) > MaxRows
        \/ Cardinality(T3) > MaxCorrected
    <2>1. MaxCandidates \in Nat /\ MaxRows \in Nat /\ MaxCorrected \in Nat
      BY ItemAssumption
    <2> QED BY <1>1, <1>4, <1>5, <2>1
  <1> QED BY <1>3, <1>6 DEF Crowded

\* The reading of a question depends on the question and on what the turn saw.
LEMMA ReadingFrame ==
    ASSUME know' = know, turn'.q = turn.q, turn'.version = turn.version,
           turn'.seen = turn.seen, turn'.touched = turn.touched
    PROVE  Settled' <=> Settled
  BY DEF Settled, OneReading, Crowded, Contenders, Named, Homonyms, Firm

\* What a version knows are items.
LEMMA KnownItems ==
    ASSUME WorldTyped, NEW v \in Versions
    PROVE  DOMAIN know[v] \in SUBSET Item /\ Reviewed(know[v]) \in SUBSET Item
  BY ChatAssumption DEF WorldTyped, Reviewed

------------------------------------------------------------------------------
(* The steps of a turn. *)

\* The route hint replaces the context of the conversation.
LEMMA UseRouteStep ==
    ASSUME Inv, UseRoute
    PROVE  Inv'
  <1>1. StoreInv'
    BY StoreFrame DEF Inv, UseRoute
  <1>2. PICK s : s = RouteState(active, turn.route)
    OBVIOUS
  <1>3. /\ turn.phase = "asked" /\ turn = AskedFields(turn) /\ turns < MaxTurns
        /\ turn.conv \in Conversations /\ turn.q \in Questions /\ turn.loaded \in States
        /\ Sensible(turn.loaded) /\ InOrderOf(turn.loaded, turn.conv)
    BY DEF Inv, TurnInv, TurnTyped, TurnSound, TurnEarned, UseRoute, At, Asking, Running
  <1>4. /\ s \in States /\ s.version = active /\ s.module = NoEntity
        /\ s.screen # NoEntity => TypeOf[s.screen.id] = "screen"
    <2>1. WorldTyped /\ active \in Versions
      BY DEF Inv, StoreInv, WorldTyped
    <2>2. DOMAIN know[active] \in SUBSET Item
      BY <2>1, KnownItems
    <2> QED BY <1>2, <2>1, <2>2, RouteFacts
  <1>5. /\ turn'.phase = "routed" /\ turn' = AskedFields(turn)'
        /\ turn'.conv = turn.conv /\ turn'.q = turn.q /\ turn'.loaded = turn.loaded
        /\ turn'.prev = s /\ turn'.hinted = {<<active, s.screen.id>>}
    BY <1>2, <1>3 DEF UseRoute, AskedFields
  <1>6. turns' = turns /\ known' = known /\ since' = since
    BY DEF UseRoute, History
  <1>7. TurnTyped'
    <2>1. <<active, s.screen.id>> \in Pairs
      BY <1>4 DEF Pairs, States, Entities, Inv, StoreInv, WorldTyped
    <2> QED BY <1>3, <1>4, <1>5, <1>6, <2>1 DEF TurnTyped, Asking, Looking, Running, Reading, Concluding
  <1>8. TurnSound'
    BY <1>3, <1>4, <1>5 DEF TurnSound, Sensible, Asking, Looking, Concluding
  <1>9. TurnEarned'
    <2>1. EarnedBy(s, known[turn.conv] \cup {<<active, s.screen.id>>})
      BY <1>4 DEF EarnedBy
    <2> QED BY <1>3, <1>4, <1>5, <1>6, <2>1 DEF TurnEarned, InOrderOf, Reading, Concluding
  <1>10. Governed' /\ AskedBack'
    BY <1>5 DEF Governed, AskedBack, AmbiguityIsAsked, AnswersAreGoverned, Reading, Concluding
  <1> QED BY <1>1, <1>7, <1>8, <1>9, <1>10 DEF Inv, TurnInv

\* What is in turn when the version is read.
LEMMA UnderstandStep ==
    ASSUME Inv, Understand
    PROVE  Inv'
  <1>1. StoreInv'
    BY StoreFrame DEF Inv, Understand
  <1>2. PICK k, r, m, i : /\ k = know[active] /\ r = Resolve(k, turn.q, Targets[turn.q.intent], Item)
                          /\ m = Mode(turn.q, r, turn.prev, active) /\ i = Inherited(turn.q, turn.prev)
    OBVIOUS
  <1>3. /\ turn.phase \in {"asked", "routed"} /\ turns < MaxTurns
        /\ turn.conv \in Conversations /\ turn.q \in Questions /\ turn.loaded \in States
        /\ turn.hinted \in SUBSET Pairs /\ turn.prev \in States
    BY DEF Inv, TurnInv, TurnTyped, Understand, At, Asking, Running
  <1>4. /\ Sensible(turn.loaded) /\ Sensible(turn.prev) /\ InOrderOf(turn.loaded, turn.conv)
        /\ EarnedBy(turn.prev, known[turn.conv] \cup turn.hinted)
        /\ turn.prev = turn.loaded \/ turn.prev.module = NoEntity
    BY <1>3 DEF Inv, TurnInv, TurnSound, TurnEarned, Asking, Running
  <1>5. turn' = [phase |-> "understood", conv |-> turn.conv, q |-> turn.q,
                 condition |-> turn.condition, graph |-> turn.graph,
                 loaded |-> turn.loaded, prev |-> turn.prev, hinted |-> turn.hinted,
                 version |-> active, r |-> r, mode |-> m, inherited |-> i,
                 semantic |-> <<>>, fused |-> <<>>, seeds |-> <<>>, walks |-> <<>>,
                 seen |-> Reviewed(k), touched |-> {}]
    BY <1>2 DEF Understand
  <1>6. /\ turn'.phase = "understood" /\ turn' = ReadFields(turn)'
        /\ turn'.conv = turn.conv /\ turn'.q = turn.q /\ turn'.loaded = turn.loaded
        /\ turn'.prev = turn.prev /\ turn'.hinted = turn.hinted /\ turn'.version = active
        /\ turn'.r = r /\ turn'.mode = m /\ turn'.inherited = i
        /\ turn'.seen = Reviewed(k) /\ turn'.touched = {}
    BY <1>5 DEF ReadFields
  <1>7. turns' = turns /\ known' = known /\ since' = since /\ know' = know
    BY DEF Understand, History, World
  <1>8. active \in Versions /\ DOMAIN k \in SUBSET Item /\ Reviewed(k) \in SUBSET Item
    <2>1. WorldTyped /\ active \in Versions
      BY DEF Inv, StoreInv, WorldTyped
    <2> QED BY <1>2, <2>1, KnownItems
  <1>9. /\ i \in Entities
        /\ m = "CONTEXTUALIZED" => /\ turn.prev.version = active
                                   /\ \/ i = turn.prev.screen /\ turn.prev.screen # NoEntity
                                      \/ i = turn.prev.module /\ turn.prev.module # NoEntity
    BY <1>2, <1>3, ModeFacts
  <1>10. IsFiniteSet(r)
    BY <1>2, <1>8, ResolveFacts
  <1>11. TurnTyped'
    BY <1>3, <1>6, <1>7, <1>8, <1>9, <1>10 DEF TurnTyped, Asking, Looking, Running, Reading, Concluding
  <1>12. TurnSound'
    BY <1>4, <1>6 DEF TurnSound, Sensible, Asking, Looking, Concluding
  <1>13. Governed'
    BY <1>2, <1>6, <1>7 DEF Governed, AnswersAreGoverned, Reading, Concluding
  <1>14. TurnEarned'
    <2>1. m = "CONTEXTUALIZED" => <<active, i.id>> \in known[turn.conv] \cup turn.hinted
      BY <1>4, <1>9 DEF EarnedBy
    <2> QED BY <1>4, <1>6, <1>7, <2>1 DEF TurnEarned, InOrderOf, Reading, Concluding
  <1>15. AskedBack'
    <2>1. PICK types : types = Targets[turn.q.intent]
      OBVIOUS
    <2>2. PICK named, titled, fixed :
            /\ named = {j \in Reviewed(k) : TypeOf[j] \in Elements(types) /\ turn.q.says[Matched(k, j)] >= 97}
            /\ titled = {j \in Reviewed(k) : TypeOf[j] \in Elements(types) /\ turn.q.says[TitleOf[j]] >= 97}
            /\ fixed = {j \in Reviewed(k) : TypeOf[j] \in Elements(types) /\ k[j].status = "CORRECTED"}
      OBVIOUS
    <2>3. (know[turn.version])' = k
      BY <1>2, <1>6, <1>7
    <2>4. Crowded' <=> \/ Cardinality(named) > MaxCandidates
                       \/ Cardinality(titled) > MaxRows
                       \/ Cardinality(fixed) > MaxCorrected
      <3>1. /\ {j \in Contenders : j \in turn.touched \/ Named(j)}' = named
            /\ {j \in Contenders : turn.q.says[TitleOf[j]] >= 97}' = titled
            /\ {j \in Contenders : j \in turn.touched \/ know[turn.version][j].status = "CORRECTED"}' = fixed
        BY <1>6, <2>1, <2>2, <2>3 DEF Contenders, Named
      <3> QED BY <3>1 DEF Crowded
    <2>5. ASSUME NEW j \in Item, j \in Reviewed(k), TypeOf[j] \in Elements(types),
                 turn.q.says[Matched(k, j)] >= 97, ~Crowded'
          PROVE  FoundAs(k, turn.q, j) \in r
      <3>1. IsFiniteSet(named) /\ IsFiniteSet(titled) /\ IsFiniteSet(fixed)
        <4>1. named \in SUBSET Item /\ titled \in SUBSET Item /\ fixed \in SUBSET Item
          BY <1>8, <2>2
        <4> QED BY <4>1, ItemAssumption, FS_Subset
      <3>2. \A i1 \in Reviewed(k) : TypeOf[i1] \in Elements(types) =>
              /\ turn.q.says[Matched(k, i1)] >= 97 => i1 \in named
              /\ turn.q.says[TitleOf[i1]] >= 97 => i1 \in titled
              /\ k[i1].status = "CORRECTED" => i1 \in fixed
        BY <2>2
      <3>3. FoundAs(k, turn.q, j) \in Resolve(k, turn.q, types, Item)
        BY <1>3, <1>8, <2>1, <2>4, <2>5, <3>1, <3>2, NamedIsFound DEF FoundAs
      <3> QED BY <1>2, <2>1, <3>3
    <2>6. \A j \in Item : /\ Firm(j)' <=> j \in Reviewed(k)
                          /\ Named(j)' <=> turn.q.says[Matched(k, j)] >= 97
      BY <1>6, <2>3 DEF Firm, Named
    <2> QED BY <1>6, <2>1, <2>3, <2>5, <2>6 DEF AskedBack, AmbiguityIsAsked, Concluding
  <1> QED BY <1>1, <1>11, <1>12, <1>13, <1>14, <1>15 DEF Inv, TurnInv

\* A turn ends with evidence that it saw reviewed, and with an answer when what it was asked has
\* one reading.
LEMMA ConcludedStep ==
    ASSUME Inv, Looking, NEW e, NEW decision, NEW ids, turn' = Concluded(turn, e, decision, ids),
           UNCHANGED <<World, store, History>>, e.sources \in Seq(Item),
           Elements(e.sources) \cup Ends(e.rels) \cup Elements(e.semantics) \cup ids \subseteq turn.seen,
           turn.mode = "DIRECT" /\ decision \in Answers => Settled
    PROVE  Inv'
  <1>1. StoreInv'
    BY StoreFrame DEF Inv
  <1>2. PICK n : n = NextState(turn.prev, turn.version, know[turn.version], e.sources)
    OBVIOUS
  <1>3. /\ turns < MaxTurns /\ turn.conv \in Conversations /\ turn.q \in Questions
        /\ turn.loaded \in States /\ turn.hinted \in SUBSET Pairs /\ turn.prev \in States
        /\ turn.version \in Versions /\ turn.inherited \in Entities
        /\ turn.seen \in SUBSET Item /\ turn.touched \in SUBSET Item
    BY DEF Inv, TurnInv, TurnTyped, Looking, Running, Reading
  <1>4. /\ Sensible(turn.loaded) /\ Sensible(turn.prev) /\ InOrderOf(turn.loaded, turn.conv)
        /\ EarnedBy(turn.prev, known[turn.conv] \cup turn.hinted)
        /\ turn.prev = turn.loaded \/ turn.prev.module = NoEntity
        /\ turn.mode = "CONTEXTUALIZED" =>
             <<turn.version, turn.inherited.id>> \in known[turn.conv] \cup turn.hinted
    BY DEF Inv, TurnInv, TurnSound, TurnEarned, Looking, Running, Reading
  <1>5. /\ Reviewed(know[turn.version]) \subseteq turn.seen
        /\ turn.seen \ turn.touched \subseteq Reviewed(know[turn.version])
    BY DEF Inv, TurnInv, Governed, Looking, Reading
  <1>6. PICK p, d : /\ p = IF decision = "GROUNDED_LLM" /\ turn.condition = "C" THEN "writing" ELSE "decided"
                    /\ d = IF decision = "GROUNDED_LLM" /\ turn.condition # "C"
                           THEN Baseline(know[turn.version], e) ELSE decision
    OBVIOUS
  <1>7. turn' = [conv |-> turn.conv, q |-> turn.q, version |-> turn.version, mode |-> turn.mode,
                 inherited |-> turn.inherited, loaded |-> turn.loaded, hinted |-> turn.hinted,
                 seen |-> turn.seen, touched |-> turn.touched,
                 phase |-> p, evidence |-> e, ids |-> ids, decision |-> d, next |-> n]
    BY <1>2, <1>6 DEF Concluded
  <1>8. /\ turn'.phase \in {"writing", "decided"} /\ turn' = DoneFields(turn)'
        /\ turn'.conv = turn.conv /\ turn'.q = turn.q /\ turn'.loaded = turn.loaded
        /\ turn'.hinted = turn.hinted /\ turn'.version = turn.version /\ turn'.mode = turn.mode
        /\ turn'.inherited = turn.inherited /\ turn'.seen = turn.seen /\ turn'.touched = turn.touched
        /\ turn'.phase = p /\ turn'.evidence = e /\ turn'.ids = ids /\ turn'.decision = d /\ turn'.next = n
    BY <1>6, <1>7 DEF DoneFields
  <1>9. turns' = turns /\ known' = known /\ since' = since /\ know' = know
    BY DEF History, World
  <1>10. /\ n \in States /\ n.version = turn.version /\ Sensible(n)
         /\ EarnedBy(n, known[turn.conv] \cup turn.hinted \cup Told(turn.version, e.sources))
         /\ n.module # NoEntity => \/ ModuleIn(e.sources)
                                   \/ n.screen.id = turn.prev.screen.id /\ turn.prev.module # NoEntity
    <2>1. PICK k, shown : k = know[turn.version] /\ shown = known[turn.conv] \cup turn.hinted
      OBVIOUS
    <2>2. n = NextState(turn.prev, turn.version, k, e.sources)
      BY <1>2, <2>1
    <2>3. /\ n \in States /\ n.version = turn.version
          /\ Sensible(turn.prev) => Sensible(n)
          /\ EarnedBy(turn.prev, shown) => EarnedBy(n, shown \cup Told(turn.version, e.sources))
          /\ n.module # NoEntity => \/ ModuleIn(e.sources)
                                    \/ n.screen.id = turn.prev.screen.id /\ turn.prev.module # NoEntity
      BY <1>3, <2>2, NextFacts
    <2> QED BY <1>4, <2>1, <2>3
  <1>11. TurnTyped'
    BY <1>3, <1>8, <1>9, <1>10 DEF TurnTyped, Asking, Looking, Running, Reading, Concluding
  <1>12. TurnSound'
    BY <1>4, <1>8, <1>10 DEF TurnSound, Sensible, Asking, Looking, Concluding
  <1>13. Governed'
    BY <1>5, <1>8, <1>9 DEF Governed, AnswersAreGoverned, Reading, Concluding
  <1>14. TurnEarned'
    BY <1>4, <1>8, <1>9, <1>10 DEF TurnEarned, InOrderOf, Asking, Looking, Reading, Concluding
  <1>15. AskedBack'
    <2>1. Settled' <=> Settled
      BY <1>8, <1>9, ReadingFrame
    <2>2. Baseline(know[turn.version], e) \in {"BASELINE", "ABSTENTION"}
      BY DEF Baseline
    <2>3. d \in Answers => decision \in Answers
      BY <1>6, <2>2 DEF Answers
    <2>4. p = "writing" => d \in Answers
      BY <1>6 DEF Answers
    <2> QED BY <1>8, <2>1, <2>3, <2>4 DEF AskedBack, AmbiguityIsAsked, Settled
  <1> QED BY <1>1, <1>11, <1>12, <1>13, <1>14, <1>15 DEF Inv, TurnInv

\* A context the turn cannot use ends it with a question.
LEMMA ClarifyStep ==
    ASSUME Inv, Clarify
    PROVE  Inv'
  <1>1. PICK e, d : e = NoEvidence("clarification_required") /\ d = Decide(turn.q, e, FALSE)
    OBVIOUS
  <1>2. /\ Looking /\ turn' = Concluded(turn, e, d, {}) /\ UNCHANGED <<World, store, History>>
    BY <1>1 DEF Clarify, Looking, At
  <1>3. /\ e.sources = <<>> /\ e.rels = {} /\ e.semantics = <<>> /\ e.status = "clarification_required"
    BY <1>1 DEF NoEvidence
  <1>4. d \notin Answers
    BY <1>1, <1>3 DEF Decide, Answers
  <1>5. e.sources \in Seq(Item)
    BY <1>3
  <1>6. Elements(e.sources) \cup Ends(e.rels) \cup Elements(e.semantics) \cup {} \subseteq turn.seen
    BY <1>3 DEF Elements, Ends
  <1> QED BY <1>2, <1>4, <1>5, <1>6, ConcludedStep

\* A question of an unknown intent that names nothing is not searched for.
LEMMA GiveUpStep ==
    ASSUME Inv, GiveUp
    PROVE  Inv'
  <1>1. PICK e, d : e = NoEvidence("insufficient") /\ d = Decide(turn.q, e, FALSE)
    OBVIOUS
  <1>2. /\ Looking /\ turn' = Concluded(turn, e, d, {}) /\ UNCHANGED <<World, store, History>>
    BY <1>1 DEF GiveUp, Looking, At
  <1>3. /\ e.sources = <<>> /\ e.rels = {} /\ e.semantics = <<>> /\ e.status = "insufficient"
    BY <1>1 DEF NoEvidence
  <1>4. d \notin Answers
    BY <1>1, <1>3 DEF Decide, Answers
  <1>5. e.sources \in Seq(Item)
    BY <1>3
  <1>6. Elements(e.sources) \cup Ends(e.rels) \cup Elements(e.semantics) \cup {} \subseteq turn.seen
    BY <1>3 DEF Elements, Ends
  <1> QED BY <1>2, <1>4, <1>5, <1>6, ConcludedStep

\* The names a reviewed item goes by are titles, and what a question says of them is a number.
LEMMA SaysNumbers ==
    ASSUME NEW k, NEW q \in Questions, NEW i \in Item
    PROVE  q.says[Matched(k, i)] \in 0 .. 100
  <1>1. Matched(k, i) \in Titles
    BY DEF Matched, Titles
  <1> QED BY <1>1 DEF Questions

\* Narrowing by a screen that the question names, or not at all, loses no homonym otherwise.
LEMMA NarrowedReading ==
    ASSUME Inv, turn.phase = "understood",
           NEW k, k = know[turn.version], NEW r, r = ByScreen(k, turn.q, turn.r)
    PROVE  IsFiniteSet(r) /\ (Ambiguous(r) # {} \/ Settled)
  <1>1. /\ turn.q \in Questions /\ turn.version \in Versions /\ IsFiniteSet(turn.r)
        /\ turn.seen \in SUBSET Item
    BY DEF Inv, TurnInv, TurnTyped, Looking, Running, Reading
  <1>2. DOMAIN k \in SUBSET Item /\ Reviewed(k) \subseteq turn.seen
    BY <1>1, KnownItems DEF Inv, StoreInv, TurnInv, Governed, Reading
  <1>3. PICK types, screens : types = Targets[turn.q.intent] /\ screens = Resolve(k, turn.q, <<"screen">>, Item)
    OBVIOUS
  <1>4. PICK named : named = {c \in screens : c.id \in Primary(screens) /\ c.score >= 97}
    OBVIOUS
  <1>5. PICK inside : inside = Resolve(k, turn.q, types, UNION {InScreen(k, c.id) : c \in named})
    OBVIOUS
  <1>6. \/ r = turn.r
        \/ r = inside /\ inside # {}
    BY <1>3, <1>4, <1>5 DEF ByScreen
  <1>7. CASE r = turn.r
    <2>1. ASSUME NEW i \in Item, NEW j \in Item, Firm(i), Firm(j), Homonyms(i, j), Named(i),
                 TypeOf[i] \in Elements(types), ~Crowded
          PROVE  Ambiguous(r) # {}
      <3>1. PICK c, d : c = FoundAs(k, turn.q, i) /\ d = FoundAs(k, turn.q, j)
        OBVIOUS
      <3>2. /\ turn.q.says[Matched(k, i)] >= 97 /\ Matched(k, j) = Matched(k, i)
            /\ i # j /\ TypeOf[j] = TypeOf[i]
        BY <2>1 DEF Named, Homonyms
      <3>3. Named(i) /\ Named(j)
        BY <2>1, <3>2 DEF Named
      <3>4. c \in r /\ d \in r
        BY <1>3, <1>7, <2>1, <3>1, <3>2, <3>3 DEF Inv, TurnInv, AskedBack
      <3>5. /\ c.id = i /\ d.id = j /\ c.label = Matched(k, i) /\ d.label = Matched(k, j)
            /\ c.score = turn.q.says[Matched(k, i)] /\ d.score = turn.q.says[Matched(k, j)]
        BY <3>1 DEF FoundAs, Score
      <3>6. c # d /\ c.score >= 97 /\ d.score >= 97 /\ Alike(c, c) /\ Alike(c, d)
        BY <3>2, <3>5 DEF Alike
      <3>7. c \in Ambiguous(r)
        BY <3>4, <3>6 DEF Ambiguous
      <3> QED BY <3>7
    <2>2. Ambiguous(r) # {} \/ Settled
      BY <1>3, <2>1 DEF Settled, OneReading
    <2> QED BY <1>1, <1>7, <2>2
  <1>8. CASE r = inside /\ inside # {}
    <2>1. IsFiniteSet(r)
      BY <1>2, <1>5, <1>8, ResolveFacts
    <2>2. PICK c \in named : TRUE
      <3>1. PICK x \in Compared(k, turn.q, types, UNION {InScreen(k, c.id) : c \in named}) : TRUE
        BY <1>5, <1>8 DEF Resolve, Found
      <3>2. x \in UNION {InScreen(k, c.id) : c \in named}
        BY <3>1, ComparedFacts
      <3> QED BY <3>2
    <2>3. c \in screens /\ c.score >= 97
      BY <1>4, <2>2
    <2>4. /\ c.id \in Reviewed(k) /\ TypeOf[c.id] \in Elements(<<"screen">>)
          /\ c.score = turn.q.says[Matched(k, c.id)]
      BY <1>2, <1>3, <2>3, ResolveFacts
    <2>5. Elements(<<"screen">>) = {"screen"}
      BY DEF Elements
    <2>6. c.id \in turn.seen /\ TypeOf[c.id] = "screen" /\ Named(c.id)
      BY <1>2, <2>3, <2>4, <2>5 DEF Named
    <2> QED BY <2>1, <2>6 DEF Settled, OneReading
  <1> QED BY <1>6, <1>7, <1>8

\* Narrowing keeps the question a question, and in a direct one its homonyms.
LEMMA NarrowStep ==
    ASSUME Inv, Narrow
    PROVE  Inv'
  <1>1. StoreInv'
    BY StoreFrame DEF Inv, Narrow
  <1>2. PICK k : k = know[turn.version]
    OBVIOUS
  <1>3. PICK q : q = IF turn.mode = "DIRECT" THEN turn.q ELSE Contextual(turn.q, turn.inherited)
    OBVIOUS
  <1>4. PICK r : r = IF turn.mode = "DIRECT" THEN ByScreen(k, q, turn.r) ELSE ByContext(k, q, turn.inherited)
    OBVIOUS
  <1>5. /\ turn.phase = "understood" /\ turn = ReadFields(turn) /\ turn.q \in Questions
        /\ turn.version \in Versions
    BY DEF Inv, TurnInv, TurnTyped, Narrow, At, Looking, Running, Reading
  <1>6. /\ turn'.phase = "narrowed" /\ turn' = ReadFields(turn)'
        /\ turn'.conv = turn.conv /\ turn'.q = q /\ turn'.loaded = turn.loaded
        /\ turn'.prev = turn.prev /\ turn'.hinted = turn.hinted /\ turn'.version = turn.version
        /\ turn'.r = r /\ turn'.mode = turn.mode /\ turn'.inherited = turn.inherited
        /\ turn'.seen = turn.seen /\ turn'.touched = turn.touched
    BY <1>2, <1>3, <1>4, <1>5 DEF Narrow, ReadFields
  <1>7. turns' = turns /\ known' = known /\ since' = since /\ know' = know
    BY DEF Narrow, History, World
  <1>8. q \in Questions
    BY <1>3, <1>5 DEF Contextual, Questions
  <1>9. IsFiniteSet(r)
    <2>1. CASE turn.mode = "DIRECT"
      BY <1>2, <1>3, <1>4, <1>5, <2>1, NarrowedReading
    <2>2. CASE turn.mode # "DIRECT"
      <3>1. DOMAIN k \in SUBSET Item
        BY <1>2, <1>5, KnownItems DEF Inv, StoreInv
      <3>2. PICK found : found = Resolve(k, q, Targets[q.intent], Item)
        OBVIOUS
      <3>3. IsFiniteSet(found)
        BY <3>1, <3>2, ResolveFacts
      <3>4. r \subseteq found
        BY <1>4, <2>2, <3>2 DEF ByContext, ScopeTo
      <3> QED BY <3>3, <3>4, FS_Subset
    <2> QED BY <2>1, <2>2
  <1>10. TurnTyped'
    BY <1>5, <1>6, <1>7, <1>8, <1>9 DEF Inv, TurnInv, TurnTyped, Asking, Looking, Running, Reading, Concluding
  <1>11. TurnSound'
    BY <1>5, <1>6 DEF Inv, TurnInv, TurnSound, Sensible, Asking, Looking, Running, Concluding
  <1>12. Governed'
    BY <1>5, <1>6, <1>7 DEF Inv, TurnInv, Governed, AnswersAreGoverned, Reading, Concluding
  <1>13. TurnEarned'
    BY <1>5, <1>6, <1>7 DEF Inv, TurnInv, TurnEarned, InOrderOf, Asking, Looking, Running, Reading, Concluding
  <1>14. AskedBack'
    <2>1. ASSUME turn.mode = "DIRECT" PROVE Ambiguous(r) # {} \/ Settled'
      <3>1. q = turn.q /\ r = ByScreen(k, turn.q, turn.r)
        BY <1>3, <1>4, <2>1
      <3>2. Ambiguous(r) # {} \/ Settled
        BY <1>2, <1>5, <3>1, NarrowedReading
      <3>3. Settled' <=> Settled
        BY <1>6, <1>7, <3>1, ReadingFrame
      <3> QED BY <3>2, <3>3
    <2> QED BY <1>6, <2>1 DEF AskedBack, AmbiguityIsAsked, Concluding
  <1> QED BY <1>1, <1>10, <1>11, <1>12, <1>13, <1>14 DEF Inv, TurnInv

\* What an index answers with is a list of what it has.
LEMMA HitsAreLists ==
    ASSUME NEW S, NEW s \in Hits(S)
    PROVE  s \in Seq(S)
  <1>1. PICK n \in 0 .. MaxHits : s \in [1 .. n -> S]
    BY DEF Hits
  <1>2. n \in Nat
    BY <1>1, ChatAssumption
  <1> QED BY <1>1, <1>2

\* A search ranks entities of the turn; the descriptions that it takes are of reviewed screens.
LEMMA SearchStep ==
    ASSUME Inv, NEW dense \in Hits(IF At("narrowed") THEN Indexed[turn.version] ELSE {}),
           NEW hits \in Hits(IF At("narrowed") THEN Authorized(turn) ELSE {}), Search(dense, hits)
    PROVE  Inv'
  <1>1. StoreInv'
    BY StoreFrame DEF Inv, Search
  <1>2. /\ turn.phase = "narrowed" /\ turn = ReadFields(turn) /\ turn.version \in Versions
        /\ IsFiniteSet(turn.r) /\ Reviewed(know[turn.version]) \subseteq turn.seen
    BY DEF Inv, TurnInv, TurnTyped, Governed, Search, At, Looking, Running, Reading
  <1>3. PICK governed : governed = Reviewed(know[turn.version])
    OBVIOUS
  <1>4. PICK semantic : semantic = Generic(turn, hits)
    OBVIOUS
  <1>5. PICK ranked : ranked = Fused(Rankings(turn.r, dense, semantic))
    OBVIOUS
  <1>6. PICK fused : fused = Within(ranked, Item \ Ids(Ambiguous(turn.r)))
    OBVIOUS
  <1>7. PICK seeds : seeds = IF turn.graph
                             THEN GraphSeeds(turn.q.intent, turn.r, ranked, governed) ELSE <<>>
    OBVIOUS
  <1>8. PICK walks : walks = Walks(graph[turn.version], seeds, turn.q.intent)
    OBVIOUS
  <1>9. turn' = [turn EXCEPT !.phase = "searched", !.semantic = semantic, !.fused = fused,
                             !.seeds = seeds, !.walks = walks]
    BY <1>3, <1>4, <1>5, <1>6, <1>7, <1>8 DEF Search
  <1>10. /\ turn'.phase = "searched" /\ turn' = ReadFields(turn)'
         /\ turn'.conv = turn.conv /\ turn'.q = turn.q /\ turn'.loaded = turn.loaded
         /\ turn'.prev = turn.prev /\ turn'.hinted = turn.hinted /\ turn'.version = turn.version
         /\ turn'.r = turn.r /\ turn'.mode = turn.mode /\ turn'.inherited = turn.inherited
         /\ turn'.seen = turn.seen /\ turn'.touched = turn.touched
         /\ turn'.semantic = semantic /\ turn'.fused = fused /\ turn'.walks = walks
    BY <1>2, <1>9 DEF ReadFields
  <1>11. turns' = turns /\ known' = known /\ since' = since /\ know' = know
    BY DEF Search, History, World
  <1>12. semantic \in Seq(governed) /\ governed \in SUBSET Item
    <2>1. hits \in Seq(Authorized(turn))
      BY <1>2, HitsAreLists DEF At
    <2>2. Authorized(turn) \subseteq governed
      BY <1>3 DEF Authorized
    <2>3. hits \in Seq(governed)
      BY <2>1, <2>2, SeqMonotonic
    <2>4. \A named : Within(hits, named) \in Seq(governed)
      <3> TAKE named
      <3>1. /\ IsList(Within(hits, named)) /\ Elements(Within(hits, named)) \subseteq governed
        BY <2>3, ListFacts, WithinList
      <3> QED BY <3>1, SeqMonotonic DEF IsList
    <2>5. governed \in SUBSET Item
      BY <1>2, <1>3, KnownItems DEF Inv, StoreInv
    <2> QED BY <1>4, <2>3, <2>4, <2>5 DEF Generic
  <1>13. Elements(semantic) \subseteq governed /\ semantic \in Seq(Item) /\ IsList(semantic)
    BY <1>12, ListFacts, SeqMonotonic
  <1>14. IsList(fused)
    <2>1. dense \in Seq(Indexed[turn.version])
      BY <1>2, HitsAreLists DEF At
    <2>2. IsList(dense)
      BY <2>1, ListFacts
    <2>3. IsList(ranked)
      BY <1>2, <1>5, <1>13, <2>2, FusedList
    <2> QED BY <1>6, <2>3, WithinList
  <1>15. IsList(walks) /\ \A w \in Elements(walks) : IsFiniteSet(Nodes(w))
    <2>1. graph[turn.version] \in SUBSET Item
      BY <1>2 DEF Inv, StoreInv, WorldTyped
    <2> QED BY <1>8, <2>1, WalksFacts
  <1>16. TurnTyped'
    BY <1>2, <1>10, <1>11, <1>13, <1>14, <1>15
       DEF Inv, TurnInv, TurnTyped, Asking, Looking, Running, Reading, Concluding
  <1>17. TurnSound'
    BY <1>2, <1>10 DEF Inv, TurnInv, TurnSound, Sensible, Asking, Looking, Running, Concluding
  <1>18. Governed'
    BY <1>2, <1>3, <1>10, <1>11, <1>13 DEF Inv, TurnInv, Governed, AnswersAreGoverned, Reading, Concluding
  <1>19. TurnEarned'
    BY <1>2, <1>10, <1>11 DEF Inv, TurnInv, TurnEarned, InOrderOf, Asking, Looking, Running, Reading, Concluding
  <1>20. AskedBack'
    <2>1. Settled' <=> Settled
      BY <1>10, <1>11, ReadingFrame
    <2> QED BY <1>2, <1>10, <2>1 DEF Inv, TurnInv, AskedBack, AmbiguityIsAsked, Concluding
  <1> QED BY <1>1, <1>16, <1>17, <1>18, <1>19, <1>20 DEF Inv, TurnInv

\* The answer rests on what the second validation let through.
LEMMA AnswerStep ==
    ASSUME Inv, Answer
    PROVE  Inv'
  <1> DEFINE k0 == know[turn.version]
             sources0 == Within(CandidateIds(turn.fused, turn.walks), Reviewed(k0))
             e0 == Select(turn.q, k0, turn.r, turn.seeds, sources0,
                          Relations(turn.walks, Reviewed(k0)), turn.semantic)
             ids0(x) == Support(turn.q, k0, e0, x) \cup {ParentOf[c] : c \in Support(turn.q, k0, e0, x)}
                            \cup Purpose(turn.q, k0, e0)
             decision0(x) == Decide(turn.q, e0, ids0(x) # {})
  <1>1. PICK about : turn' = Concluded(turn, e0, decision0(about),
                        IF decision0(about) = "DETERMINISTIC_ANSWER" THEN ids0(about) ELSE {})
    BY Zenon DEF Answer
  <1>2. PICK k, governed : k = k0 /\ governed = Reviewed(k)
    OBVIOUS
  <1>3. PICK sources : sources = Within(CandidateIds(turn.fused, turn.walks), governed)
    OBVIOUS
  <1>4. PICK rels : rels = Relations(turn.walks, governed)
    OBVIOUS
  <1>5. PICK e : e = Select(turn.q, k, turn.r, turn.seeds, sources, rels, turn.semantic)
    OBVIOUS
  <1>6. e = e0
    BY <1>2, <1>3, <1>4, <1>5
  <1>7. PICK support : support = Support(turn.q, k, e, about)
    OBVIOUS
  <1>8. PICK basis : basis = support \cup {ParentOf[c] : c \in support} \cup Purpose(turn.q, k, e)
    OBVIOUS
  <1>9. PICK decision, ids : /\ decision = Decide(turn.q, e, basis # {})
                             /\ ids = IF decision = "DETERMINISTIC_ANSWER" THEN basis ELSE {}
    OBVIOUS
  <1>10. turn' = Concluded(turn, e, decision, ids) /\ UNCHANGED <<World, store, History>>
    <2>1. k = k0 /\ e = e0
      BY <1>2, <1>6
    <2> HIDE DEF k0, e0
    <2>2. basis = ids0(about)
      BY <1>7, <1>8, <2>1
    <2> HIDE DEF ids0
    <2>3. decision = decision0(about)
      BY <1>9, <2>1, <2>2
    <2> HIDE DEF decision0
    <2> QED BY <1>1, <1>9, <2>1, <2>2, <2>3 DEF Answer
  <1> HIDE DEF k0, sources0, e0, ids0, decision0
  <1>11. /\ turn.phase = "searched" /\ Looking /\ turn.q \in Questions /\ turn.version \in Versions
         /\ turn.semantic \in Seq(Item) /\ IsList(turn.fused)
         /\ IsList(turn.walks) /\ \A w \in Elements(turn.walks) : IsFiniteSet(Nodes(w))
         /\ Elements(turn.semantic) \subseteq turn.seen /\ governed \subseteq turn.seen
    BY <1>2 DEF k0, Inv, TurnInv, TurnTyped, Governed, Answer, At, Looking, Running, Reading
  <1>12. governed \in SUBSET Item
    BY <1>2, <1>11, KnownItems DEF k0, Inv, StoreInv
  <1>13. sources \in Seq(Item) /\ Elements(sources) \subseteq governed
    <2>1. IsList(CandidateIds(turn.fused, turn.walks))
      BY <1>11, CandidatesList
    <2>2. sources \in Seq(governed)
      BY <1>3, <2>1, WithinList
    <2> QED BY <1>12, <2>2, ListFacts, SeqMonotonic
  <1>14. rels \subseteq governed /\ \A c \in rels : ParentOf[c] \in governed
    BY <1>4 DEF Relations, Nodes
  <1>15. rels \in SUBSET Item
    BY <1>12, <1>14
  <1>16. /\ e.sources \in Seq(Item) /\ Elements(e.sources) \subseteq Elements(sources)
         /\ e.rels \in SUBSET rels
         /\ IsList(e.semantics) /\ Elements(e.semantics) \subseteq Elements(turn.semantic)
         /\ Ambiguous(turn.r) # {} => e.status = "clarification_required"
    <2>1. PICK q, r, seeds, semantics : /\ q = turn.q /\ r = turn.r
                                        /\ seeds = turn.seeds /\ semantics = turn.semantic
      OBVIOUS
    <2>2. q \in Questions /\ semantics \in Seq(Item) /\ e = Select(q, k, r, seeds, sources, rels, semantics)
      BY <1>5, <1>11, <2>1
    <2>3. SelectedFrom(e, r, sources, rels, semantics)
      BY <1>13, <1>15, <2>2, SelectFacts
    <2> QED BY <2>1, <2>3 DEF SelectedFrom
  <1>17. support \in SUBSET e.rels
    <2>1. e.rels \in SUBSET Item
      BY <1>15, <1>16
    <2> QED BY <1>7, <1>11, <2>1, SupportFacts
  <1>18. Purpose(turn.q, k, e) \subseteq Elements(e.semantics)
    BY DEF Purpose
  <1>19. Elements(e.sources) \cup Ends(e.rels) \cup Elements(e.semantics) \cup ids \subseteq turn.seen
    <2>1. Elements(e.sources) \subseteq turn.seen /\ Elements(e.semantics) \subseteq turn.seen
      BY <1>11, <1>13, <1>16
    <2>2. \A c \in e.rels : c \in turn.seen /\ ParentOf[c] \in turn.seen
      BY <1>11, <1>14, <1>16
    <2>3. Ends(e.rels) \subseteq turn.seen
      BY <2>2 DEF Ends
    <2>4. basis \subseteq turn.seen
      BY <1>8, <1>17, <1>18, <2>1, <2>2
    <2> QED BY <1>9, <2>1, <2>3, <2>4
  <1>20. ASSUME turn.mode = "DIRECT", decision \in Answers PROVE Settled
    <2>1. ~turn.q.executes /\ e.status # "clarification_required"
      BY <1>9, <1>20 DEF Decide, Answers
    <2>2. Ambiguous(turn.r) = {}
      BY <1>16, <2>1
    <2> QED BY <1>11, <1>20, <2>1, <2>2 DEF Inv, TurnInv, AskedBack
  <1> QED BY <1>10, <1>11, <1>16, <1>19, <1>20, ConcludedStep

\* What the writer makes of the evidence is an answer or an abstention.
LEMMA WriteStep ==
    ASSUME Inv, NEW d \in {"GROUNDED_LLM", "ABSTENTION"}, Write(d)
    PROVE  Inv'
  <1>1. StoreInv'
    BY StoreFrame DEF Inv, Write
  <1>2. /\ turn.phase = "writing" /\ turn = DoneFields(turn) /\ turn.decision \in Answers
    BY DEF Inv, TurnInv, TurnTyped, AskedBack, Write, At, Concluding
  <1>3. /\ turn'.phase = "decided" /\ turn' = DoneFields(turn)'
        /\ turn'.conv = turn.conv /\ turn'.q = turn.q /\ turn'.loaded = turn.loaded
        /\ turn'.hinted = turn.hinted /\ turn'.version = turn.version /\ turn'.mode = turn.mode
        /\ turn'.inherited = turn.inherited /\ turn'.seen = turn.seen /\ turn'.touched = turn.touched
        /\ turn'.evidence = turn.evidence /\ turn'.ids = turn.ids /\ turn'.next = turn.next
    BY <1>2 DEF Write, DoneFields
  <1>4. turns' = turns /\ known' = known /\ since' = since /\ know' = know
    BY DEF Write, History, World
  <1>5. TurnTyped'
    BY <1>2, <1>3, <1>4 DEF Inv, TurnInv, TurnTyped, Asking, Looking, Running, Reading, Concluding
  <1>6. TurnSound'
    BY <1>2, <1>3 DEF Inv, TurnInv, TurnSound, Sensible, Asking, Looking, Running, Concluding
  <1>7. Governed'
    BY <1>2, <1>3, <1>4 DEF Inv, TurnInv, Governed, AnswersAreGoverned, Reading, Concluding
  <1>8. TurnEarned'
    BY <1>2, <1>3, <1>4 DEF Inv, TurnInv, TurnEarned, InOrderOf, Asking, Looking, Running, Reading, Concluding
  <1>9. AskedBack'
    <2>1. Settled' <=> Settled
      BY <1>3, <1>4, ReadingFrame
    <2>2. turn.mode = "DIRECT" => Settled
      BY <1>2 DEF Inv, TurnInv, AskedBack, AmbiguityIsAsked, Concluding, Settled
    <2>3. AmbiguityIsAsked'
      BY <1>3, <2>1, <2>2 DEF AmbiguityIsAsked, Settled
    <2> QED BY <1>3, <2>3 DEF AskedBack
  <1> QED BY <1>1, <1>5, <1>6, <1>7, <1>8, <1>9 DEF Inv, TurnInv

\* A turn that fails is forgotten.
LEMMA FailStep ==
    ASSUME Inv, Fail
    PROVE  Inv'
  <1>1. StoreInv'
    BY StoreFrame DEF Inv, Fail
  <1>2. TurnInv'
    BY IdleTurn DEF Fail
  <1> QED BY <1>1, <1>2 DEF Inv

------------------------------------------------------------------------------
(* The steps that touch the store. *)

\* Asking moves the conversation to the end of the store and takes its context.
LEMMA AskStep ==
    ASSUME Inv, NEW c \in Conversations, NEW request \in Requests, Ask(c, request)
    PROVE  Inv'
  <1>1. /\ turn.phase = "idle" /\ turns < MaxTurns /\ store' = Touch(store, c)
        /\ UNCHANGED <<World, History>>
    BY DEF Ask, At
  <1>2. PICK s : s = store
    OBVIOUS
  <1>3. PICK state : state = Load(s, c)
    OBVIOUS
  <1>4. /\ s \in Seq(StoreRow) /\ Len(s) <= MaxEntries /\ Distinct(s)
        /\ \A e \in Elements(s) : /\ e.state.version # 0 /\ Sensible(e.state)
                                  /\ EarnedBy(e.state, known[e.conv]) /\ InOrderOf(e.state, e.conv)
    BY <1>2 DEF Inv, StoreInv, WorldTyped, StoreSound, StoreEarned
  <1>5. \/ Entry(s, c) = {} /\ state = NoState
        \/ \E e \in Elements(s) : Entry(s, c) # {} /\ e.conv = c /\ state = e.state
    <2>1. Entry(s, c) # {} => \E e \in Entry(s, c) : state = e.state
      BY <1>3, Zenon DEF Load
    <2>2. Entry(s, c) = {} => state = NoState
      BY <1>3 DEF Load
    <2> QED BY <2>1, <2>2 DEF Entry
  <1>6. NoState \in States /\ Sensible(NoState) /\ NoState.screen = NoEntity /\ NoState.module = NoEntity
    BY DEF NoState, States, Entities, NoEntity, Sensible
  <1>7. /\ state \in States /\ Sensible(state)
        /\ EarnedBy(state, known[c]) /\ InOrderOf(state, c)
        /\ Entry(s, c) # {} => state.version # 0
    <2>1. CASE state = NoState /\ Entry(s, c) = {}
      BY <1>6, <2>1 DEF EarnedBy, InOrderOf
    <2>2. ASSUME NEW e \in Elements(s), e.conv = c, state = e.state
          PROVE  /\ state \in States /\ Sensible(state)
                 /\ EarnedBy(state, known[c]) /\ InOrderOf(state, c) /\ state.version # 0
      <3>1. e \in StoreRow
        BY <1>4, ListFacts
      <3> QED BY <1>4, <2>2, <3>1 DEF StoreRow
    <2> QED BY <1>5, <2>1, <2>2
  <1>8. PICK w : w = Touch(s, c)
    OBVIOUS
  <1>9. /\ w \in Seq(StoreRow) /\ Len(w) <= MaxEntries /\ Distinct(w)
        /\ \A e \in Elements(w) : /\ e.state.version # 0 /\ Sensible(e.state)
                                  /\ EarnedBy(e.state, known[e.conv]) /\ InOrderOf(e.state, e.conv)
    <2>1. CASE Entry(s, c) = {}
      BY <1>4, <1>8, <2>1 DEF Touch
    <2>2. CASE Entry(s, c) # {}
      <3>1. w = Put(s, c, state)
        BY <1>3, <1>8, <2>2 DEF Touch
      <3>2. /\ w \in Seq(StoreRow) /\ Len(w) \in 1 .. Len(s) + 1 /\ Len(w) <= Len(s)
            /\ \A e \in Elements(w) : \/ e \in Elements(s) /\ e.conv # c
                                      \/ e = [conv |-> c, state |-> state]
            /\ Distinct(w)
        BY <1>4, <1>7, <2>2, <3>1, PutFacts
      <3>3. Len(w) <= MaxEntries
        <4>1. PICK l, m, n \in Nat : l = Len(s) /\ m = Len(w) /\ n = MaxEntries
          <5>1. Len(s) \in Nat /\ Len(w) \in Nat /\ MaxEntries \in Nat
            BY <1>4, <3>2, ListFacts, ChatAssumption
          <5> QED BY <5>1
        <4> QED BY <1>4, <3>2, <4>1
      <3>4. ASSUME NEW e \in Elements(w)
            PROVE  /\ e.state.version # 0 /\ Sensible(e.state)
                   /\ EarnedBy(e.state, known[e.conv]) /\ InOrderOf(e.state, e.conv)
        <4>1. CASE e \in Elements(s)
          BY <1>4, <4>1
        <4>2. CASE e = [conv |-> c, state |-> state]
          <5>1. e.conv = c /\ e.state = state
            BY <4>2
          <5> QED BY <1>7, <2>2, <5>1
        <4> QED BY <3>2, <4>1, <4>2
      <3> QED BY <3>2, <3>3, <3>4
    <2> QED BY <2>1, <2>2
  <1>10. /\ store' = w /\ know' = know /\ active' = active /\ graph' = graph /\ reviews' = reviews
         /\ turns' = turns /\ known' = known /\ since' = since
    BY <1>1, <1>2, <1>8 DEF World, History
  <1>11. StoreInv'
    <2>1. WorldTyped'
      BY <1>9, <1>10 DEF Inv, StoreInv, WorldTyped
    <2>2. StoreSound'
      BY <1>9, <1>10 DEF StoreSound
    <2>3. StoreEarned'
      BY <1>9, <1>10 DEF Inv, StoreInv, StoreEarned, InOrderOf
    <2> QED BY <2>1, <2>2, <2>3 DEF StoreInv
  <1>12. turn' = [phase |-> "asked", conv |-> c, q |-> request.q, route |-> request.route,
                  condition |-> request.condition, graph |-> request.graph,
                  loaded |-> state, prev |-> state, hinted |-> {}]
    BY <1>2, <1>3 DEF Ask
  <1>13. /\ turn'.phase = "asked" /\ turn' = AskedFields(turn)' /\ turn'.conv = c /\ turn'.q = request.q
         /\ turn'.loaded = state /\ turn'.prev = state /\ turn'.hinted = {}
    BY <1>12 DEF AskedFields
  <1>14. request.q \in Questions
    BY ChatAssumption
  <1>15. TurnTyped'
    BY <1>1, <1>7, <1>10, <1>13, <1>14 DEF TurnTyped, Asking, Looking, Running, Reading, Concluding
  <1>16. TurnSound'
    BY <1>7, <1>13 DEF TurnSound, Sensible, Asking, Looking, Concluding
  <1>17. TurnEarned'
    <2>1. EarnedBy(state, known[c] \cup {})
      BY <1>7 DEF EarnedBy
    <2> QED BY <1>7, <1>10, <1>13, <2>1 DEF TurnEarned, InOrderOf, Reading, Concluding
  <1>18. Governed' /\ AskedBack'
    BY <1>13 DEF Governed, AskedBack, AmbiguityIsAsked, AnswersAreGoverned, Reading, Concluding
  <1> QED BY <1>11, <1>15, <1>16, <1>17, <1>18 DEF Inv, TurnInv

\* What a delivered turn leaves: its context in the store, and what the conversation was shown.
LEMMA DeliverStep ==
    ASSUME Inv, Deliver
    PROVE  Inv'
  <1>1. PICK c, next, v, loaded, hinted, sources :
           /\ c = turn.conv /\ next = turn.next /\ v = turn.version /\ loaded = turn.loaded
           /\ hinted = turn.hinted /\ sources = turn.evidence.sources
    OBVIOUS
  <1>2. PICK s : s = store
    OBVIOUS
  <1>3. /\ turns < MaxTurns /\ c \in Conversations /\ next \in States /\ next.version = v
        /\ v \in Versions /\ hinted \in SUBSET Pairs /\ sources \in Seq(Item)
        /\ Sensible(next) /\ InOrderOf(loaded, c)
        /\ EarnedBy(next, known[c] \cup hinted \cup Told(v, sources))
        /\ next.module # NoEntity => \/ ModuleIn(sources)
                                     \/ next.screen.id = loaded.screen.id /\ loaded.module # NoEntity
    BY <1>1 DEF Inv, TurnInv, TurnTyped, TurnSound, TurnEarned, Deliver, At, Running, Reading, Concluding
  <1>4. /\ s \in Seq(StoreRow) /\ Distinct(s)
        /\ \A e \in Elements(s) : /\ e.state.version # 0 /\ Sensible(e.state)
                                  /\ EarnedBy(e.state, known[e.conv]) /\ InOrderOf(e.state, e.conv)
    BY <1>2 DEF Inv, StoreInv, WorldTyped, StoreSound, StoreEarned
  <1>5. PICK w : w = Save(s, c, next)
    OBVIOUS
  <1>6. /\ w \in Seq(StoreRow) /\ Len(w) <= MaxEntries /\ Distinct(w)
        /\ \A e \in Elements(w) : \/ e \in Elements(s) /\ e.conv # c
                                  \/ e = [conv |-> c, state |-> next]
    BY <1>3, <1>4, <1>5, SaveFacts
  <1>7. PICK moved : moved = (next.screen.id # loaded.screen.id)
    OBVIOUS
  <1>8. PICK known2 : known2 = [known EXCEPT ![c] = @ \cup hinted \cup Told(v, sources)]
    OBVIOUS
  <1>9. PICK t, sc, md \in Nat : /\ t = turns + 1
                                 /\ sc = IF next.screen.id # loaded.screen.id THEN t ELSE since[c].screen
                                 /\ md = IF ModuleIn(sources) THEN t ELSE since[c].module
    <2>1. PICK n \in Nat : n = turns
      BY ChatAssumption DEF Inv, StoreInv, WorldTyped
    <2>2. since[c].screen \in Nat /\ since[c].module \in Nat
      BY <1>3 DEF Inv, StoreInv, WorldTyped
    <2>3. n + 1 \in Nat
      OBVIOUS
    <2> QED BY <2>1, <2>2, <2>3
  <1>10. /\ store' = w /\ turns' = t /\ known' = known2
         /\ since' = [since EXCEPT ![c].screen = sc, ![c].module = md]
         /\ turn' = Idle /\ know' = know /\ active' = active /\ graph' = graph /\ reviews' = reviews
    BY <1>1, <1>2, <1>5, <1>8, <1>9 DEF Deliver, World, Told, ModuleIn
  <1>11. /\ since' \in [Conversations -> [screen : Nat, module : Nat]]
         /\ since'[c] = [screen |-> sc, module |-> md]
         /\ \A d \in Conversations : d # c => since'[d] = since[d]
    <2>1. since \in [Conversations -> [screen : Nat, module : Nat]]
      BY DEF Inv, StoreInv, WorldTyped
    <2> QED BY <1>3, <1>9, <1>10, <2>1
  <1>12. /\ known2 \in [Conversations -> SUBSET Pairs]
         /\ known2[c] = known[c] \cup hinted \cup Told(v, sources)
         /\ \A d \in Conversations : d # c => known2[d] = known[d]
    <2>1. Told(v, sources) \in SUBSET Pairs
      <3>1. Elements(sources) \subseteq Item
        BY <1>3, ListFacts
      <3> QED BY <1>3, <3>1 DEF Told, Pairs
    <2>2. known \in [Conversations -> SUBSET Pairs]
      BY DEF Inv, StoreInv, WorldTyped
    <2> QED BY <1>3, <1>8, <2>1, <2>2
  <1>13. WorldTyped'
    <2>1. t \in 0 .. MaxTurns
      <3>1. PICK n, l \in Nat : n = turns /\ l = MaxTurns
        BY ChatAssumption DEF Inv, StoreInv, WorldTyped
      <3> QED BY <1>3, <1>9, <3>1
    <2> QED BY <1>6, <1>10, <1>11, <1>12, <2>1 DEF Inv, StoreInv, WorldTyped
  <1>14. StoreSound'
    <2>1. next.version # 0
      BY <1>3, ChatAssumption
    <2>2. ASSUME NEW e \in Elements(w) PROVE e.state.version # 0 /\ Sensible(e.state)
      <3>1. CASE e \in Elements(s)
        BY <1>4, <3>1
      <3>2. CASE e = [conv |-> c, state |-> next]
        <4>1. e.state = next
          BY <3>2
        <4> QED BY <1>3, <2>1, <4>1
      <3> QED BY <1>6, <3>1, <3>2
    <2> QED BY <1>6, <1>10, <2>2 DEF StoreSound
  <1>15. next.module # NoEntity => md >= sc
    <2>1. PICK a, b, n \in Nat : a = since[c].screen /\ b = since[c].module /\ n = turns /\ a <= n /\ b <= n
      <3>1. since[c].screen \in Nat /\ since[c].module \in Nat
        BY <1>3 DEF Inv, StoreInv, WorldTyped
      <3>2. turns \in Nat
        BY ChatAssumption DEF Inv, StoreInv, WorldTyped
      <3>3. since[c].screen <= turns /\ since[c].module <= turns
        BY <1>3 DEF Inv, StoreInv, StoreEarned
      <3> QED BY <3>1, <3>2, <3>3
    <2>2. t = n + 1
      BY <1>9, <2>1
    <2>3. CASE ModuleIn(sources)
      BY <1>9, <2>1, <2>2, <2>3
    <2>4. ASSUME next.screen.id = loaded.screen.id, loaded.module # NoEntity PROVE md >= sc
      <3>1. b >= a
        BY <1>3, <2>1, <2>4 DEF InOrderOf
      <3>2. sc = a /\ (md = t \/ md = b)
        BY <1>9, <2>1, <2>4
      <3> QED BY <2>1, <2>2, <3>1, <3>2
    <2> QED BY <1>3, <2>3, <2>4
  <1>16. StoreEarned'
    <2>1. ASSUME NEW e \in Elements(w)
          PROVE  /\ EarnedBy(e.state, known2[e.conv])
                 /\ e.state.module # NoEntity => since'[e.conv].module >= since'[e.conv].screen
      <3>1. ASSUME e \in Elements(s), e.conv # c
            PROVE  /\ EarnedBy(e.state, known2[e.conv])
                   /\ e.state.module # NoEntity => since'[e.conv].module >= since'[e.conv].screen
        <4>1. e \in StoreRow
          BY <1>4, <3>1, ListFacts
        <4>2. e.conv \in Conversations
          BY <4>1 DEF StoreRow
        <4> QED BY <1>4, <1>11, <1>12, <3>1, <4>2 DEF InOrderOf
      <3>2. CASE e = [conv |-> c, state |-> next]
        <4>1. e.conv = c /\ e.state = next
          BY <3>2
        <4>2. since'[c].module = md /\ since'[c].screen = sc
          BY <1>11
        <4> QED BY <1>3, <1>12, <1>15, <4>1, <4>2
      <3> QED BY <1>6, <3>1, <3>2
    <2>2. \A d \in Conversations : since'[d].screen <= t /\ since'[d].module <= t
      <3> TAKE d \in Conversations
      <3>1. PICK a, b, n \in Nat : a = since[d].screen /\ b = since[d].module /\ n = turns /\ a <= n /\ b <= n
        BY ChatAssumption DEF Inv, StoreInv, WorldTyped, StoreEarned
      <3>2. t = n + 1
        BY <1>9, <3>1
      <3>3. CASE d # c
        BY <1>11, <3>1, <3>2, <3>3
      <3>4. CASE d = c
        <4>1. (sc = t \/ sc = a) /\ (md = t \/ md = b)
          BY <1>9, <3>1, <3>4
        <4>2. since'[d].screen = sc /\ since'[d].module = md
          BY <1>11, <3>4
        <4> QED BY <3>1, <3>2, <4>1, <4>2
      <3> QED BY <3>3, <3>4
    <2> QED BY <1>10, <2>1, <2>2 DEF StoreEarned, InOrderOf
  <1>17. TurnInv'
    BY <1>10, IdleTurn
  <1> QED BY <1>13, <1>14, <1>16, <1>17 DEF Inv, StoreInv

\* An entry that expires leaves the others as they are.
LEMMA ExpireStep ==
    ASSUME Inv, Expire
    PROVE  Inv'
  <1>1. PICK s, w : s = store /\ w = Tail(s)
    OBVIOUS
  <1>2. /\ s \in Seq(StoreRow) /\ s # <<>> /\ Distinct(s) /\ Len(s) <= MaxEntries
        /\ store' = w /\ UNCHANGED <<World, turn, History>>
    BY <1>1 DEF Inv, StoreInv, WorldTyped, StoreSound, Expire
  <1>3. /\ w \in Seq(StoreRow) /\ Len(w) <= MaxEntries
        /\ Elements(w) \subseteq Elements(s) /\ Distinct(w)
    <2>1. PICK l, m \in Nat : l = Len(s) /\ m = MaxEntries
      BY <1>2, ChatAssumption
    <2>2. l # 0
      BY <1>2, <2>1, EmptySeq
    <2>3. PICK n \in 1 .. Len(s) + 1 : n = 2
      BY <2>1, <2>2
    <2>4. w = SubSeq(s, n, Len(s))
      BY <1>1, <1>2, <2>3, TailIsSubSeq
    <2>5. /\ w \in Seq(StoreRow) /\ Len(w) = Len(s) - n + 1
          /\ Elements(w) \subseteq Elements(s) /\ (Distinct(s) => Distinct(w))
      BY <1>2, <2>4, SuffixFacts
    <2>6. Len(w) <= MaxEntries
      BY <1>2, <2>1, <2>3, <2>5
    <2> QED BY <1>2, <2>5, <2>6
  <1>4. /\ know' = know /\ active' = active /\ graph' = graph /\ reviews' = reviews
        /\ turns' = turns /\ known' = known /\ since' = since /\ turn' = turn
    BY <1>2 DEF World, History
  <1>5. StoreInv'
    <2>1. WorldTyped'
      BY <1>2, <1>3, <1>4 DEF Inv, StoreInv, WorldTyped
    <2>2. StoreSound'
      BY <1>1, <1>2, <1>3, <1>4 DEF Inv, StoreInv, StoreSound
    <2>3. StoreEarned'
      BY <1>1, <1>2, <1>3, <1>4 DEF Inv, StoreInv, StoreEarned, InOrderOf
    <2> QED BY <2>1, <2>2, <2>3 DEF StoreInv
  <1>6. TurnInv'
    BY <1>4 DEF Inv, TurnInv, TurnTyped, TurnSound, Governed, TurnEarned, AskedBack, AmbiguityIsAsked,
                AnswersAreGoverned, InOrderOf, OneReading, Crowded, Contenders, Settled, Named, Homonyms, Firm,
                Running, Asking, Looking, Reading, Concluding, AskedFields, ReadFields, DoneFields
  <1> QED BY <1>5, <1>6 DEF Inv

------------------------------------------------------------------------------
(* The steps of the reviewers, the promotion and the projection. *)

\* A review changes one item, which the turn in course takes note of.
LEMMA ReviewStep ==
    ASSUME Inv, NEW v, NEW i, NEW status \in Statuses, Review(v, i, status)
    PROVE  Inv'
  <1>1. PICK row \in Rows : know' = [know EXCEPT ![v][i] = row] /\ row.status = status
    <2>1. PICK row : row = [status |-> status,
                            fixed |-> status = "CORRECTED" \/ (know[v][i].fixed /\ status # "PENDING")]
      OBVIOUS
    <2>2. row \in Rows /\ row.status = status
      BY <2>1 DEF Rows
    <2> QED BY <2>1, <2>2 DEF Review
  <1>2. /\ i \in DOMAIN know[v] /\ reviews < MaxReviews /\ reviews' = reviews + 1
        /\ active' = active /\ graph' = graph /\ store' = store
        /\ turns' = turns /\ known' = known /\ since' = since
    BY DEF Review, History
  <1>3. /\ know = [u \in Versions |-> know[u]]
        /\ \A u \in Versions : know[u] \in [Imported[u] -> Rows] /\ Imported[u] \in SUBSET Item
    BY ChatAssumption DEF Inv, StoreInv, WorldTyped
  <1>4. /\ know' = [u \in Versions |-> know'[u]] /\ \A u \in Versions : know'[u] \in [Imported[u] -> Rows]
        /\ \A u \in Versions : \A j \in Imported[u] : (u # v \/ j # i) => know'[u][j] = know[u][j]
        /\ \A u \in Versions : u # v => know'[u] = know[u]
        /\ v \in Versions => know'[v][i] = row
    BY <1>1, <1>2, <1>3
  <1>5. StoreInv'
    <2>1. reviews' \in 0 .. MaxReviews
      <3>1. PICK n, m \in Nat : n = reviews /\ m = MaxReviews
        BY ChatAssumption DEF Inv, StoreInv, WorldTyped
      <3> QED BY <1>2, <3>1
    <2>2. WorldTyped'
      BY <1>2, <1>4, <2>1 DEF Inv, StoreInv, WorldTyped
    <2>3. StoreSound'
      BY <1>2 DEF Inv, StoreInv, StoreSound
    <2>4. StoreEarned'
      BY <1>2 DEF Inv, StoreInv, StoreEarned, InOrderOf
    <2> QED BY <2>2, <2>3, <2>4 DEF StoreInv
  <1>6. CASE ~(Reading /\ turn.version = v)
    <2>1. turn' = turn
      BY <1>6 DEF Review
    <2>2. Reading => know'[turn.version] = know[turn.version]
      BY <1>4, <1>6 DEF Inv, TurnInv, TurnTyped
    <2>3. TurnTyped' /\ TurnSound' /\ TurnEarned'
      BY <1>2, <2>1 DEF Inv, TurnInv, TurnTyped, TurnSound, TurnEarned, InOrderOf,
                        Running, Asking, Looking, Reading, Concluding, AskedFields, ReadFields, DoneFields
    <2>4. Governed'
      BY <2>1, <2>2 DEF Inv, TurnInv, Governed, AnswersAreGoverned, Reading, Concluding
    <2>5. Reading => (Settled' <=> Settled)
      BY <2>1, <2>2 DEF Settled, OneReading, Crowded, Contenders, Named, Homonyms, Firm
    <2>6. AskedBack'
      <3>1. Reading => (Crowded' <=> Crowded)
        BY <2>1, <2>2 DEF Crowded, Contenders, Named
      <3> QED BY <2>1, <2>2, <2>5, <3>1
              DEF Inv, TurnInv, AskedBack, AmbiguityIsAsked, Settled, Named, Firm, Reading, Concluding
    <2> QED BY <1>5, <2>3, <2>4, <2>6 DEF Inv, TurnInv
  <1>7. CASE Reading /\ turn.version = v
    <2>1. PICK seen : seen = IF status \in Publishable THEN turn.seen \cup {i} ELSE turn.seen
      OBVIOUS
    <2>2. turn' = [turn EXCEPT !.touched = @ \cup {i}, !.seen = seen]
      BY <1>7, <2>1 DEF Review
    <2>3. v \in Versions /\ turn.seen \in SUBSET Item /\ turn.touched \in SUBSET Item
      BY <1>7 DEF Inv, TurnInv, TurnTyped
    <2>4. i \in Imported[v] /\ i \in Item
      BY <1>2, <1>3, <2>3
    <2>5. /\ Looking => turn = ReadFields(turn)
          /\ Concluding => turn = DoneFields(turn)
      BY DEF Inv, TurnInv, TurnTyped
    <2>6. ASSUME Looking
          PROVE  /\ turn'.phase = turn.phase /\ turn' = ReadFields(turn)'
                 /\ turn'.conv = turn.conv /\ turn'.q = turn.q /\ turn'.loaded = turn.loaded
                 /\ turn'.prev = turn.prev /\ turn'.hinted = turn.hinted /\ turn'.version = turn.version
                 /\ turn'.r = turn.r /\ turn'.mode = turn.mode /\ turn'.inherited = turn.inherited
                 /\ turn'.seen = seen /\ turn'.touched = turn.touched \cup {i}
                 /\ turn'.semantic = turn.semantic /\ turn'.fused = turn.fused /\ turn'.walks = turn.walks
      BY <2>2, <2>5, <2>6 DEF ReadFields
    <2>7. ASSUME Concluding
          PROVE  /\ turn'.phase = turn.phase /\ turn' = DoneFields(turn)'
                 /\ turn'.conv = turn.conv /\ turn'.q = turn.q /\ turn'.loaded = turn.loaded
                 /\ turn'.hinted = turn.hinted /\ turn'.version = turn.version
                 /\ turn'.mode = turn.mode /\ turn'.inherited = turn.inherited
                 /\ turn'.seen = seen /\ turn'.touched = turn.touched \cup {i}
                 /\ turn'.evidence = turn.evidence /\ turn'.ids = turn.ids
                 /\ turn'.decision = turn.decision /\ turn'.next = turn.next
      BY <2>2, <2>5, <2>7 DEF DoneFields
    <2>8. Looking \/ Concluding
      BY <1>7 DEF Reading, Looking, Concluding
    <2>9. /\ turn'.version = v /\ turn'.q = turn.q /\ turn'.phase = turn.phase /\ turn'.mode = turn.mode
          /\ turn'.seen = seen /\ turn'.touched = turn.touched \cup {i}
          /\ turn.seen \subseteq seen /\ seen \in SUBSET Item /\ seen \subseteq turn.seen \cup {i}
      BY <1>7, <2>1, <2>3, <2>4, <2>6, <2>7, <2>8
    <2>10. PICK k, k2 : k = know[v] /\ k2 = know'[v]
      OBVIOUS
    <2>11. /\ k \in [Imported[v] -> Rows] /\ k2 \in [Imported[v] -> Rows] /\ k2[i] = row
           /\ \A j \in Imported[v] : j # i => k2[j] = k[j]
      BY <1>3, <1>4, <2>3, <2>10
    <2>12. \A j \in Item : j # i => /\ (j \in Reviewed(k2) <=> j \in Reviewed(k))
      BY <2>11 DEF Reviewed
    <2>13. i \in Reviewed(k2) => status \in Publishable
      BY <1>1, <2>11 DEF Reviewed
    <2>14. \A j \in turn.seen \ turn.touched : j \in Reviewed(k)
      BY <1>7, <2>10 DEF Inv, TurnInv, Governed
    <2>15. Reviewed(k) \subseteq turn.seen /\ Reviewed(k2) \in SUBSET Item
      BY <1>3, <1>7, <2>3, <2>10, <2>11 DEF Inv, TurnInv, Governed, Reviewed
    <2>16. \A j \in Item : Firm(j)' => Firm(j) /\ j # i
      BY <2>9 DEF Firm
    <2>17. \A j \in turn.seen \ turn.touched : j # i => Matched(k2, j) = Matched(k, j)
      BY <2>11, <2>14 DEF Matched, Reviewed
    <2>18. TurnTyped'
      <3> turn.touched \cup {i} \in SUBSET Item
        BY <2>3, <2>4
      <3>1. CASE Looking
        <4>1. /\ turn.phase \in {"understood", "narrowed", "searched"}
              /\ turns < MaxTurns /\ turn.conv \in Conversations /\ turn.q \in Questions
              /\ turn.loaded \in States /\ turn.hinted \in SUBSET Pairs /\ turn.prev \in States
              /\ turn.version \in Versions /\ turn.inherited \in Entities /\ IsFiniteSet(turn.r)
              /\ turn.phase = "searched" =>
                   /\ turn.semantic \in Seq(Item) /\ IsList(turn.fused)
                   /\ IsList(turn.walks) /\ \A w \in Elements(turn.walks) : IsFiniteSet(Nodes(w))
          BY <3>1 DEF Inv, TurnInv, TurnTyped, Looking, Running, Reading
        <4> QED BY <1>2, <2>6, <2>9, <3>1, <4>1 DEF TurnTyped, Asking, Looking, Running, Reading, Concluding
      <3>2. CASE Concluding
        <4>1. /\ turn.phase \in {"writing", "decided"}
              /\ turns < MaxTurns /\ turn.conv \in Conversations /\ turn.q \in Questions
              /\ turn.loaded \in States /\ turn.hinted \in SUBSET Pairs
              /\ turn.version \in Versions /\ turn.inherited \in Entities
              /\ turn.evidence.sources \in Seq(Item)
              /\ turn.next \in States /\ turn.next.version = turn.version
          BY <3>2 DEF Inv, TurnInv, TurnTyped, Running, Reading, Concluding
        <4> QED BY <1>2, <2>7, <2>9, <3>2, <4>1 DEF TurnTyped, Asking, Looking, Running, Reading, Concluding
      <3> QED BY <2>8, <3>1, <3>2
    <2>19. TurnSound' /\ TurnEarned'
      <3>1. CASE Looking
        BY <1>2, <2>6, <3>1 DEF Inv, TurnInv, TurnSound, TurnEarned, InOrderOf, Asking, Looking, Running, Reading, Concluding
      <3>2. CASE Concluding
        BY <1>2, <2>7, <3>2 DEF Inv, TurnInv, TurnSound, TurnEarned, InOrderOf, Asking, Looking, Running, Reading, Concluding
      <3> QED BY <2>8, <3>1, <3>2
    <2>20. Reviewed(k2) \subseteq seen
      BY <2>1, <2>12, <2>13, <2>15
    <2>21. seen \ (turn.touched \cup {i}) \subseteq Reviewed(k2)
      BY <2>3, <2>9, <2>12, <2>14
    <2>22. Governed'
      <3>1. (know[turn.version])' = k2
        BY <2>9, <2>10
      <3>2. CASE Looking
        BY <2>6, <2>9, <2>20, <2>21, <3>1, <3>2
           DEF Inv, TurnInv, Governed, AnswersAreGoverned, Looking, Reading, Concluding
      <3>3. CASE Concluding
        BY <2>7, <2>9, <2>20, <2>21, <3>1, <3>3
           DEF Inv, TurnInv, Governed, AnswersAreGoverned, Reading, Concluding
      <3> QED BY <2>8, <3>2, <3>3
    <2>23. ASSUME OneReading PROVE OneReading'
      <3>1. ASSUME NEW s \in turn.seen, TypeOf[s] = "screen", Named(s) \/ s \in turn.touched
            PROVE  OneReading'
        <4>1. s \in seen
          BY <2>9, <3>1
        <4>2. CASE s \in turn.touched \cup {i}
          BY <2>9, <3>1, <4>1, <4>2 DEF OneReading
        <4>3. CASE s \notin turn.touched \cup {i}
          <5>1. Matched(k2, s) = Matched(k, s)
            BY <2>17, <3>1, <4>3
          <5>2. turn.q.says[Matched(k, s)] >= 97
            BY <1>7, <2>10, <3>1, <4>3 DEF Named
          <5>3. Named(s)'
            BY <2>9, <2>10, <5>1, <5>2 DEF Named
          <5> QED BY <2>9, <3>1, <4>1, <5>3 DEF OneReading
        <4> QED BY <4>2, <4>3
      <3>2. ASSUME ~\E m, n \in Item : /\ Firm(m) /\ Firm(n) /\ Homonyms(m, n) /\ Named(m)
                                      /\ TypeOf[m] \in Elements(Targets[turn.q.intent])
            PROVE  OneReading'
        <4>1. ASSUME NEW m \in Item, NEW n \in Item, Firm(m)', Firm(n)', Homonyms(m, n)', Named(m)',
                     TypeOf[m] \in Elements(Targets[turn.q.intent])
              PROVE  FALSE
          <5>1. Firm(m) /\ Firm(n) /\ m # i /\ n # i
            BY <2>16, <4>1
          <5>2. Matched(k2, m) = Matched(k, m) /\ Matched(k2, n) = Matched(k, n)
            BY <2>17, <5>1 DEF Firm
          <5>3. /\ m # n /\ TypeOf[m] = TypeOf[n] /\ Matched(k2, m) = Matched(k2, n)
                /\ turn.q.says[Matched(k2, m)] >= 97
            BY <2>9, <2>10, <4>1 DEF Homonyms, Named
          <5>4. Homonyms(m, n) /\ Named(m)
            BY <1>7, <2>10, <5>2, <5>3 DEF Homonyms, Named
          <5> QED BY <3>2, <4>1, <5>1, <5>4
        <4> QED BY <2>9, <4>1 DEF OneReading
      <3> QED BY <2>23, <3>1, <3>2 DEF OneReading
    <2>24. ASSUME Crowded PROVE Crowded'
      <3>1. \A j \in turn.seen \ turn.touched : j # i => k2[j].status = k[j].status
        BY <2>11, <2>14 DEF Reviewed
      <3>2. know[turn.version] = k /\ know'[turn'.version] = k2
        BY <1>7, <2>9, <2>10
      <3> QED BY <2>3, <2>9, <2>17, <2>24, <3>1, <3>2, CrowdedStays
    <2>25. Settled => Settled'
      BY <2>23, <2>24 DEF Settled
    <2>26. AskedBack'
      <3>1. ASSUME turn.phase = "understood", NEW j \in Item, Firm(j)', ~Crowded',
                   TypeOf[j] \in Elements(Targets[turn.q.intent]), turn.q.says[Matched(k2, j)] >= 97
            PROVE  FoundAs(k2, turn.q, j) \in turn.r
        <4>1. Firm(j) /\ Matched(k2, j) = Matched(k, j)
          BY <2>16, <2>17, <3>1 DEF Firm
        <4>2. Score(k2, turn.q, j) = Score(k, turn.q, j) /\ FoundAs(k2, turn.q, j) = FoundAs(k, turn.q, j)
          BY <4>1 DEF Score, FoundAs
        <4>3. Named(j) /\ ~Crowded
          BY <1>7, <2>10, <2>24, <3>1, <4>1 DEF Named
        <4> QED BY <1>7, <2>10, <3>1, <4>1, <4>2, <4>3 DEF Inv, TurnInv, AskedBack
      <3>2. (know[turn.version])' = k2
        BY <2>9, <2>10
      <3>3. CASE Looking
        <4>1. turn'.r = turn.r
          BY <2>6, <3>3
        <4>2. \A j \in Item : Named(j)' <=> turn.q.says[Matched(k2, j)] >= 97
          BY <2>9, <3>2 DEF Named
        <4> QED BY <2>9, <2>25, <3>1, <3>2, <3>3, <4>1, <4>2
               DEF Inv, TurnInv, AskedBack, AmbiguityIsAsked, Looking, Concluding
      <3>4. CASE Concluding
        BY <2>7, <2>9, <2>25, <3>4 DEF Inv, TurnInv, AskedBack, AmbiguityIsAsked, Settled, Concluding
      <3> QED BY <2>8, <3>3, <3>4
    <2> QED BY <1>5, <2>18, <2>19, <2>22, <2>26 DEF Inv, TurnInv
  <1> QED BY <1>6, <1>7

\* A promotion and a projection leave the turn and its version as they are.
LEMMA WorldSteps ==
    ASSUME Inv, Promote \/ Project
    PROVE  Inv'
  <1>1. /\ know' = know /\ store' = store /\ turn' = turn /\ reviews' = reviews
        /\ turns' = turns /\ known' = known /\ since' = since
    BY DEF Promote, Project, History
  <1>2. active' \in Versions
    BY DEF Promote, Project, Inv, StoreInv, WorldTyped
  <1>3. graph' \in [Versions -> SUBSET Item] /\ \A v \in Versions : graph'[v] \subseteq Imported[v]
    <2>1. /\ graph \in [Versions -> SUBSET Item] /\ active \in Versions
          /\ \A v \in Versions : graph[v] \subseteq Imported[v]
      BY DEF Inv, StoreInv, WorldTyped
    <2>2. CASE Promote
      BY <2>1, <2>2 DEF Promote
    <2>3. CASE Project
      <3>1. Reviewed(know[active]) \subseteq Imported[active] /\ Imported[active] \in SUBSET Item
        BY <2>1, ChatAssumption DEF Inv, StoreInv, WorldTyped, Reviewed
      <3>2. PICK all : all = graph[active] \cup Reviewed(know[active])
        OBVIOUS
      <3>3. graph' = [graph EXCEPT ![active] = all] /\ all \in SUBSET Item /\ all \subseteq Imported[active]
        BY <2>1, <2>3, <3>1, <3>2 DEF Project
      <3> QED BY <2>1, <3>3
    <2> QED BY <2>2, <2>3
  <1>4. StoreInv'
    <2>1. WorldTyped'
      BY <1>1, <1>2, <1>3 DEF Inv, StoreInv, WorldTyped
    <2>2. StoreSound' /\ StoreEarned'
      BY <1>1 DEF Inv, StoreInv, StoreSound, StoreEarned, InOrderOf
    <2> QED BY <2>1, <2>2 DEF StoreInv
  <1>5. TurnInv'
    BY <1>1 DEF Inv, TurnInv, TurnTyped, TurnSound, Governed, TurnEarned, AskedBack, AmbiguityIsAsked,
                AnswersAreGoverned, InOrderOf, OneReading, Crowded, Contenders, Settled, Named, Homonyms, Firm,
                Running, Asking, Looking, Reading, Concluding, AskedFields, ReadFields, DoneFields
  <1> QED BY <1>4, <1>5 DEF Inv

\* A step that changes nothing.
LEMMA StutterStep ==
    ASSUME Inv, UNCHANGED vars
    PROVE  Inv'
  <1>1. StoreInv'
    BY StoreFrame DEF Inv, vars, World, History
  <1>2. TurnInv'
    BY DEF vars, Inv, TurnInv, TurnTyped, TurnSound, Governed, TurnEarned, AskedBack, AmbiguityIsAsked,
                AnswersAreGoverned, InOrderOf, OneReading, Crowded, Contenders, Settled, Named, Homonyms, Firm,
                Running, Asking, Looking, Reading, Concluding, AskedFields, ReadFields, DoneFields
  <1> QED BY <1>1, <1>2 DEF Inv

\* Every step keeps the invariant.
LEMMA StepInv == Inv /\ [Next]_vars => Inv'
  <1> SUFFICES ASSUME Inv, [Next]_vars PROVE Inv'
    OBVIOUS
  <1>1. ASSUME NEW c \in Conversations, NEW request \in Requests, Ask(c, request) PROVE Inv'
    BY <1>1, AskStep
  <1>2. CASE UseRoute
    BY <1>2, UseRouteStep
  <1>3. CASE Understand
    BY <1>3, UnderstandStep
  <1>4. CASE Clarify
    BY <1>4, ClarifyStep
  <1>5. CASE Narrow
    BY <1>5, NarrowStep
  <1>6. CASE GiveUp
    BY <1>6, GiveUpStep
  <1>7. ASSUME NEW dense \in Hits(IF At("narrowed") THEN Indexed[turn.version] ELSE {}),
               NEW hits \in Hits(IF At("narrowed") THEN Authorized(turn) ELSE {}), Search(dense, hits)
        PROVE  Inv'
    BY <1>7, SearchStep
  <1>8. CASE Answer
    BY <1>8, AnswerStep
  <1>9. ASSUME NEW d \in {"GROUNDED_LLM", "ABSTENTION"}, Write(d) PROVE Inv'
    BY <1>9, WriteStep
  <1>10. CASE Deliver
    BY <1>10, DeliverStep
  <1>11. CASE Fail
    BY <1>11, FailStep
  <1>12. ASSUME NEW row \in Contested, Review(row[1], row[2], row[3]) PROVE Inv'
    <2>1. row \in Versions \X Item \X Statuses
      BY ChatAssumption
    <2>2. row[3] \in Statuses
      BY <2>1
    <2>3. PICK v, i, status : v = row[1] /\ i = row[2] /\ status = row[3]
      OBVIOUS
    <2> QED BY <1>12, <2>2, <2>3, ReviewStep
  <1>13. CASE Promote \/ Project
    BY <1>13, WorldSteps
  <1>14. CASE Expire
    BY <1>14, ExpireStep
  <1>15. CASE UNCHANGED vars
    BY <1>15, StutterStep
  <1> QED BY <1>1, <1>2, <1>3, <1>4, <1>5, <1>6, <1>7, <1>8, <1>9, <1>10, <1>11, <1>12, <1>13, <1>14, <1>15
          DEF Next

------------------------------------------------------------------------------
(* The theorems. *)

\* The invariant holds in every reachable state of the chat endpoint and its
\* conversation store (api/routes/chat.py, retrieval/conversation_store.py,
\* conversation_context.py, retriever.py), whatever the clients ask, however
\* many conversations, versions, items and entries there are.
THEOREM Invariance == Spec => []Inv
  BY InitInv, StepInv, PTL DEF Spec

\* Every variable has its type, and the store of conversations
\* (conversation_store.py) has one entry per conversation, no more than its
\* capacity, each with a version, and a screen and a module that are of the
\* types they are kept as.
THEOREM TypeCorrect == Spec => []TypeOK
  <1>1. Inv => TypeOK
    <2> SUFFICES ASSUME Inv PROVE TypeOK
      OBVIOUS
    <2>1. \A e \in Elements(store) : e \in StoreRow
      BY ListFacts DEF Inv, StoreInv, WorldTyped
    <2>2. /\ \A v \in Versions : know[v] \in [Imported[v] -> Rows] /\ graph[v] \subseteq Imported[v]
          /\ active \in Versions /\ turns \in 0..MaxTurns /\ reviews \in 0..MaxReviews
      BY DEF Inv, StoreInv, WorldTyped
    <2>3. /\ Len(store) <= MaxEntries
          /\ \A m, n \in DOMAIN store : store[m].conv = store[n].conv => m = n
          /\ \A e \in Elements(store) :
               /\ e.conv \in Conversations /\ e.state \in States /\ e.state.version # 0
               /\ e.state.screen # NoEntity => TypeOf[e.state.screen.id] = "screen"
               /\ e.state.module # NoEntity => TypeOf[e.state.module.id] = "module"
      BY <2>1 DEF Inv, StoreInv, StoreSound, Distinct, Sensible, StoreRow
    <2>4. turn.phase \in {"idle", "asked", "routed", "understood", "narrowed", "searched", "writing", "decided"}
      BY DEF Inv, TurnInv, TurnTyped
    <2> QED BY <2>2, <2>3, <2>4 DEF TypeOK
  <1> QED BY <1>1, Invariance, PTL

\* The sources, the relations, the descriptions and the evidence ids of an
\* answer were reviewed in the version of the turn while it ran, whatever the
\* vector index and Neo4j return and whatever is reviewed or promoted between
\* the steps of the turn: the second validation of retriever.py lets nothing
\* else through, and nothing that is chosen later brings in more.
THEOREM AnswersGoverned == Spec => []AnswersAreGoverned
  <1>1. Inv => AnswersAreGoverned
    BY DEF Inv, TurnInv, Governed
  <1> QED BY <1>1, Invariance, PTL

\* The context a turn takes from its conversation (conversation_context.py)
\* was shown to that conversation in the same version or comes from its route
\* hint, and no module is kept that is older than the screen beside it, for
\* any store capacity and any number of conversations.
THEOREM ContextEarned == Spec => []ContextIsEarned
  <1>1. Inv => ContextIsEarned
    BY DEF Inv, StoreInv, StoreEarned, InOrderOf, TurnInv, TurnEarned, ContextIsEarned
  <1> QED BY <1>1, Invariance, PTL

\* A direct question that is answered has one reading, or names a screen, or
\* names more than the limits of entity_resolver.py let through (Crowded):
\* homonyms within its rows and candidates stay homonyms through the
\* narrowing, the search and the fusion, and answer_decision.py asks back.
THEOREM HomonymsAsked == Spec => []AmbiguityIsAsked
  <1>1. Inv => AmbiguityIsAsked
    BY DEF Inv, TurnInv, AskedBack
  <1> QED BY <1>1, Invariance, PTL

=============================================================================
