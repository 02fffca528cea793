--------------------------- MODULE RankedEvidence ---------------------------
(***************************************************************************)
(* What a question finds: the entities it names, the fused ranking of the  *)
(* five channels, the part of the graph that is walked, the evidence that  *)
(* is selected from it and the way the answer is decided                   *)
(* (entity_resolver.py, rank_fusion.py, graph_expansion.py, retriever.py,  *)
(* evidence_selector.py, answer_planner.py, answer_decision.py).           *)
(*                                                                         *)
(* Canonical ids, which begin with the type, are numbers in their          *)
(* alphabetical order, and Alphabet orders the labels.  The structure      *)
(* is a forest, so an edge of the graph and a relation of an answer are    *)
(* named by the item at their lower end; the edges between events, states  *)
(* and transitions are left out.  A version of the knowledge is a function *)
(* from the ids it has to [status, fixed].  The wording of a question is   *)
(* cut down to what it says of each label, as the score that the resolver  *)
(* gives (100 a mention, 94 and less a resemblance, 0 nothing).            *)
(***************************************************************************)
EXTENDS Integers, FiniteSets, Sequences, Sublists

CONSTANTS
    Item,         \* canonical ids
    TypeOf,       \* TypeOf[i]: the entity type
    ParentOf,     \* ParentOf[i]: the structural parent, or 0
    TitleOf,      \* TitleOf[i]: the label that was imported
    FixedTitle,   \* FixedTitle[i]: the label a correction gives
    RouteOf,      \* RouteOf[i]: the route that was imported
    FixedRoute,   \* FixedRoute[i]: the route a correction gives
    SearchLabels, \* labels with "buscar", "search", "filtrar" or "filtro"
    ActionLabels, \* labels of controls that create or delete
    Blank,        \* labels that say nothing: "unlabeled control", "entidad validada"
    Alphabet,     \* Alphabet[l]: the place of the label l in the order of strings
    MaxCandidates, MaxRows, MaxCorrected  \* limits of the resolver: 12, 48 and 1000

Types == {"erp_system", "module", "screen", "ui_state", "field", "control",
          "table", "table_column", "link", "event", "transition"}

\* What the key PARENT_KEYS finds in an item of each type refers to: the canonical
\* validator refuses a base in which it is anything else.
ParentTypes == [
    erp_system |-> {}, module |-> {"module", "erp_system"}, screen |-> {"module", "erp_system"},
    ui_state |-> {"screen"}, field |-> {"screen"}, control |-> {"screen"}, table |-> {"screen"},
    link |-> {"screen"}, event |-> {"screen"}, table_column |-> {"table"}, transition |-> {"ui_state"}]

Titles == {TitleOf[i] : i \in Item} \cup {FixedTitle[i] : i \in Item}

ASSUME ItemAssumption ==
    /\ Item \subseteq Nat \ {0} /\ IsFiniteSet(Item)
    /\ TypeOf \in [Item -> Types] /\ ParentOf \in [Item -> Item \cup {0}]
    /\ \A i \in Item : ParentOf[i] # 0 => TypeOf[ParentOf[i]] \in ParentTypes[TypeOf[i]]
    /\ Alphabet \in [Titles -> Nat] /\ {MaxCandidates, MaxRows, MaxCorrected} \subseteq Nat \ {0}

Publishable == {"APPROVED", "CORRECTED"}
Reviewed(k) == {i \in DOMAIN k : k[i].status \in Publishable}

\* The label the resolver compares, and the one that answers show.
Matched(k, i) == IF k[i].status = "CORRECTED" THEN FixedTitle[i] ELSE TitleOf[i]
Label(k, i)   == IF k[i].fixed THEN FixedTitle[i] ELSE TitleOf[i]
Route(k, i)   == IF k[i].fixed THEN FixedRoute[i] ELSE RouteOf[i]

\* The finite set S in the strict order Before.
Sorted(S, Before(_, _)) ==
    LET nth == [n \in 1..Cardinality(S) |->
                    CHOOSE x \in S : Cardinality({y \in S : Before(y, x)}) = n - 1]
    IN  SubSeq(nth, 1, Cardinality(S))
IdsOf(s) == SubSeq([n \in DOMAIN s |-> s[n].id], 1, Len(s))
Elements(s) == {s[n] : n \in DOMAIN s}
Least(x, y) == x < y
Precedes(s, t) == \E n \in DOMAIN s : s[n] < t[n] /\ \A m \in 1..(n - 1) : s[m] = t[m]

(* ------------------------- the structure ------------------------------- *)

MaxDepth == 5  \* levels a chain of parents is followed

Chain == [i \in Item |->
    LET up[n \in 0..MaxDepth] == IF n = 0 THEN i
                                 ELSE IF up[n - 1] = 0 THEN 0 ELSE ParentOf[up[n - 1]]
    IN  {up[n] : n \in 0..MaxDepth} \ {0}]
Subtree == [s \in Item |-> {i \in Item : s \in Chain[i]}]

\* The items whose chain of reviewed items leads to the screen s, which
\* resolve_in_screen wants reviewed too and scope_to_screen does not.
BelongsTo(k, s) == {i \in Subtree[s] : (Chain[i] \cap Subtree[s]) \ {s} \subseteq Reviewed(k)}
InScreen(k, s) == IF s \in Reviewed(k) THEN BelongsTo(k, s) ELSE {}

Kind(c) ==  \* the type of the edge from ParentOf[c] to c
    IF TypeOf[c] = "module" /\ TypeOf[ParentOf[c]] = "module" THEN "HAS_SUBMODULE"
    ELSE [module |-> "HAS_MODULE", screen |-> "HAS_SCREEN", ui_state |-> "HAS_STATE",
          field |-> "HAS_FIELD", control |-> "HAS_CONTROL", table |-> "HAS_TABLE",
          table_column |-> "HAS_COLUMN", link |-> "HAS_LINK", event |-> "HAS_EVENT",
          transition |-> "FROM_STATE"][TypeOf[c]]

(* ------------------------- the question -------------------------------- *)

Reusable == {"SCREEN_PURPOSE", "SEARCH_BY_FIELD", "LIST_FIELDS", "LOCATE_SCREEN",
             "FIND_CONTROL", "LIST_COLUMNS", "NAVIGATION_EVENT"}
Targets == [
    MUTATIVE_ACTION  |-> <<"screen", "control", "event">>,
    SCREEN_PURPOSE   |-> <<"screen">>,
    SEARCH_BY_FIELD  |-> <<"screen", "field", "control">>,
    LIST_FIELDS      |-> <<"screen", "field", "control">>,
    LOCATE_FIELD     |-> <<"field", "screen", "module">>,
    LOCATE_SCREEN    |-> <<"screen", "module", "erp_system">>,
    FIND_CONTROL     |-> <<"control", "screen">>,
    LIST_COLUMNS     |-> <<"screen", "table", "table_column">>,
    NAVIGATION_EVENT |-> <<"screen", "control", "ui_state", "event", "transition">>,
    UNKNOWN            |-> <<"screen", "module", "field", "control", "table", "table_column", "link">>]
Intents == DOMAIN Targets
Place(types, t) == CHOOSE n \in DOMAIN types : types[n] = t

(* ------------------------- entity resolution --------------------------- *)

Score(k, q, i) == q.says[Matched(k, i)]

\* The rows that are read: the first ones by their imported label, and the
\* corrected ones, whatever they were called.
Fetched(k, q, types, within) ==
    LET pool == {i \in Reviewed(k) \cap within : TypeOf[i] \in Elements(types)}
        found == {i \in pool : q.says[TitleOf[i]] > 0}
        Ahead(i) == {j \in found : \/ q.says[TitleOf[j]] > q.says[TitleOf[i]]
                                   \/ q.says[TitleOf[j]] = q.says[TitleOf[i]] /\ j < i}
        corrected == {i \in pool : k[i].status = "CORRECTED"}
    IN  {i \in found : Cardinality(Ahead(i)) < MaxRows}
        \cup {i \in corrected : Cardinality({j \in corrected : j < i}) < MaxCorrected}
Compared(k, q, types, within) == {i \in Fetched(k, q, types, within) : Score(k, q, i) > 0}

Stronger(c, d) == \/ c.score > d.score
                  \/ c.score = d.score /\ c.place < d.place
                  \/ c.score = d.score /\ c.place = d.place
                     /\ \/ Alphabet[c.label] < Alphabet[d.label]
                        \/ Alphabet[c.label] = Alphabet[d.label] /\ c.id < d.id

\* The best of what the rows are called now.
Found(k, q, types, within) ==
    {[id |-> i, label |-> Matched(k, i), score |-> Score(k, q, i), place |-> Place(types, TypeOf[i])] :
        i \in Compared(k, q, types, within)}
Resolve(k, q, types, within) ==
    LET found == Found(k, q, types, within)
    IN  {c \in found : Cardinality({d \in found : Stronger(d, c)}) < MaxCandidates}
Ids(r) == {c.id : c \in r}

\* Mutant of Alike: only siblings are homonyms.
AlikeSiblings(c, d) == c.label = d.label /\ ParentOf[c.id] = ParentOf[d.id]
Alike(c, d) == c.label = d.label /\ TypeOf[c.id] = TypeOf[d.id]
Ambiguous(r) ==
    {c \in r : \E d \in r : /\ d.score >= 97 /\ Alike(c, d)
                           /\ \E e \in r : d # e /\ e.score >= 97 /\ Alike(c, e)}
Seeds(r) == {c \in r : c.score >= 90} \ Ambiguous(r)
Primary(r) == IF Ambiguous(r) = {} /\ Cardinality(Seeds(r)) = 1 THEN Ids(Seeds(r)) ELSE {}

\* Mutant of ScopeTo: everything under the module of the screen stays.
ScopeToTree(k, r, s, title) == {c \in r : Chain[c.id] \cap Chain[s] # {}}
\* scope_to_screen: the states that only carry the title of the screen go.
ScopeTo(k, r, s, title) ==
    {c \in r : c.id \in BelongsTo(k, s)
               /\ ~(TypeOf[c.id] = "ui_state" /\ c.id # s /\ c.label = title)}

(* ------------------------- reciprocal rank fusion ---------------------- *)

K == 60
Weight(n) == (61 * 62 * 63 * 32) \div (K + n)  \* exact up to the fourth place
Worse(c, d) == c.score > d.score \/ (c.score = d.score /\ c.id < d.id)
InOrder(r) == IdsOf(Sorted(r, Worse))
Rankings(r, dense, semantic) ==  \* in the order of DEFAULT_CHANNEL_PRIORITY
    <<InOrder({c \in r : c.score >= 97}), InOrder(r), InOrder(r), dense, semantic>>

Rank(s, i) == CHOOSE n \in DOMAIN s : s[n] = i /\ \A m \in 1..(n - 1) : s[m] # i
Fused(rankings) ==
    LET found == UNION {Elements(rankings[n]) : n \in 1..5}
        Lowest(S) == CHOOSE n \in S : \A m \in S : n <= m
        Key(i) == LET in == {n \in 1..5 : i \in Elements(rankings[n])}
                      Gain(n) == IF n \in in THEN Weight(Rank(rankings[n], i)) ELSE 0
                  IN  <<0 - (Gain(1) + Gain(2) + Gain(3) + Gain(4) + Gain(5)),
                        Lowest({Rank(rankings[n], i) : n \in in}),
                        Lowest(in), 0 - Cardinality(in), i>>
        ranked == Sorted({Key(i) : i \in found}, Precedes)
    IN  SubSeq([n \in DOMAIN ranked |-> ranked[n][5]], 1, Len(ranked))

(* ------------------------- graph expansion ----------------------------- *)

Policies == [
    SCREEN_PURPOSE   |-> [types |-> <<"screen">>, edges |-> {}, hops |-> 1],
    LOCATE_SCREEN    |-> [types |-> <<"screen", "module", "erp_system", "ui_state">>,
                          edges |-> {"HAS_MODULE", "HAS_SUBMODULE", "HAS_SCREEN", "HAS_STATE"}, hops |-> 2],
    LOCATE_FIELD     |-> [types |-> <<"field", "screen", "module", "ui_state">>,
                          edges |-> {"HAS_FIELD", "HAS_SCREEN", "HAS_STATE"}, hops |-> 2],
    FIND_CONTROL     |-> [types |-> <<"control", "screen", "ui_state">>,
                          edges |-> {"HAS_CONTROL", "HAS_STATE"}, hops |-> 2],
    SEARCH_BY_FIELD  |-> [types |-> <<"screen", "field", "control", "ui_state">>,
                          edges |-> {"HAS_FIELD", "HAS_CONTROL", "HAS_STATE"}, hops |-> 2],
    LIST_FIELDS      |-> [types |-> <<"screen", "field", "control", "ui_state">>,
                          edges |-> {"HAS_FIELD", "HAS_CONTROL", "HAS_STATE"}, hops |-> 2],
    LIST_COLUMNS     |-> [types |-> <<"screen", "table", "table_column", "ui_state">>,
                          edges |-> {"HAS_STATE", "HAS_TABLE", "HAS_COLUMN"}, hops |-> 3],
    NAVIGATION_EVENT |-> [types |-> <<"event", "control", "transition", "ui_state", "screen">>,
                          edges |-> {"HAS_CONTROL", "HAS_STATE", "HAS_EVENT", "FROM_STATE"}, hops |-> 2],
    MUTATIVE_ACTION  |-> [types |-> <<"screen", "ui_state", "control", "event", "transition">>,
                          edges |-> {"HAS_CONTROL", "HAS_STATE", "HAS_EVENT", "FROM_STATE"}, hops |-> 2],
    UNKNOWN            |-> [types |-> <<>>, edges |-> {Kind(c) : c \in {d \in Item : ParentOf[d] # 0}}, hops |-> 2]]
MaxSeeds == 3
Upto(s, n) == SubSeq(s, 1, IF Len(s) < n THEN Len(s) ELSE n)

\* The seeds of the walk: the one entity the question names, else the named
\* entities of the best type, else the first of the fused ranking.
GraphSeeds(intent, r, fused, governed) ==
    LET types == Policies[intent].types
        allowed == {i \in governed \ Ids(Ambiguous(r)) : types # <<>> => TypeOf[i] \in Elements(types)}
        strong == {c \in Seeds(r) : c.id \in allowed}
        Best(c) == types # <<>> =>
            \A d \in strong : Place(types, TypeOf[c.id]) <= Place(types, TypeOf[d.id])
        named == Sorted({c \in strong : Best(c)}, Stronger)
    IN  IF intent = "SCREEN_PURPOSE" \/ Ambiguous(r) # {} THEN <<>>
        ELSE IF Primary(r) \cap allowed # {} THEN <<CHOOSE i \in Primary(r) : TRUE>>
        ELSE IF named # <<>> THEN Upto(IdsOf(named), MaxSeeds)
        ELSE Upto(Within(fused, allowed), MaxSeeds)

\* The walks of the graph g from a seed, in their order.
Edges(a, b) == LET up(i) == {c \in Chain[i] : ParentOf[c] # 0}
               IN  (up(a) \ up(b)) \cup (up(b) \ up(a))
Nodes(walk) == walk.edges \cup {ParentOf[c] : c \in walk.edges}
Walks(g, seeds, intent) ==
    LET p == Policies[intent]
        found == {[from |-> a, to |-> b, edges |-> Edges(a, b)] :
                    a \in Elements(seeds) \cap g, b \in g}
        Taken(w) == /\ w.from # w.to /\ Chain[w.from] \cap Chain[w.to] # {}
                    /\ Nodes(w) \subseteq g /\ Cardinality(w.edges) <= p.hops
                    /\ {Kind(c) : c \in w.edges} \subseteq p.edges
                    /\ p.types # <<>> => TypeOf[w.to] \in Elements(p.types)
        Key(w) == <<Cardinality(w.edges), w.to, w.from>>
    IN  Sorted({w \in found : Taken(w)}, LAMBDA v, w : Precedes(Key(v), Key(w)))

Once(s) ==  \* what the list s has, where it has it first
    LET at == Sorted({n \in DOMAIN s : \A m \in 1..(n - 1) : s[m] # s[n]}, Least)
    IN  SubSeq([n \in DOMAIN at |-> s[at[n]]], 1, Len(at))
CandidateIds(fused, walks) ==
    LET ends == SubSeq([n \in DOMAIN walks |-> walks[n].to], 1, Len(walks))
        nodes == UNION {Nodes(w) : w \in Elements(walks)}
    IN  fused \o Within(Once(ends), Item \ Elements(fused))
              \o Sorted(nodes \ (Elements(fused) \cup Elements(ends)), Least)

\* Mutant of Relations: the nodes in the middle of a walk are not looked at.
RelationsToGoverned(walks, governed) ==
    UNION {w.edges : w \in {v \in Elements(walks) : {v.from, v.to} \subseteq governed}}

\* A relation is shown only when its whole walk is governed.
Relations(walks, governed) ==
    UNION {w.edges : w \in {v \in Elements(walks) : Nodes(v) \subseteq governed}}

(* ------------------------- evidence selection -------------------------- *)

Of(rels, kinds) == {c \in rels : Kind(c) \in kinds}
Under(parents, rels) == {c \in rels : ParentOf[c] \in parents}
One(S) == IF S = {} THEN {} ELSE {CHOOSE x \in S : \A y \in S : x <= y}
Some(S, else) == IF S # {} THEN S ELSE else
ScreenParts == {"HAS_FIELD", "HAS_CONTROL", "HAS_TABLE", "HAS_STATE", "HAS_EVENT"}

Focal(intent, r, seeds, sources, semantics) ==
    LET named == Primary(r) \cup Elements(seeds) \cup Ids(Seeds(r))
    IN  Some(named, IF intent = "SCREEN_PURPOSE" /\ Len(semantics) = 1 THEN Elements(semantics)
                    ELSE Elements(Upto(sources, 3)))

\* The order of the focal ids: the primary, the seeds, the named entities.
FirstScreen(r, seeds, focal, sources) ==
    LET screens == {i \in focal \cap Elements(sources) : TypeOf[i] = "screen"}
        named == Within(Sorted(Seeds(r), Stronger), {c \in Seeds(r) : c.id \in screens})
        order == Within(seeds, screens) \o IdsOf(named) \o Within(sources, screens)
    IN  IF order = <<>> THEN {} ELSE {Head(order)}

FocalScreens(focal, sources, rels) ==
    Some({i \in focal \cap Elements(sources) : TypeOf[i] = "screen"},
         One({ParentOf[c] : c \in {d \in Of(rels, ScreenParts) : TypeOf[ParentOf[d]] = "screen"}}))

\* The relations each intent keeps.
Kept(q, k, r, seeds, focal, sources, rels) ==
    LET screens == FocalScreens(focal, sources, rels)
        inside == IF screens = {} THEN rels ELSE Under(screens, rels)
        fields == Of(inside, {"HAS_FIELD"})
        controls == Of(inside, {"HAS_CONTROL"})
        tables == Of(inside, {"HAS_TABLE"})
        located == Some(Of(rels, {"HAS_FIELD"}) \cap focal, One(Of(rels, {"HAS_FIELD"})))
        moves == Of(rels, {"HAS_EVENT", "HAS_CONTROL"})
        mentioned == {c \in moves : q.says[Label(k, c)] >= 97}
    IN  [SCREEN_PURPOSE   |-> {},
         LOCATE_SCREEN    |-> FirstScreen(r, seeds, focal, sources) \cap rels,
         LOCATE_FIELD     |-> located \cup (Of(rels, {"HAS_SCREEN"}) \cap {ParentOf[c] : c \in located}),
         FIND_CONTROL     |-> Some(Of(rels, {"HAS_CONTROL"}) \cap focal, One(Of(rels, {"HAS_CONTROL"}))),
         SEARCH_BY_FIELD  |-> (fields \cap focal) \cup
                              Some({c \in controls : Label(k, c) \in SearchLabels}, One(controls)),
         LIST_FIELDS      |-> fields \cup controls,
         LIST_COLUMNS     |-> tables \cup Under(tables, Of(rels, {"HAS_COLUMN"})),
         NAVIGATION_EVENT |-> Some(One(moves \cap focal),
                                   Some(One(Some(Of(mentioned, {"HAS_CONTROL"}), mentioned)),
                                        Of(rels, ScreenParts \cup {"FROM_STATE"}))),
         MUTATIVE_ACTION  |-> Of(rels, {"HAS_CONTROL", "HAS_EVENT", "FROM_STATE"}),
         UNKNOWN            |-> {c \in rels : {c, ParentOf[c]} \cap Elements(Upto(sources, 6)) # {}}][q.intent]

NoEvidence(status) == [status |-> status, sources |-> <<>>, rels |-> {}, semantics |-> <<>>]

Purposes(focal, semantics) == Upto(Within(semantics, focal), 2)

Select(q, k, r, seeds, sources, rels, semantics) ==
    LET focal == Focal(q.intent, r, seeds, sources, semantics)
        kept == Kept(q, k, r, seeds, focal, sources, rels)
        told == IF q.intent = "SCREEN_PURPOSE" THEN Purposes(focal, semantics)
                ELSE IF q.intent = "UNKNOWN" THEN Upto(semantics, 2) ELSE <<>>
        chosen == [SCREEN_PURPOSE |-> Some(Elements(told), focal),
                   LOCATE_SCREEN |-> FirstScreen(r, seeds, focal, sources),
                   UNKNOWN |-> Elements(Upto(sources, 6))]
        ids == kept \cup {ParentOf[c] : c \in kept} \cup
               (IF q.intent \in DOMAIN chosen THEN chosen[q.intent] ELSE focal)
        shown == IF q.intent = "UNKNOWN" THEN Upto(sources, 6)
                 ELSE Within(sources, ids)
        enough == IF q.intent = "SCREEN_PURPOSE" THEN told # <<>>
                  ELSE shown # <<>> \/ kept # {} \/ told # <<>>
    IN  IF Ambiguous(r) # {} THEN NoEvidence("clarification_required")
        ELSE [status |-> IF enough THEN "selected" ELSE "insufficient",
              sources |-> shown, rels |-> kept, semantics |-> told]

(* ------------------------- the deterministic answer -------------------- *)

\* The screen the answer is about: one the question mentions, whichever a
\* set yields first, else the most related one.
AnswerScreens(q, k, e) ==
    LET cands == {i \in Elements(e.sources) : TypeOf[i] = "screen"}
                 \cup {ParentOf[c] : c \in Of(e.rels, ScreenParts)}
                 \cup {c \in Of(e.rels, {"HAS_SCREEN"}) : {c, ParentOf[c]} \cap Elements(e.sources) # {}}
        named == {i \in cands : q.says[Label(k, i)] >= 97}
        Degree(i) == Cardinality({c \in e.rels : i \in {c, ParentOf[c]}})
        most == {i \in cands : \A j \in cands : Degree(j) <= Degree(i)}
    IN  Some(named, Some(One(most), {0}))

\* The relations that a deterministic answer rests on; none: not supported.
Mentions(q, k, c) == q.says[Label(k, c)] >= 97
Searches(q, k, here) ==
    LET fields == {c \in Of(here, {"HAS_FIELD"}) : Mentions(q, k, c)}
        searches == {c \in Of(here, {"HAS_CONTROL"}) : Label(k, c) \in SearchLabels}
    IN  IF fields # {} /\ searches # {} THEN One(fields) \cup One(searches) ELSE {}
FieldPlace(q, k, rels) ==
    LET located == One({c \in Of(rels, {"HAS_FIELD"}) : Mentions(q, k, c)})
    IN  located \cup (Of(rels, {"HAS_SCREEN"}) \cap {ParentOf[c] : c \in located})
ScreenPlace(q, k, rels) ==
    LET screens == Of(rels, {"HAS_SCREEN"})
    IN  Some(One({c \in screens : Mentions(q, k, c)}), IF Cardinality(screens) = 1 THEN screens ELSE {})
Navigation(q, k, rels) ==
    LET events == Of(rels, {"HAS_EVENT"})
        event == Some(One({c \in events : Mentions(q, k, c)}),
                      IF Cardinality(events) = 1 THEN events ELSE {})
        control == One({c \in Of(rels, {"HAS_CONTROL"}) : Mentions(q, k, c)})
    IN  Some(event, Some(control, Of(rels, {"HAS_CONTROL", "HAS_EVENT", "FROM_STATE"})))
Support(q, k, e, about) ==
    LET here == Under({about}, e.rels)
    IN  [SCREEN_PURPOSE   |-> {},
         MUTATIVE_ACTION  |-> One({c \in Of(e.rels, {"HAS_CONTROL", "HAS_EVENT"}) : Label(k, c) \in ActionLabels}),
         SEARCH_BY_FIELD  |-> Searches(q, k, here),
         LIST_FIELDS      |-> Of(here, {"HAS_FIELD"}),
         LOCATE_FIELD     |-> FieldPlace(q, k, e.rels),
         LOCATE_SCREEN    |-> ScreenPlace(q, k, e.rels),
         FIND_CONTROL     |-> {c \in Of(e.rels, {"HAS_CONTROL"}) : Mentions(q, k, c)},
         LIST_COLUMNS     |-> Under(Of(here, {"HAS_TABLE"}), Of(e.rels, {"HAS_COLUMN"})),
         NAVIGATION_EVENT |-> Navigation(q, k, e.rels),
         UNKNOWN            |-> {}][q.intent]
Purpose(q, k, e) == IF q.intent # "SCREEN_PURPOSE" THEN {}
                    ELSE {s \in Elements(e.semantics) : q.says[Label(k, s)] >= 97}

\* Without the writer the evidence is listed, unless no label says anything.
Baseline(k, e) ==
    LET Says(i) == Label(k, i) \notin Blank
    IN  IF \/ e.semantics # <<>> \/ \E c \in e.rels : Says(c) /\ Says(ParentOf[c])
           \/ \E i \in Elements(Upto(e.sources, 6)) : Says(i)
        THEN "BASELINE" ELSE "ABSTENTION"

Decide(q, e, supported) ==
    IF q.executes THEN "ABSTENTION"
    ELSE IF e.status = "clarification_required" THEN "CLARIFICATION"
    ELSE IF supported THEN "DETERMINISTIC_ANSWER"
    ELSE IF e.status # "selected" \/ e.sources = <<>> THEN "ABSTENTION"
    ELSE "GROUNDED_LLM"
=============================================================================
