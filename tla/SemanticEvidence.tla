-------------------------- MODULE SemanticEvidence --------------------------
(***************************************************************************)
(* The safe evidence of a screen: what of the reviewed structural          *)
(* knowledge the language model is shown and what a semantic claim may     *)
(* refer to (screen_evidence_builder.py, screen_purpose_claim_policy.py,   *)
(* screen_semantic_eligibility.py, screen_purpose_generation_v14.py).      *)
(*                                                                         *)
(* A knowledge version is a function from the canonical ids it has to rows *)
(* [source, status, fixed]: the imported payload, the review status and    *)
(* whether a correction is in force.  A payload is cut down to the owner   *)
(* (of), the source state of an event and of a transition (from), its      *)
(* target state (to), its trigger (via) and the label; Unsafe stands for a *)
(* label that is missing or that the privacy filter rejects; the label of  *)
(* an event stands for its category too.  A hash is the value it is        *)
(* computed from.                                                          *)
(***************************************************************************)
EXTENDS Naturals, FiniteSets, Sequences

CONSTANTS
    Item,        \* canonical ids, in the order the builder sorts them
    KindOf,      \* KindOf[i]: the entity type
    Screen,      \* the screen whose purpose is described
    Corrected,   \* Corrected[i]: the payload a reviewer puts in place of i's
    Limit,       \* Limit[k]: how many entities of kind k a package shows
    Unlabelled,  \* labels that say nothing: "unlabeled control", ...
    Shell,       \* event categories of the shell of the ERP: "expand menu"
    Unsafe, None

Shown == {"field", "control", "table", "column", "state", "event", "transition"}

ASSUME ItemAssumption ==
    /\ Item \subseteq Nat /\ None \notin Item /\ Screen \in Item /\ IsFiniteSet(Item)
    /\ KindOf \in [Item -> Shown \cup {"module", "screen", "evidence", "trace"}]
    /\ KindOf[Screen] = "screen" /\ Limit \in [Shown -> Nat]

Publishable == {"approved", "corrected"}
NoPackage == [version |-> 0]

Reviewed(k, i) == i \in DOMAIN k /\ k[i].status \in Publishable

\* EffectiveKnowledgeService: the last correction counts until a reset, whatever the
\* status has become since.
Effective(k, i) == IF k[i].fixed THEN Corrected[i] ELSE k[i].source

OfKind(k, kind) == {i \in DOMAIN k : KindOf[i] = kind}


\* Mutant of Related: the review of a related item is not looked at.
RelatedUnreviewed(k, kind, owners) ==
    {i \in OfKind(k, kind) : k[i].source.of \in owners}

\* _relation_candidates: an item moved by a correction counts only while it is corrected.
Related(k, kind, owners) ==
    {i \in OfKind(k, kind) :
        /\ Reviewed(k, i)
        /\ k[i].source.of \in owners \/ k[i].status = "corrected"
        /\ Effective(k, i).of \in owners}

Excluded(k, kind, owners) ==
    {i \in OfKind(k, kind) : ~Reviewed(k, i) /\ k[i].source.of \in owners}

\* _screen, the module and the title: otherwise there is no package.
Buildable(k) ==
    /\ Reviewed(k, Screen) /\ Effective(k, Screen).label # Unsafe
    /\ LET m == Effective(k, Screen).of
       IN m # None => Reviewed(k, m) /\ KindOf[m] = "module" /\ Effective(k, m).label # Unsafe

States(k) == Related(k, "state", {Screen})
Controls(k) == Related(k, "control", {Screen})
Tables(k) == Related(k, "table", {Screen})

\* _valid_events: an event of a state that is not there is dropped.
ValidEvents(k) ==
    {i \in Related(k, "event", {Screen}) : Effective(k, i).from \in States(k) \cup {None}}

TransitionRows(k) ==
    {t \in OfKind(k, "transition") :
        {k[t].source.from, k[t].source.to} \cap States(k) # {}}

\* _transition_candidates: both ends and the trigger belong to the screen.
Transitions(k) ==
    {t \in OfKind(k, "transition") :
        /\ Reviewed(k, t)
        /\ t \in TransitionRows(k) \/ k[t].status = "corrected"
        /\ {Effective(k, t).from, Effective(k, t).to} \subseteq States(k)
        /\ Effective(k, t).via \in Controls(k) \cup {None}}

\* _dedupe_label: of the candidates with one label, the first.
Distinct(k, S) ==
    {i \in S : \A j \in S : /\ j < i /\ Effective(k, j).of = Effective(k, i).of
                            => Effective(k, j).label # Effective(k, i).label}

First(S, n) == {i \in S : Cardinality({j \in S : j < i}) < n}

ListedTables(k) == First(Tables(k), Limit["table"])

Candidates(k, kind) ==
    CASE kind = "event" -> ValidEvents(k)
      [] kind = "transition" -> Transitions(k)
      [] kind = "column" -> Related(k, "column", ListedTables(k))
      [] OTHER -> Related(k, kind, {Screen})

Labelled(k, S) == {i \in S : Effective(k, i).label # Unsafe}

-----------------------------------------------------------------------------
(* What the package shows. *)

ListedColumns(k, t) ==
    Distinct(k, Labelled(k, First(Related(k, "column", {t}), Limit["column"])))

ListedStates(k) == First(Labelled(k, States(k)), Limit["state"])

ListedControls(k) == First(Distinct(k, Labelled(k, Controls(k))), Limit["control"])

\* A transition is projected only between states that are.
Projected(k) ==
    First({t \in Transitions(k) :
              {Effective(k, t).from, Effective(k, t).to} \subseteq ListedStates(k)},
          Limit["transition"])

Parts(k) ==
    (UNION {First(Distinct(k, Labelled(k, Candidates(k, kind))), Limit[kind]) :
               kind \in {"field", "event"}})
    \cup ListedControls(k) \cup ListedStates(k) \cup ListedTables(k) \cup Projected(k)
    \cup (UNION {ListedColumns(k, t) : t \in ListedTables(k)})

\* The evidence_ids cover what was selected, shown or not.
Selected(k) ==
    {Screen, Effective(k, Screen).of} \cup (UNION {Candidates(k, kind) : kind \in Shown})
Primary(k) == Related(k, "evidence", {Screen})
Evidence(k) == Related(k, "evidence", Selected(k)) \cup Related(k, "trace", Selected(k))

\* safe_network_trace.
Traces(k) == Labelled(k, Related(k, "trace", {Screen}))

\* Whatever was left out leaves a warning.
Warnings(k) ==
    (UNION {Excluded(k, kind, {Screen}) : kind \in {"field", "control", "table", "state",
                                                     "event", "evidence", "trace"}})
    \cup Excluded(k, "column", ListedTables(k))
    \cup (TransitionRows(k) \ Projected(k))
    \cup (Related(k, "event", {Screen}) \ ValidEvents(k))
    \cup {i \in UNION {Candidates(k, kind) : kind \in Shown} : Effective(k, i).label = Unsafe}

Full(k) == {kind \in Shown : Cardinality(Candidates(k, kind)) > Limit[kind]}

Package(v, k) ==
    IF ~Buildable(k) THEN NoPackage
    ELSE [version |-> v, title |-> Effective(k, Screen).label, module |-> Effective(k, Screen).of,
          parts |-> [i \in Parts(k) |->
                        IF KindOf[i] = "transition" /\ Effective(k, i).via \notin ListedControls(k)
                        THEN [Effective(k, i) EXCEPT !.via = None] ELSE Effective(k, i)],
          primary |-> Primary(k), evidence |-> Evidence(k), traces |-> Traces(k),
          warnings |-> Warnings(k), full |-> Full(k)]

\* semantic_evidence_compatibility_payload: all of the package but its version.
Compatible(p, q) == [p EXCEPT !.version = 0] = [q EXCEPT !.version = 0]

-----------------------------------------------------------------------------
(* What a claim may refer to. *)

\* claimable_reference_index.
Claimable(p) ==
    {i \in DOMAIN p.parts :
        /\ p.parts[i].label # Unsafe
        /\ KindOf[i] \notin {"state", "transition"} => p.parts[i].label \notin Unlabelled
        /\ KindOf[i] = "state" => p.parts[i].label # p.title
        /\ KindOf[i] \in {"event", "transition"} => p.parts[i].label \notin Shell}

\* evaluate_screen_semantic_eligibility.
Eligible(p) == p # NoPackage /\ p.primary # {} /\ Claimable(p) # {}

\* A payload: the summary and the references of each statement.
\* validate_v14_claim_references.
Grounded(payload, p) == \A s \in DOMAIN payload.claims : payload.claims[s] \subseteq Claimable(p)

\* A draft of the model is a sequence of claims [says, refs]; equal statements are merged.
Parsed(draft) ==
    [summary |-> "model",
     claims |-> [s \in {draft[n].says : n \in DOMAIN draft} |->
                    UNION {draft[n].refs : n \in {m \in DOMAIN draft : draft[m].says = s}}]]

\* parse_generation_draft_v14: the schema wants claims with references.
Acceptable(draft, p) ==
    /\ draft # <<>> /\ \A n \in DOMAIN draft : draft[n].refs # {}
    /\ Grounded(Parsed(draft), p)

=============================================================================
