-------------------------- MODULE CanonicalContent --------------------------
(***************************************************************************)
(* Canonical knowledge as the merge, the validator and the reconciliation  *)
(* see it: a content maps the items it has to what they say (models.py,    *)
(* validator.py, merge.py, canonical_reconciliation_service.py).           *)
(*                                                                         *)
(* An item keeps its canonical id from one content to another.  Its        *)
(* payload is cut down to what these operators read: the owner (parent     *)
(* module, module, screen, table, source state), the target (a link's      *)
(* screen, a transition's state), the event of a transition, the title.    *)
(* Evidence, which knowledge_version leaves out, is not an item here.      *)
(***************************************************************************)
EXTENDS Naturals, FiniteSets

CONSTANTS
    Item,     \* canonical ids
    KindOf,   \* KindOf[i]: the entity type, "part" for fields, controls, tables, events
    None      \* no item

ASSUME KindAssumption ==
    /\ None \notin Item /\ IsFiniteSet(Item)
    /\ KindOf \in [Item -> {"module", "screen", "state", "part", "link", "column",
                            "transition"}]

Payload == [at : Item \cup {None}, to : Item \cup {None}, via : Item \cup {None},
            title : STRING]

OfKind(c, k) == {i \in DOMAIN c : KindOf[i] = k}

Owned(c, k, owners) == {i \in OfKind(c, k) : c[i].at \in owners}

\* The modules of a set and every module below them.
Below(c, roots) ==
    LET depth == Cardinality(OfKind(c, "module"))
        within[n \in 0 .. depth] ==
            IF n = 0 THEN roots
            ELSE LET above == within[n - 1] IN above \cup Owned(c, "module", above)
    IN within[depth]

\* What a partial crawl of s replaces: the subtree of a module, or one screen,
\* with every transition that starts, ends or is triggered there.
ScopeOf(c, s) ==
    LET modules == IF s.kind = "module" THEN Below(c, {s.target}) ELSE {}
        screens == IF s.kind = "module" THEN Owned(c, "screen", modules) ELSE {s.target}
        states == Owned(c, "state", screens)
        parts == Owned(c, "part", screens)
    IN UNION {modules, screens, states, parts, Owned(c, "link", screens),
              Owned(c, "column", parts),
              {t \in OfKind(c, "transition") :
                  c[t].at \in states \/ c[t].to \in states \/ c[t].via \in parts}}

\* CanonicalKnowledgeValidator.errors: the screen a link leads to is not checked.
Valid(c) ==
    /\ \A m \in OfKind(c, "module") :
           /\ c[m].at \in OfKind(c, "module") \cup {None}
           /\ m \notin Below(c, Owned(c, "module", {m}))
    /\ \A i \in OfKind(c, "screen") : c[i].at \in OfKind(c, "module") \cup {None}
    /\ \A k \in {"state", "part", "link"} :
           OfKind(c, k) = Owned(c, k, OfKind(c, "screen"))
    /\ OfKind(c, "column") = Owned(c, "column", OfKind(c, "part"))
    /\ \A t \in OfKind(c, "transition") :
           /\ {c[t].at, c[t].to} \subseteq OfKind(c, "state")
           /\ c[t].via \in OfKind(c, "part") \cup {None}

\* depth and navigation_path of a module: its place and the names along it.
Lineage(c, m) == {<<a, c[a].at, c[a].title>> : a \in {b \in OfKind(c, "module") :
                                                         m \in Below(c, {b})}}

-----------------------------------------------------------------------------
(* Merge of a partial crawl into the ACTIVE content it was pinned to. *)

Outside(base, s) == DOMAIN base \ ScopeOf(base, s)

MergedScreens(base, part, s) ==
    (OfKind(base, "screen") \ ScopeOf(base, s)) \cup
    {i \in OfKind(part, "screen") : i \in ScopeOf(part, s)}


\* Mutant of KeptOwner: a screen crawl moves the screen to where it was seen.
SeenOwner(base, p, s, i) == p.at

\* A screen crawl does not move the screen between modules.
KeptOwner(base, p, s, i) ==
    IF s.kind = "screen" /\ i = s.target THEN base[i].at ELSE p.at

\* A route_fallback title does not replace a title observed before.
KeptTitle(base, p, i) ==
    IF KindOf[i] = "screen" /\ p.title = "route_fallback" /\ i \in DOMAIN base
    THEN base[i].title ELSE p.title

\* A link that lost its screen at the border of the crawl gets it back.
KeptTarget(base, p, i, screens) ==
    IF KindOf[i] = "link" /\ p.to = None /\ i \in DOMAIN base /\ base[i].to \in screens
    THEN base[i].to ELSE p.to

Inserted(base, part, s, i) ==
    [part[i] EXCEPT !.at = KeptOwner(base, part[i], s, i),
                    !.title = KeptTitle(base, part[i], i),
                    !.to = KeptTarget(base, part[i], i, MergedScreens(base, part, s))]

Merged(base, part, s) ==
    [i \in Outside(base, s) \cup ScopeOf(part, s) |->
        IF i \in ScopeOf(part, s) THEN Inserted(base, part, s, i) ELSE base[i]]

\* The errors of CanonicalPartialMerger.merge.
Mergeable(base, part, s) ==
    /\ s.target \in DOMAIN base \cap DOMAIN part
    /\ Valid(base) /\ Valid(part)
    /\ s.kind = "module" => Lineage(base, s.target) = Lineage(part, s.target)
    /\ Outside(base, s) \cap ScopeOf(part, s) = {}
    /\ Valid(Merged(base, part, s))

-----------------------------------------------------------------------------
(* Removals and their reconciliation. *)

Removed(active, candidate) == DOMAIN active \ DOMAIN candidate

\* The candidate with the items a reviewer retains, exactly as ACTIVE has them.
Reconciled(candidate, active, kept) ==
    [i \in DOMAIN candidate \cup kept |->
        IF i \in DOMAIN candidate THEN candidate[i] ELSE active[i]]

=============================================================================
