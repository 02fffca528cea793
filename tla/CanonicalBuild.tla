--------------------------- MODULE CanonicalBuild ---------------------------
(***************************************************************************)
(* The canonical knowledge built from the artifacts of a crawl             *)
(* (structural/canonical/builder.py): the screens of the index, the module *)
(* the menus give each of them, the states of the registry and the screen  *)
(* that owns each, the parts a screen takes from them, and the transitions *)
(* between the states that were kept.                                      *)
(***************************************************************************)
EXTENDS CrawlExploration

CONSTANTS
    Parts,     \* Parts[p]: the parts of page p, records [kind, name, submit]
    Hidden,    \* the names of parts without a label or in a sensitive region
    Pressed,   \* Pressed[e]: the name of the control event e presses
    Below      \* <<r, s>>: route r begins with the segments of route s

ASSUME BuildAssumption ==
    /\ \A p \in Page : \A part \in Parts[p] : part.submit \in BOOLEAN
    /\ \A pair \in Below : pair[1] # pair[2]

-----------------------------------------------------------------------------
(* The artifacts. *)

\* The screens of the index.
Screens == indexed

\* The states that lead to p: the root of its trajectory and its predecessors.
Origins(p) == {path[p].root} \cup {t[1] : t \in {u \in flow : u[3] = p}}

-----------------------------------------------------------------------------
(* _state_screen_routes: the screen that owns each state. *)

\* A state on the route of a screen belongs to it.
DirectOwners == [p \in {q \in DOMAIN path : RouteOf[q] \in Screens} |-> RouteOf[p]]

\* The screens that claim p, given the owners of a round.
Claims(owners, p) == {owners[q] : q \in Origins(p) \cap DOMAIN owners}

\* A round: the states one screen claims, and one only, are given to it.
Round(owners) ==
    LET settled == {p \in DOMAIN path \ DOMAIN owners : Cardinality(Claims(owners, p)) = 1}
    IN [p \in DOMAIN owners \cup settled |->
           IF p \in DOMAIN owners THEN owners[p]
           ELSE CHOOSE r \in Claims(owners, p) : TRUE]

\* Rounds are repeated until one changes nothing; each gives one state at least.
Owners ==
    LET after[n \in 0 .. Cardinality(DOMAIN path)] ==
            IF n = 0 THEN DirectOwners ELSE Round(after[n - 1])
    IN after[Cardinality(DOMAIN path)]

\* The states built: those with an owner.
Built(owners) == DOMAIN owners

\* The transitions built: both ends are.
BuiltFlow(owners) == {t \in flow : {t[1], t[3]} \subseteq Built(owners)}

-----------------------------------------------------------------------------
(* The parts of a screen: its fields, controls, tables and links. *)

\* Of two parts with the same key one is kept, and it submits if either does.
Merge(parts) ==
    {[kind |-> part.kind, name |-> part.name,
      submit |-> \E twin \in parts : twin.kind = part.kind /\ twin.name = part.name /\ twin.submit]
        : part \in parts}

\* _excluded and _label: what has no name, or belongs to the session, is left out.
Named(p) == {part \in Parts[p] : part.name \notin Hidden}

\* _project_state_summary: the parts of the states of r that are on another route;
\* the tabs and dialogs of r itself add nothing.
Projected(r, owners) == UNION {Named(p) : p \in {q \in Built(owners) : owners[q] = r /\ RouteOf[q] # r}}

\* _reconcile_control_mutativity_from_events: a control is mutative if it submits or
\* if an event that presses it in a state of the screen is.
Mutative(part, r, owners) ==
    /\ part.kind = "control"
    /\ \/ part.submit
       \/ \E t \in BuiltFlow(owners) :
             owners[t[1]] = r /\ Category[t[2]] = "mutative" /\ Pressed[t[2]] = part.name

PartsOf(r, owners) ==
    {[kind |-> part.kind, name |-> part.name, mutative |-> Mutative(part, r, owners)]
        : part \in Merge(Named(app.entry[r]) \cup Projected(r, owners))}

-----------------------------------------------------------------------------
(* _modules: the tree of the menus, and the screens of each. *)

\* Every menu on the way to a state shown from home may be a module.
Menus == (UNION {Prefixes(nav[p].menus) : p \in DOMAIN nav}) \ {<<>>}

\* The routes linked to the states a menu leads to, and to those of its submenus.
DirectRoutes(m) == UNION {nav[p].links : p \in {q \in DOMAIN nav : nav[q].menus = m}}
SubtreeRoutes(m) == UNION {DirectRoutes(k) : k \in {n \in Menus : IsPrefix(m, n)}}

\* A menu without a screen observed below it is no module.
Modules == {m \in Menus : Screens # {} => SubtreeRoutes(m) \cap Screens # {}}

\* parent_module_id: the menu above, if it is a module.
Parent(m) == IF Front(m) \in Modules THEN Front(m) ELSE <<>>

\* The deepest of the modules that link to r; of two, the first by name.
Linking(r) == {m \in Modules : r \in DirectRoutes(m)}
Deepest(r) ==
    CHOOSE m \in Linking(r) : \A n \in Linking(r) : Len(n) <= Len(m)

\* _module_for_route: the module of the route or of the longest route it begins
\* with; <<>> when there is none.
ModuleOf(r) ==
    LET prefixes == {s \in {pair[2] : pair \in {b \in Below : b[1] = r}} : Linking(s) # {}}
    IN IF Linking(r) # {} THEN Deepest(r)
       ELSE IF prefixes = {} THEN <<>>
       ELSE Deepest(CHOOSE s \in prefixes : \A q \in prefixes \ {s} : <<s, q>> \in Below)

-----------------------------------------------------------------------------
(* Properties, of the knowledge built from a crawl that has ended. *)

\* A state reached from a screen is left out of the knowledge only because another
\* screen leads to it too, and then every transition left out has such an end.
OnlySharedStatesAreLost(owners) ==
    /\ \A p \in DOMAIN path \ Built(owners) :
          RouteOf[path[p].root] \in Screens =>
              Cardinality({RouteOf[q] : q \in Origins(p)} \cap Screens) > 1
    /\ \A t \in flow \ BuiltFlow(owners) : \E p \in {t[1], t[3]} :
          RouteOf[p] \notin Screens

\* The pages that link to r and that the branch of the module leads to are led to by no
\* other menus.
OneBranch(r) ==
    \A p \in {q \in Page : r \in ToSet(app.links[q])} :
        \A menus, others \in app.menus[p] : Inside(menus) => Inside(others)

\* In a crawl of a module, a screen that a menu of its branch reveals belongs to that
\* menu or to one of the branch as deep, also when it was captured before the menu was
\* opened, unless a page with its link is in two branches or the write of its artifacts
\* raised before the link was kept.
ScreensKeepTheirMenu ==
    \A t \in flow \ torn : \A r \in NewLinks(t[1], t[3]) \cap Screens :
        /\ Category[t[2]] = "expand_menu" /\ RouteOf[t[1]] = Home /\ OneBranch(r)
        /\ \E menus \in app.menus[t[3]] : Inside(menus)
        => /\ IsPrefix(EntryPath, ModuleOf(r))
           /\ \E menus \in app.menus[t[3]] : Len(menus) <= Len(ModuleOf(r))

\* A module below another is never published without it.
ModulesAreATree == \A m \in Modules : Parent(m) = Front(m)

\* A part of a screen was shown by its page, or by a page of no screen that no other
\* screen leads to; and a control pressed by a mutative event on the screen is not
\* published as harmless, unless the page shown was left out.
PartsAreEarned(owners) ==
    /\ \A r \in Screens : \A part \in PartsOf(r, owners) : \E p \in DOMAIN path :
          /\ \E shown \in Named(p) : shown.kind = part.kind /\ shown.name = part.name
          /\ \/ p = app.entry[r]
             \/ RouteOf[p] \notin Screens /\ {RouteOf[q] : q \in Origins(p)} \cap Screens \subseteq {r}
    /\ \A t \in flow : Category[t[2]] = "mutative" /\ RouteOf[t[1]] \in Screens /\ t[3] \in Built(owners) =>
          \A part \in PartsOf(RouteOf[t[1]], owners) :
              part.kind = "control" /\ part.name = Pressed[t[2]] => part.mutative

\* The knowledge built from a crawl, whatever failed in it, keeps what was observed and
\* where: no state but those two screens share is lost, no part is given to a screen
\* that did not show it, the menus keep their parents, and the screens of a module keep
\* their menus, but for the transitions torn: a write that raises after a transition is
\* recorded and before its links are leaves its screen without its menu, and the crawl
\* goes on (CanonicalKnowledgeBuilder.build, _persist_ui_event_state).
BuildKeepsTheCrawl ==
    phase = "done" =>
        /\ OnlySharedStatesAreLost(Owners)
        /\ ModulesAreATree
        /\ ScreensKeepTheirMenu
        /\ PartsAreEarned(Owners)

=============================================================================
