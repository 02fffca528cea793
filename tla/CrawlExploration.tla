-------------------------- MODULE CrawlExploration --------------------------
(***************************************************************************)
(* The crawler explores the screens of an ERP and the interface states     *)
(* reached from them by safe events, for the whole ERP, one module or one  *)
(* screen (route_crawler.py, ui_event_explorer.py, state_registry.py,      *)
(* frontier.py, state_frontier.py, state_restorer.py, path_replayer.py,    *)
(* module_scope.py, sandbox_policy.py), and its result is certified or not *)
(* (quality.py).                                                           *)
(*                                                                         *)
(* A page is what the browser shows up to its structural fingerprint; an   *)
(* application says which page a route opens, which links and events a     *)
(* page has and where an event leads.  The crawler is one thread; outside  *)
(* its control are the application, the navigations, clicks and writes     *)
(* that fail, and the session, which may end at any moment.                *)
(***************************************************************************)
EXTENDS Naturals, FiniteSets, SequencesExt, Sublists

CONSTANTS
    RouteOf,         \* RouteOf[p]: the route of page p
    Applications,    \* the applications the crawler may find
    Home,            \* home_url
    Login,           \* the page shown when the session is over
    Allowed,         \* the routes the profile allows
    Unavailable,     \* the pages classified as not available
    Broken,          \* the routes whose navigation always fails
    Category,        \* Category[e]: the category of event e
    Writes,          \* the events whose click sends a request that writes
    Descendant,      \* <<e, f>>: the selector of e descends from that of f
    HomeCategories, LocalCategories,
    MaxOpeners,      \* max_openers_per_root_state
    MaxHomeEvents, MaxEvents,   \* the events tried in one state
    Known,           \* the screens of the module, and
    EntryPath,       \* the menus that lead to it: ModuleCrawlBoundary
    Target,          \* the screen of a crawl of one screen
    MaxDepth,        \* max_depth
    MaxPages,        \* max_pages_total
    MaxEventDepth,   \* max_event_depth
    MaxFaults        \* bound on the failures of the environment

Page == DOMAIN RouteOf
EventsOf(categories) == {e \in DOMAIN Category : Category[e] \in categories}
None == "none"

ASSUME CrawlAssumption ==
    /\ {MaxOpeners, MaxHomeEvents, MaxEvents, MaxDepth, MaxPages, MaxEventDepth, MaxFaults} \subseteq Nat
    /\ MaxEventDepth > 0   \* the root of a screen is explored
    /\ Login \in Page /\ RouteOf[Login] \notin Allowed
    /\ Known \in Seq(Allowed) /\ {Home, Target} \subseteq Allowed
    /\ EntryPath \in Seq(EventsOf({"expand_menu"}))   \* _enter_module_branch presses menus
    /\ EntryPath # <<>>   \* ModuleCrawlBoundary.from_payload

\* A menu leads further down the branch it was reached by, never back.
MenuFollows(e, menus) ==
    Category[e] = "expand_menu" /\ menus # <<>> =>
        e \notin ToSet(menus) /\ <<e, Last(menus)>> \in Descendant

\* The menus that a trajectory presses: those that enter the module, in their order, or
\* one that MenuFollows them.
Pressable(e, menus) ==
    \/ MenuFollows(e, menus)
    \/ \E n \in Len(menus) + 1 .. Len(EntryPath) : e = EntryPath[n]

Traversed(menus, e) == IF Category[e] = "expand_menu" THEN Append(menus, e) ELSE menus

\* The menus that lead to each page of an application, by trajectories from any route,
\* and to the login page, shown instead when the session is over.
Leads(a) ==
    /\ \A r \in DOMAIN a.entry : <<>> \in a.menus[a.entry[r]]
    /\ \A p \in Page : \A e \in ToSet(a.events[p]) \cap DOMAIN a.opens[p] :
          \A menus \in a.menus[p] :
              Pressable(e, menus) =>
                  /\ Traversed(menus, e) \in a.menus[a.opens[p][e]]
                  /\ RouteOf[a.opens[p][e]] # RouteOf[p] => Traversed(menus, e) \in a.menus[Login]

\* What a route opens is a page; where it redirects opens too, and shows the same.
ASSUME ApplicationAssumption ==
    /\ Home \notin Broken
    /\ \A app \in Applications :
          /\ Allowed \subseteq DOMAIN app.entry
          /\ \A r \in DOMAIN app.entry :
                /\ app.entry[r] \in Page /\ RouteOf[app.entry[r]] \in DOMAIN app.entry
                /\ app.entry[RouteOf[app.entry[r]]] = app.entry[r]
                /\ r \notin Broken => RouteOf[app.entry[r]] \notin Broken
          /\ \A p \in Page :
                /\ \A e \in DOMAIN app.opens[p] : app.opens[p][e] \in Page
                /\ app.links[p] \in Seq(ToSet(app.links[p]))
                /\ app.events[p] \in Seq(DOMAIN Category)
          /\ Leads(app)

VARIABLES
    app,       \* the application
    scope,     \* scope of the job: full, module or screen
    phase,     \* what the crawler is doing
    browser,   \* the page the browser shows
    entered,   \* the pages shown while the menus of EntryPath are pressed
    queue,     \* Frontier: the routes to visit, with their depth
    visited,   \* Frontier: the routes captured
    tooDeep,   \* the routes and the pages left out for their depth
    dynamic,   \* the routes a crawl of a module was extended with
    path,      \* StateRegistry: how each page registered is reached
    pending,   \* StateFrontier: the pages to explore
    explored,  \* StateFrontier: the pages explored
    indexed,   \* screen_index: the screens captured
    known,     \* routes_graph: the routes it has a node for
    nav,       \* routes_graph: the states shown from home, with the menus that
               \* lead to them and the routes linked to them
    flow,      \* state_flow_graph: its transitions <<page, event, page>>
    torn,      \* those whose page is not in routes_graph, as its artifacts raised
    explorations, \* ui_events_explored: what the events of a page explored gave,
               \* with its trajectory and the scope at that time
    work,      \* the exploration of one page
    before,    \* the counts at the beginning of a round
    problems,  \* the blocking reasons left in the review directory
    expired,   \* the session is over
    faults

frontiers == <<queue, visited, tooDeep, pending, explored>>
graphs == <<path, indexed, known, nav, flow, torn, dynamic, explorations>>
env == <<app, scope, expired>>
vars == <<env, phase, browser, entered, frontiers, graphs, work, before, problems, faults>>

-----------------------------------------------------------------------------
(* Trajectories: CrawlPath, StateRegistry, StateRestorer. *)

NoWork == [page |-> None]
Opens(p, e) == IF e \in DOMAIN app.opens[p] THEN app.opens[p][e] ELSE None

\* A navigation, and a click that leaves the route, need the session.
Navigated(r) == IF expired THEN Login ELSE app.entry[r]
Clicked(p, e) ==
    LET q == Opens(p, e)
    IN IF q # None /\ RouteOf[q] # RouteOf[p] /\ expired THEN Login ELSE q

Depth(t) == Len(t.steps)
RootPath(p) == [root |-> p, steps |-> <<>>]
Extend(t, e, q) == [t EXCEPT !.steps = Append(@, [event |-> e, to |-> q])]

\* Mutant of PathTo: the trajectory begins at the page the event is pressed on.
PathToShort(p, e, q) == Extend(RootPath(p), e, q)

PathTo(p, e, q) == Extend(path[p], e, q)

\* StateRegistry.register: a shorter trajectory replaces the one known.
Register(paths, p, t) ==
    IF p \in DOMAIN paths /\ Depth(paths[p]) <= Depth(t) THEN paths
    ELSE [q \in DOMAIN paths \cup {p} |-> IF q = p THEN t ELSE paths[q]]

\* _execute_event: an opener is pressed again, without network writes, only as the first
\* step from a screen; the events of other categories were allowed by the policy.
MayReplay(t, n) == Category[t.steps[n].event] = "mutative" => n = 1 /\ RouteOf[t.root] # Home

\* _assert_matches_state: the page shown by step n is the one registered.
Reaches(t, n) ==
    Clicked(IF n = 1 THEN t.root ELSE t.steps[n - 1].to, t.steps[n].event) = t.steps[n].to

\* PathReplayer.replay: every step is authorized, pressed and its page verified.
Replays(t) == \A n \in DOMAIN t.steps : MayReplay(t, n) /\ Reaches(t, n)

\* Mutant of Restorable: a page of the same route is taken for the one wanted.
RestorableByRoute(p) ==
    \/ RouteOf[browser] = RouteOf[p]
    \/ RouteOf[path[p].root] \notin Broken /\ Navigated(RouteOf[path[p].root]) = path[p].root

\* StateRestorer.restore: the page is already there, or its trajectory leads to it.
Restorable(p) ==
    \/ browser = p
    \/ /\ RouteOf[path[p].root] \notin Broken
       /\ Navigated(RouteOf[path[p].root]) = path[p].root
       /\ Replays(path[p])

\* The page shown when a restore that claims success ends.
Shown(p) ==
    IF browser # p => Navigated(RouteOf[path[p].root]) = path[p].root /\ Replays(path[p])
    THEN p ELSE browser

-----------------------------------------------------------------------------
(* Scope: RoutePolicy, route_scope and ModuleCrawlBoundary. *)

RouteScope ==
    CASE scope = "full" -> Allowed
      [] scope = "module" -> ToSet(Known) \cup dynamic
      [] scope = "screen" -> {Target}

Admitted == Allowed \cap RouteScope

MenuPath(t) == Within([n \in DOMAIN t.steps |-> t.steps[n].event], EventsOf({"expand_menu"}))

\* is_inside_selected_branch.
Inside(menus) == scope = "module" /\ IsPrefix(EntryPath, menus)

\* _ui_event_result_in_scope, for a page reached by t and the routes in scope: a menu
\* of the branch may show any allowed route.
ResultInScope(routes, t, e, q) ==
    /\ RouteOf[q] \in Allowed
    /\ \/ RouteOf[q] \in routes
       \/ Category[e] = "expand_menu" /\ Inside(Append(MenuPath(t), e))

\* The allowed links that q has and p did not.
NewLinks(p, q) == (ToSet(app.links[q]) \ ToSet(app.links[p])) \cap Allowed

\* Mutant of Revealed: a new link extends the module wherever it appears.
RevealedAnywhere(p, e, q, t) == IF scope = "module" THEN NewLinks(p, q) ELSE {}

\* _register_module_event_discovered_links: new links extend the module only if a
\* menu shows them and the menus that lead to q are those of its branch.
Revealed(p, e, q, t) ==
    IF Inside(MenuPath(t))
    THEN {r \in NewLinks(p, q) : r \in ToSet(Known) \/ Category[e] = "expand_menu"}
    ELSE {}

-----------------------------------------------------------------------------
(* The events tried in a state: candidates and their filters. *)

AtMost(s, n) == SubSeq(s, 1, IF Len(s) < n THEN Len(s) ELSE n)

\* _categories_for_state.
Categories(p, t) ==
    IF RouteOf[p] = Home /\ (Depth(t) = 0 \/ Inside(MenuPath(t)))
    THEN HomeCategories ELSE LocalCategories

\* SandboxExplorationPolicy.evaluate: openers, only from the root state of a screen.
Openers(p, t) ==
    IF RouteOf[p] = Home \/ Depth(t) # 0 THEN <<>>
    ELSE AtMost(Within(app.events[p], EventsOf({"mutative"})), MaxOpeners)

Candidates(p, t) ==
    AtMost(Openers(p, t) \o Within(app.events[p],
                {e \in EventsOf(Categories(p, t) \ {"mutative"}) : MenuFollows(e, MenuPath(t))}),
           IF RouteOf[p] = Home THEN MaxHomeEvents ELSE MaxEvents)

-----------------------------------------------------------------------------
(* The two frontiers. *)

\* Frontier.push of links in their order, unless queued or visited.
Push(rest, seen, links, depth) ==
    LET queued == {rest[n].route : n \in DOMAIN rest}
        new == Within(links, ToSet(links) \ (seen \cup queued))
    IN rest \o [n \in DOMAIN new |-> [route |-> new[n], depth |-> depth]]

\* StateFrontier.push; the depth is that of the trajectory at this moment.
Await(p, t) ==
    IF p \in explored \/ \E n \in DOMAIN pending : pending[n].page = p THEN pending
    ELSE Append(pending, [page |-> p, depth |-> Depth(t)])

\* _state_event_depth: the menus that lead to a module do not count.
EventDepth(depth) ==
    IF scope # "module" THEN depth
    ELSE IF depth < Len(EntryPath) THEN 0 ELSE depth - Len(EntryPath)

Counts == <<Cardinality(visited), Len(queue), Cardinality(explored), Len(pending)>>

\* Mutant of ScreenLinks: what the profile does not allow is queued too.
ScreenLinksAll(p) ==
    Within(app.links[p], {r \in ToSet(app.links[p]) :
        r # RouteOf[p] /\ ~(r \in app.global /\ r \in known)})

\* _register_discovered_links of a screen: a global link already known is not repeated.
ScreenLinks(p) ==
    Within(app.links[p], {r \in Admitted \ {RouteOf[p]} :
        ~(r \in app.global /\ RouteOf[p] # Home /\ r \in known)})

\* The exploration of p, reached by t, begins.
Explore(p, t, depth, origin) ==
    [page |-> p, path |-> t, routes |-> RouteScope, depth |-> depth, origin |-> origin,
     todo |-> Candidates(p, t), results |-> <<>>]

\* Where the crawler goes on after exploring a page it came to from origin.
After(origin) == IF origin = "start" THEN "top" ELSE origin

-----------------------------------------------------------------------------
(* The environment. *)

Fail == faults < MaxFaults /\ faults' = faults + 1

\* The session ends: every navigation shows the login page from now on.
Expire ==
    /\ phase \notin {"done", "failed"} /\ ~expired /\ Fail
    /\ expired' = TRUE
    /\ UNCHANGED <<app, scope, phase, browser, entered, frontiers, graphs, work, before, problems>>

-----------------------------------------------------------------------------
(* Screens: _capture_current_screen, from the start or from the routes. *)

\* A screen not seen before: its root trajectory, its links and its events.
CaptureScreen(p, rest, depth, origin) ==
    LET paths == Register(path, p, RootPath(p))
    IN /\ RouteOf[p] \in Admitted \ visited /\ p \notin Unavailable
       /\ visited' = visited \cup {RouteOf[p]} /\ path' = paths
       /\ indexed' = indexed \cup {RouteOf[p]}
       /\ known' = known \cup {RouteOf[p]} \cup ToSet(ScreenLinks(p))
       /\ queue' = Push(rest, visited', ScreenLinks(p), depth + 1)
       /\ phase' = "explore" /\ work' = Explore(p, paths[p], depth, origin)

\* A screen that is not available is visited and not explored.
CaptureUnavailable(p, rest, origin) ==
    /\ RouteOf[p] \in Admitted \ visited /\ p \in Unavailable
    /\ visited' = visited \cup {RouteOf[p]} /\ known' = known \cup {RouteOf[p]}
    /\ queue' = rest /\ phase' = After(origin)
    /\ UNCHANGED <<path, indexed, work>>

\* A page out of scope, or of a screen already captured, is passed over in silence.
CaptureNothing(p, rest, origin) ==
    /\ RouteOf[p] \notin Admitted \ visited
    /\ queue' = rest /\ phase' = After(origin)
    /\ UNCHANGED <<visited, known, path, indexed, work>>

Capture(p, rest, depth, origin) ==
    /\ browser' = p
    /\ \/ CaptureScreen(p, rest, depth, origin)
       \/ CaptureUnavailable(p, rest, origin)
       \/ CaptureNothing(p, rest, origin)
    /\ UNCHANGED <<pending, explored, nav, flow, torn, dynamic, explorations>>

\* A failure before the loop, outside its handlers, ends the job.
FailStart ==
    /\ phase \in {"start", "enter"} /\ Fail
    /\ phase' = "failed"
    /\ UNCHANGED <<env, browser, entered, frontiers, graphs, work, before, problems>>

\* crawl: from home_url.
StartFull ==
    /\ phase = "start" /\ scope = "full"
    /\ Capture(Navigated(Home), queue, 0, "start")
    /\ UNCHANGED <<env, entered, tooDeep, before, problems, faults>>

\* crawl_screen: from the screen, unless it redirects out of the scope.
StartScreen ==
    /\ phase = "start" /\ scope = "screen"
    /\ IF Target \notin Broken /\ RouteOf[Navigated(Target)] \in Admitted
       THEN Capture(Navigated(Target), queue, 0, "start")
       ELSE /\ phase' = "failed"
            /\ UNCHANGED <<browser, queue, visited, pending, explored, graphs, work>>
    /\ UNCHANGED <<env, entered, tooDeep, before, problems, faults>>

\* crawl_module: _enter_module_branch registers home, not captured as a screen.
StartModule ==
    /\ phase = "start" /\ scope = "module"
    /\ LET p == Navigated(Home)
       IN /\ browser' = p
          /\ IF RouteOf[p] \in Allowed
             THEN /\ phase' = "enter" /\ path' = Register(path, p, RootPath(p))
                  /\ known' = known \cup {RouteOf[p]} /\ entered' = <<p>>
             ELSE phase' = "failed" /\ UNCHANGED <<path, known, entered>>
    /\ UNCHANGED <<env, frontiers, indexed, nav, flow, torn, dynamic, explorations, work, before,
                   problems, faults>>

\* Mutant of LinksShown: a link to a screen already known is dropped in a module too.
LinksShownOnce(p, e, q, t) ==
    Within(app.links[q], (IF scope = "module" THEN Revealed(p, e, q, t) ELSE Admitted) \ known)

\* The links that an event of p shows on q and that enter the graph: in a module
\* those it reveals, known or not; otherwise the new ones only.
LinksShown(p, e, q, t) ==
    Within(app.links[q], IF scope = "module" THEN Revealed(p, e, q, t) ELSE Admitted \ known)

\* RoutesGraphBuilder: the node of q is updated, its edges are kept.
Linked(q, menus, links) ==
    [n \in DOMAIN nav \cup {q} |->
        IF n # q THEN nav[n]
        ELSE [menus |-> menus, links |-> links \cup IF q \in DOMAIN nav THEN nav[q].links ELSE {}]]

\* q, shown by an event of p on the route base, and its links enter the graph; the
\* links enter the frontier and extend the module.
RegisterLinks(base, p, e, q, t, depth) ==
    LET links == LinksShown(p, e, q, t)
    IN /\ known' = known \cup ToSet(links)
       /\ queue' = Push(queue, visited, links, depth + 1)
       /\ dynamic' = IF scope = "module" THEN dynamic \cup (ToSet(links) \ ToSet(Known)) ELSE dynamic
       /\ nav' = IF base = Home THEN Linked(q, MenuPath(t), ToSet(links)) ELSE nav

\* One menu of the branch is pressed; a menu that is not there ends the job.
EnterMenu ==
    /\ phase = "enter" /\ Len(entered) <= Len(EntryPath)
    /\ LET e == EntryPath[Len(entered)]
           q == IF Opens(browser, e) = None THEN browser ELSE Clicked(browser, e)
           paths == Register(path, q, PathTo(browser, e, q))
       IN IF e \in ToSet(app.events[browser])
          THEN /\ browser' = q /\ path' = paths /\ flow' = flow \cup {<<browser, e, q>>}
               /\ RegisterLinks(Home, browser, e, q, paths[q], Len(entered) - 1)
               /\ entered' = Append(entered, q) /\ UNCHANGED phase
          ELSE /\ phase' = "failed"
               /\ UNCHANGED <<browser, path, flow, nav, queue, dynamic, known, entered>>
    /\ UNCHANGED <<env, visited, tooDeep, pending, explored, indexed, torn, explorations, work,
                   before, problems, faults>>

\* The screens known of the module and the state entered are queued.
EnterModule ==
    /\ phase = "enter" /\ Len(entered) > Len(EntryPath)
    /\ queue' = Push(queue, visited, Known, 0)
    /\ pending' = Await(browser, path[browser])
    /\ phase' = "top"
    /\ UNCHANGED <<env, browser, entered, visited, tooDeep, explored, graphs, work, before,
                   problems, faults>>

-----------------------------------------------------------------------------
(* _crawl_until_fixed_point and _crawl_pending_targets. *)

\* Mutant of RoutesWait: the limit of pages is left to the inner loop.
RoutesAlwaysWait == queue # <<>>

RoutesWait == queue # <<>> /\ Cardinality(visited) < MaxPages

\* A round begins, with the routes if some can be visited.
Top ==
    /\ phase = "top"
    /\ before' = Counts
    /\ phase' = IF RoutesWait THEN "routes" ELSE IF pending # <<>> THEN "states" ELSE "done"
    /\ UNCHANGED <<env, browser, entered, frontiers, graphs, work, problems, faults>>

NextTarget == phase = "routes" /\ queue # <<>> /\ Cardinality(visited) < MaxPages

Skipped(target) ==
    target.depth > MaxDepth \/ target.route \in visited \/ target.route \notin Admitted

SkipRoute ==
    /\ NextTarget /\ Skipped(Head(queue))
    /\ queue' = Tail(queue)
    /\ tooDeep' = IF Head(queue).depth > MaxDepth THEN tooDeep \cup {Head(queue).route} ELSE tooDeep
    /\ UNCHANGED <<env, phase, browser, entered, visited, pending, explored, graphs, work,
                   before, problems, faults>>

\* Mutant of LoseRoute: the route goes back to the frontier.
RetryRoute ==
    /\ NextTarget /\ ~Skipped(Head(queue))
    /\ IF Head(queue).route \in Broken THEN UNCHANGED faults ELSE Fail
    /\ queue' = Append(Tail(queue), Head(queue)) /\ problems' = problems \cup {"navigation"}
    /\ UNCHANGED <<env, phase, browser, entered, visited, tooDeep, pending, explored, graphs,
                   work, before>>

\* A route whose navigation fails is not tried again.
LoseRoute ==
    /\ NextTarget /\ ~Skipped(Head(queue))
    /\ IF Head(queue).route \in Broken THEN UNCHANGED faults ELSE Fail
    /\ queue' = Tail(queue) /\ problems' = problems \cup {"navigation"}
    /\ UNCHANGED <<env, phase, browser, entered, visited, tooDeep, pending, explored, graphs,
                   work, before>>

VisitRoute ==
    /\ NextTarget /\ ~Skipped(Head(queue)) /\ Head(queue).route \notin Broken
    /\ Capture(Navigated(Head(queue).route), Tail(queue), Head(queue).depth, "routes")
    /\ UNCHANGED <<env, entered, tooDeep, before, problems, faults>>

\* Writing the artifacts of a screen raises: it is visited and registered, and neither in
\* the index nor explored.
BreakCapture ==
    /\ NextTarget /\ ~Skipped(Head(queue)) /\ Head(queue).route \notin Broken /\ Fail
    /\ LET p == Navigated(Head(queue).route)
       IN /\ RouteOf[p] \in Admitted \ visited
          /\ browser' = p /\ visited' = visited \cup {RouteOf[p]}
          /\ path' = IF p \in Unavailable THEN path ELSE Register(path, p, RootPath(p))
    /\ queue' = Tail(queue) /\ problems' = problems \cup {"navigation"}
    /\ UNCHANGED <<env, phase, entered, tooDeep, pending, explored, indexed, known, nav, flow, torn,
                   dynamic, explorations, work, before>>

EndRoutes ==
    /\ phase = "routes" /\ ~NextTarget
    /\ phase' = "states"
    /\ UNCHANGED <<env, browser, entered, frontiers, graphs, work, before, problems, faults>>

-----------------------------------------------------------------------------
(* explore_current_state: the candidates of one page, one after the other. *)

Tried(result) == work' = [work EXCEPT !.todo = Tail(@), !.results = Append(@, result)]

\* The page cannot be restored before an event.
LosePage ==
    /\ phase = "explore" /\ work.todo # <<>>
    /\ IF Restorable(work.page) THEN Fail ELSE UNCHANGED faults
    /\ browser' = Navigated(RouteOf[path[work.page].root])
    /\ Tried([event |-> Head(work.todo), to |-> None, error |-> "restore"])
    /\ UNCHANGED <<env, phase, entered, frontiers, graphs, before, problems>>

\* The page is restored and the click fails, or is blocked because it writes.
ClickFails ==
    /\ phase = "explore" /\ work.todo # <<>> /\ Restorable(work.page)
    /\ IF Head(work.todo) \in Writes THEN UNCHANGED faults ELSE Fail
    /\ browser' = Shown(work.page)
    /\ Tried([event |-> Head(work.todo), to |-> None, error |-> "interaction"])
    /\ UNCHANGED <<env, phase, entered, frontiers, graphs, before, problems>>

\* The page is restored and the event shows a page, the same one or none.
Click ==
    /\ phase = "explore" /\ work.todo # <<>> /\ Restorable(work.page)
    /\ Head(work.todo) \notin Writes
    /\ LET q == Clicked(Shown(work.page), Head(work.todo))
       IN /\ browser' = IF q = None THEN Shown(work.page) ELSE q
          /\ Tried([event |-> Head(work.todo), to |-> q, error |-> None])
    /\ UNCHANGED <<env, phase, entered, frontiers, graphs, before, problems, faults>>

\* Every candidate was tried: the page is restored, the results in scope are kept.
EndTries ==
    /\ phase = "explore" /\ work.todo = <<>>
    /\ browser' = IF Restorable(work.page) THEN Shown(work.page)
                  ELSE Navigated(RouteOf[path[work.page].root])
    /\ phase' = "register"
    /\ work' = [work EXCEPT !.todo =
           Within(work.results, {r \in ToSet(work.results) :
               r.to # None /\ ResultInScope(RouteScope, path[work.page], r.event, r.to)})]
    /\ UNCHANGED <<env, entered, frontiers, graphs, before, problems, faults>>

-----------------------------------------------------------------------------
(* _explore_ui_events_from_screen: the results are registered. *)

\* _should_queue_dynamic_state.
Queues(isNew, t) == isNew /\ EventDepth(Depth(t)) < MaxEventDepth

\* An event that only changes the content is a transition from the page to itself.
RegisterContent ==
    /\ phase = "register" /\ work.todo # <<>> /\ Head(work.todo).to = work.page
    /\ flow' = flow \cup {<<work.page, Head(work.todo).event, work.page>>}
    /\ work' = [work EXCEPT !.todo = Tail(@)]
    /\ UNCHANGED <<env, phase, browser, entered, frontiers, path, indexed, known, nav, torn, dynamic,
                   explorations, before, problems, faults>>

\* An event that shows another page: its trajectory, its links, and its turn if new.
RegisterPage ==
    /\ phase = "register" /\ work.todo # <<>> /\ Head(work.todo).to # work.page
    /\ LET p == work.page
           e == Head(work.todo).event
           q == Head(work.todo).to
           paths == Register(path, q, PathTo(p, e, q))
       IN /\ path' = paths
          /\ flow' = flow \cup {<<p, e, q>>} /\ torn' = torn \ {<<p, e, q>>}
          /\ RegisterLinks(RouteOf[p], p, e, q, paths[q], work.depth)
          /\ IF Queues(q \notin DOMAIN path, paths[q])
             THEN pending' = Await(q, paths[q]) /\ UNCHANGED tooDeep
             ELSE /\ tooDeep' = IF q \in DOMAIN path THEN tooDeep ELSE tooDeep \cup {q}
                  /\ UNCHANGED pending
    /\ work' = [work EXCEPT !.todo = Tail(@)]
    /\ UNCHANGED <<env, phase, browser, entered, visited, explored, indexed, explorations, before,
                   problems, faults>>

\* The results saved, the failed restores among them.
Saved ==
    explorations \cup
        {[page |-> work.page, path |-> work.path, routes |-> work.routes, results |-> work.results]}

\* The page is explored and the results are saved.
FinishExploration ==
    /\ phase = "register" /\ work.todo = <<>>
    /\ explored' = explored \cup {work.page}
    /\ explorations' = Saved
    /\ problems' = IF \E n \in DOMAIN work.results : work.results[n].error = "restore"
                   THEN problems \cup {"restore"} ELSE problems
    /\ phase' = After(work.origin) /\ work' = NoWork
    /\ UNCHANGED <<env, browser, entered, queue, visited, tooDeep, pending, path, indexed, known, nav,
                   flow, torn, dynamic, before, faults>>

\* The handler of the loop that explores the page: a state is marked as explored.
Handled(marked) ==
    /\ phase' = IF work.origin = "start" THEN "failed" ELSE work.origin
    /\ explored' = explored \cup IF work.origin = "states" THEN {work.page} ELSE marked
    /\ problems' = CASE work.origin = "start" -> problems
                     [] work.origin = "routes" -> problems \cup {"navigation"}
                     [] work.origin = "states" -> problems \cup {"exploration"}
    /\ work' = NoWork
    /\ UNCHANGED <<env, browser, entered, queue, visited, tooDeep, pending, indexed, known, nav,
                   dynamic, before>>

\* The artifacts of a page shown raise: it is registered with its transition, and has
\* neither its node and its links in the graph nor its turn.
BreakRegistration ==
    /\ phase = "register" /\ work.todo # <<>> /\ Head(work.todo).to # work.page /\ Fail
    /\ LET p == work.page
           e == Head(work.todo).event
           q == Head(work.todo).to
       IN /\ path' = Register(path, q, PathTo(p, e, q))
          /\ flow' = flow \cup {<<p, e, q>>} /\ torn' = torn \cup {<<p, e, q>>}
    /\ Handled({}) /\ UNCHANGED explorations

\* Saving the results of a page already marked raises, or the checkpoint after it.
BreakExploration ==
    /\ phase = "register" /\ work.todo = <<>> /\ Fail
    /\ Handled({work.page})
    /\ explorations' \in {explorations, Saved}
    /\ UNCHANGED <<path, flow, torn>>

-----------------------------------------------------------------------------
(* _crawl_pending_states. *)

\* A state queued is below the depth limit: the test of the loop never skips one.
NextState == phase = "states" /\ pending # <<>>

\* Mutant of LoseState: the review directory is told nothing.
LoseStateSilently ==
    /\ NextState
    /\ IF Restorable(Head(pending).page) THEN Fail ELSE UNCHANGED faults
    /\ browser' = Navigated(RouteOf[path[Head(pending).page].root])
    /\ pending' = Tail(pending) /\ explored' = explored \cup {Head(pending).page}
    /\ UNCHANGED <<env, phase, entered, queue, visited, tooDeep, graphs, work, before, problems>>

\* A state that cannot be restored is given up.
LoseState ==
    /\ NextState
    /\ IF Restorable(Head(pending).page) THEN Fail ELSE UNCHANGED faults
    /\ browser' = Navigated(RouteOf[path[Head(pending).page].root])
    /\ pending' = Tail(pending) /\ explored' = explored \cup {Head(pending).page}
    /\ problems' = problems \cup {"dynamic restore"}
    /\ UNCHANGED <<env, phase, entered, queue, visited, tooDeep, graphs, work, before>>

\* A state is explored with the trajectory registered now, at the depth it was queued.
ExploreState ==
    /\ NextState
    /\ LET p == Head(pending).page
       IN /\ Restorable(p)
          /\ browser' = Shown(p)
          /\ work' = Explore(p, path[p], Head(pending).depth, "states")
    /\ phase' = "explore"
    /\ pending' = Tail(pending)
    /\ UNCHANGED <<env, entered, queue, visited, tooDeep, explored, graphs, before, problems, faults>>

\* The round ends; one that changed no count is a stall.
EndRound ==
    /\ phase = "states" /\ pending = <<>>
    /\ IF Counts = before
       THEN phase' = "done" /\ problems' = problems \cup {"stalled"}
       ELSE phase' = "top" /\ UNCHANGED problems
    /\ UNCHANGED <<env, browser, entered, frontiers, graphs, work, before, faults>>

-----------------------------------------------------------------------------

Init ==
    /\ app \in Applications /\ scope \in {"full", "module", "screen"}
    /\ phase = "start" /\ browser = app.entry[Home] /\ entered = <<>>
    /\ queue = <<>> /\ visited = {} /\ tooDeep = {} /\ dynamic = {}
    /\ path = [p \in {} |-> None] /\ pending = <<>> /\ explored = {}
    /\ indexed = {} /\ known = {} /\ nav = path /\ flow = {} /\ torn = {} /\ explorations = {}
    /\ work = NoWork /\ before = <<>> /\ problems = {}
    /\ expired = FALSE /\ faults = 0

Crawler ==
    \/ StartFull \/ StartScreen \/ StartModule \/ EnterMenu \/ EnterModule
    \/ Top \/ SkipRoute \/ LoseRoute \/ VisitRoute \/ EndRoutes
    \/ LosePage \/ ClickFails \/ Click \/ EndTries
    \/ RegisterContent \/ RegisterPage \/ FinishExploration
    \/ LoseState \/ ExploreState \/ EndRound

Next ==
    Crawler \/ FailStart \/ BreakCapture \/ BreakRegistration \/ BreakExploration \/ Expire

Spec == Init /\ [][Next]_vars /\ WF_vars(Crawler)

\* build_crawl_execution_quality: nothing blocks and both frontiers are empty.
Certified == phase = "done" /\ problems = {} /\ queue = <<>> /\ pending = <<>>

-----------------------------------------------------------------------------
(* Properties. *)

\* Every component of the state has the type of the code's.
TypeOK ==
    /\ app \in Applications /\ scope \in {"full", "module", "screen"}
    /\ phase \in {"start", "enter", "top", "routes", "states", "explore", "register",
                  "done", "failed"}
    /\ browser \in Page /\ Len(entered) <= Len(EntryPath) + 1
    /\ visited \subseteq Allowed /\ tooDeep \subseteq Allowed \cup Page /\ dynamic \subseteq Allowed
    /\ \A n \in DOMAIN queue : queue[n].route \in Allowed /\ queue[n].depth \in Nat
    /\ Cardinality(visited) \in 0 .. MaxPages \cup {1}   \* the first is always captured
    /\ \A n \in DOMAIN pending : pending[n].page \in DOMAIN path
    /\ explored \cup DOMAIN nav \subseteq DOMAIN path /\ DOMAIN path \subseteq Page
    /\ indexed \subseteq visited /\ torn \subseteq flow
    /\ work.page \in DOMAIN path \cup {None}
    /\ problems \subseteq {"navigation", "restore", "dynamic restore", "exploration", "stalled"}
    /\ expired \in BOOLEAN /\ faults \in 0 .. MaxFaults

\* As long as the environment does not fail, whatever trajectory the registry
\* chose leads back to its page, no exploration breaks and no round stalls: the
\* only blocking reason left is a route that never opens (PathReplayer,
\* crawl_fixed_point_stalled).
NoProblemWithoutCause ==
    faults = 0 => problems \subseteq IF Broken = {} THEN {} ELSE {"navigation"}

\* Every transition of the state flow graph is one of the application: its event
\* was pressed on the page it is recorded for, after any sequence of clicks,
\* redirects and failed restores (StateRestorer before each candidate).  Only a menu of
\* EntryPath, that no policy filters, is recorded with the login page when it leaves the
\* route and the session is over (_enter_module_branch).
FlowIsReal ==
    \A t \in flow :
        \/ Opens(t[1], t[2]) = t[3]
        \/ Opens(t[1], t[2]) = None /\ t[1] = t[3]   \* a menu of the branch without effect
        \/ /\ expired /\ t[3] = Login /\ t[2] \in ToSet(EntryPath)
           /\ Opens(t[1], t[2]) # None /\ RouteOf[Opens(t[1], t[2])] # RouteOf[t[1]]

\* A crawl of a module visits its known screens and those its own branch shows: a menu
\* was pressed that showed their link on a page to which the menus of the branch lead,
\* whatever its screens link to and however its trajectories change (ModuleCrawlBoundary).
ModuleStaysInside ==
    scope = "module" =>
        \A r \in (visited \cup dynamic) \ ToSet(Known) : \E t \in flow :
            /\ Category[t[2]] = "expand_menu" /\ r \in NewLinks(t[1], t[3])
            /\ \E menus \in app.menus[t[3]] : Inside(menus)

\* The pages a crawl of a module passes on the way in.
Passed == {p \in ToSet(entered) : p # Last(entered)}

\* The pages whose events a crawl must try: those not registered first at the depth
\* limit nor on the way into the module.
MustExplore == DOMAIN path \ (tooDeep \cup Passed)

\* Every event to be tried by the exploration x that shows a page in its scope is in the
\* flow graph with that page, or left an error.
LeftNothing(x) ==
    \A e \in ToSet(Candidates(x.page, x.path)) :
        LET q == Opens(x.page, e)
        IN \/ q = None \/ ~ResultInScope(x.routes, x.path, e, q)
           \/ <<x.page, e, q>> \in flow
           \/ \E r \in ToSet(x.results) : r.event = e /\ r.error # None

\* A certified crawl whose session lived missed nothing it knew of: every route of
\* its graph in scope was visited, redirects elsewhere or was too deep; and every page
\* registered was explored, by its trajectory or by the one a shorter has replaced, and
\* left nothing (build_crawl_execution_quality).
CertifiedIsComplete ==
    Certified /\ ~expired =>
        /\ \A r \in known \cap Admitted :
              \/ {r, RouteOf[app.entry[r]]} \cap (visited \cup tooDeep) # {}
              \/ RouteOf[app.entry[r]] \notin Admitted
        /\ \A p \in MustExplore : \E x \in explorations :
              /\ x.page = p /\ LeftNothing(x)
              /\ x.path = path[p] \/ Depth(path[p]) < Depth(x.path)

\* The crawl ends, whatever fails, although pages lead back to each other
\* (max_pages_total, _crawl_until_fixed_point).
Terminates == <>(phase \in {"done", "failed"})

=============================================================================
