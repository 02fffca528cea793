------------------------ MODULE CrawlExplorationProofs ------------------------
(***************************************************************************)
(* What CrawlExploration promises for every application, whatever fails    *)
(* and however long the crawl is.  The inductive invariant has six parts:  *)
(*   Typed      the types of the frontiers, the graphs and the page shown  *)
(*   Rooted     every trajectory registered leads to its page              *)
(*   Working    what is tried and found while a page is explored           *)
(*   Rounds     what a round has changed since its counts were taken       *)
(*   Blameless  nothing blocks unless the environment failed               *)
(*   FlowIsReal the transitions recorded are the application's             *)
(* Blameless needs Rooted, because a trajectory that leads to its page is  *)
(* always replayed, and Rounds, because a round without progress stalls.   *)
(* On it rest three more, for the scope and for the result of a crawl and  *)
(* for the knowledge built from it (CanonicalBuild):                       *)
(*   Guided     the menus of a trajectory lead to its page, and a route    *)
(*              beyond the known screens was shown at the end of a branch  *)
(*   Complete   as long as nothing forbids to certify the crawl, what is   *)
(*              known and not settled waits, and what was explored left    *)
(*              nothing                                                    *)
(*   Buildable  the registry has what the graphs name, and the states      *)
(*              shown from home have menus and links of their page         *)
(***************************************************************************)
EXTENDS CanonicalBuild, SublistTheorems, FiniteSetTheorems, TLAPS

-----------------------------------------------------------------------------
(* The rows of the state. *)

Event == DOMAIN Category
Step == [event : Event, to : Page]
Trajectory == [root : Page, steps : Seq(Step)]
RouteRow == [route : Allowed, depth : Nat]
StateRow == [page : DOMAIN path, depth : Nat]

\* The page a step is taken from.
From(t, n) == IF n = 1 THEN t.root ELSE t.steps[n - 1].to

\* A press of e on p has shown q: what it opens, or the login page.
Showed(p, e, q) ==
    \/ Opens(p, e) = q
    \/ expired /\ q = Login /\ Opens(p, e) # None /\ RouteOf[Opens(p, e)] # RouteOf[p]

\* A trajectory that leads to p by what was shown and may be replayed.
Sound(t, p) ==
    /\ t \in Trajectory
    /\ RouteOf[t.root] \in DOMAIN app.entry \ Broken
    /\ app.entry[RouteOf[t.root]] = t.root
    /\ \A n \in DOMAIN t.steps : MayReplay(t, n) /\ Showed(From(t, n), t.steps[n].event, t.steps[n].to)
    /\ p = From(t, Len(t.steps) + 1)

Typed ==
    /\ app \in Applications /\ scope \in {"full", "module", "screen"}
    /\ phase \in {"start", "enter", "top", "routes", "states", "explore", "register",
                  "done", "failed"}
    /\ browser \in Page /\ entered \in Seq(Page) /\ Len(entered) <= Len(EntryPath) + 1
    /\ IsFiniteSet(visited) /\ visited \subseteq Allowed
    /\ Cardinality(visited) \in 0 .. MaxPages \cup {1}
    /\ tooDeep \subseteq Allowed \cup Page /\ dynamic \subseteq Allowed
    /\ queue \in Seq(RouteRow) /\ pending \in Seq(StateRow)
    /\ explored \cup DOMAIN nav \subseteq DOMAIN path
    /\ indexed \subseteq visited /\ torn \subseteq flow
    /\ problems \subseteq {"navigation", "restore", "dynamic restore", "exploration", "stalled"}
    /\ expired \in BOOLEAN /\ faults \in 0 .. MaxFaults /\ (expired => faults # 0)
    /\ phase = "start" => visited = {}
    /\ phase = "enter" => browser \in DOMAIN path /\ entered # <<>>

Rooted == DOMAIN path \subseteq Page /\ \A p \in DOMAIN path : Sound(path[p], p)

\* An opener is a candidate of the root of a screen only.
Playable(p, t) == {e \in Event : Category[e] = "mutative" => RouteOf[p] # Home /\ Depth(t) = 0}

\* The result of an event: the page it opens, the login page or none.
Result(p) ==
    {r \in [event : Playable(p, path[p]), to : Page \cup {None}, error : {None, "restore", "interaction"}] :
        /\ r.to \notin {None, Login} => Opens(p, r.event) = r.to
        /\ r.error = "restore" => faults # 0}

\* A result that is registered.
Registrable(p) == {r \in Result(p) : r.to \in Page \ {Login, None} /\ Opens(p, r.event) = r.to}

Busy == phase \in {"explore", "register"}

Exploration(todo) ==
    [page : DOMAIN path, path : Trajectory, routes : SUBSET Allowed, depth : Nat, origin : {"start", "routes", "states"},
     todo : todo, results : Seq(Result(work.page))]

Working ==
    /\ ~Busy => work = NoWork
    /\ phase = "explore" => work \in Exploration(Seq(Playable(work.page, path[work.page])))
    /\ phase = "register" => work \in Exploration(Seq(Registrable(work.page)))

\* While a round runs: if no state was waiting when it began, a route was, and a state
\* waits or is explored only after a screen was captured.
InRound == phase \in {"routes", "states"} \/ (Busy /\ work.origin # "start")

Rounds ==
    InRound =>
        /\ before[1] \in Nat /\ before[2] \in Nat /\ before[4] \in Nat
        /\ before[1] <= Cardinality(visited)
        /\ before[4] = 0 =>
              /\ before[2] # 0 /\ before[1] < MaxPages
              /\ (pending # <<>> \/ Busy) => before[1] < Cardinality(visited)
              /\ phase = "states" => (before[1] < Cardinality(visited) \/ queue = <<>>)

Blameless == NoProblemWithoutCause

Inv == Typed /\ Rooted /\ Working /\ Rounds /\ Blameless /\ FlowIsReal

-----------------------------------------------------------------------------
(* The operators. *)

\* The part of the state a proof about an action that leaves it alone needs.
LEMMA AppFacts ==
    ASSUME Typed
    PROVE  /\ Allowed \subseteq DOMAIN app.entry /\ Home \notin Broken
           /\ \A r \in DOMAIN app.entry :
                 /\ app.entry[r] \in Page /\ RouteOf[app.entry[r]] \in DOMAIN app.entry
                 /\ app.entry[RouteOf[app.entry[r]]] = app.entry[r]
                 /\ r \notin Broken => RouteOf[app.entry[r]] \notin Broken
           /\ \A p \in Page :
                 /\ \A e \in DOMAIN app.opens[p] : app.opens[p][e] \in Page
                 /\ app.links[p] \in Seq(ToSet(app.links[p]))
                 /\ app.events[p] \in Seq(Event)
  BY ApplicationAssumption, Zenon DEF Typed, Event

\* An event opens a page of the application or none.
LEMMA OpensFacts ==
    ASSUME Typed, NEW p \in Page, NEW e
    PROVE  Opens(p, e) \in Page \cup {None}
  BY AppFacts DEF Opens

\* A navigation shows the login page or the page of the route, which opens again.
LEMMA NavigatedFacts ==
    ASSUME Typed, NEW r \in DOMAIN app.entry
    PROVE  /\ Navigated(r) \in Page
           /\ RouteOf[Navigated(r)] \in Allowed =>
                 /\ ~expired /\ Navigated(r) = app.entry[r]
  BY AppFacts, CrawlAssumption DEF Navigated

\* A click shows what the event opens or the login page.
LEMMA ClickedFacts ==
    ASSUME Typed, NEW p \in Page, NEW e
    PROVE  /\ Clicked(p, e) \in Page \cup {None}
           /\ Clicked(p, e) \in {Opens(p, e), Login}
           /\ ~expired => Clicked(p, e) = Opens(p, e)
           /\ Opens(p, e) # None => Clicked(p, e) \in Page /\ Showed(p, e, Clicked(p, e))
  BY OpensFacts, CrawlAssumption DEF Clicked, Showed

\* What can be restored is shown, and it can while the session lives.
LEMMA RestorableFacts ==
    ASSUME Typed, Rooted, NEW p \in DOMAIN path
    PROVE  /\ Restorable(p) => Shown(p) = p
           /\ ~expired => Restorable(p)
           /\ Navigated(RouteOf[path[p].root]) \in Page
           /\ Shown(p) \in Page
  <1>1. Restorable(p) => Shown(p) = p
    BY DEF Restorable, Shown
  <1>2. Sound(path[p], p) /\ p \in Page
    BY DEF Rooted
  <1>3. ~expired => Replays(path[p])
    <2>1. \A n \in DOMAIN path[p].steps : From(path[p], n) \in Page
      <3>1. PICK t : t = path[p]
        OBVIOUS
      <3>2. t.root \in Page /\ t.steps \in Seq(Step)
        BY <1>2, <3>1 DEF Sound, Trajectory
      <3>3. \A n \in DOMAIN t.steps : n # 1 => n - 1 \in DOMAIN t.steps
        BY <3>2
      <3>4. \A n \in DOMAIN t.steps : t.steps[n].to \in Page
        <4>1. \A n \in DOMAIN t.steps : t.steps[n] \in Step
          BY <3>2
        <4> QED BY <4>1 DEF Step
      <3> QED BY <3>1, <3>2, <3>3, <3>4 DEF From
    <2>2. \A n \in DOMAIN path[p].steps : ~expired => Reaches(path[p], n)
      BY <1>2, <2>1, ClickedFacts DEF Sound, Reaches, From, Showed
    <2> QED BY <1>2, <2>2 DEF Sound, Replays
  <1>4. ~expired => Restorable(p)
    BY <1>2, <1>3 DEF Sound, Restorable, Navigated
  <1>5. Navigated(RouteOf[path[p].root]) \in Page
    BY <1>2, NavigatedFacts DEF Sound
  <1>6. Shown(p) \in Page
    BY <1>2 DEF Shown, Typed
  <1> QED BY <1>1, <1>4, <1>5, <1>6

\* The trajectory of a page the crawler navigated to.
LEMMA RootFacts ==
    ASSUME Typed, NEW r \in DOMAIN app.entry \ Broken, NEW p, p = app.entry[r]
    PROVE  Sound(RootPath(p), p)
  <1>1. p \in Page /\ RouteOf[p] \in DOMAIN app.entry \ Broken /\ app.entry[RouteOf[p]] = p
    BY AppFacts
  <1>2. RootPath(p) \in Trajectory /\ DOMAIN RootPath(p).steps = {} /\ Len(RootPath(p).steps) = 0
    BY <1>1 DEF RootPath, Trajectory
  <1>3. RootPath(p).root = p
    BY DEF RootPath
  <1> HIDE DEF RootPath
  <1> QED BY <1>1, <1>2, <1>3 DEF Sound, From

\* A trajectory and one event more.
LEMMA PathToFacts ==
    ASSUME Typed, Rooted, NEW p \in DOMAIN path, NEW e \in Playable(p, path[p]), NEW q \in Page,
           Showed(p, e, q)
    PROVE  Sound(PathTo(p, e, q), q)
  <1>1. PICK t : t = path[p]
    OBVIOUS
  <1>2. Sound(t, p) /\ p \in Page
    BY <1>1 DEF Rooted
  <1>3. PICK s : s = [event |-> e, to |-> q]
    OBVIOUS
  <1>4. s \in Step /\ s.event = e /\ s.to = q
    BY <1>3 DEF Step, Playable
  <1>5. PICK l \in Nat : l = Len(t.steps)
    BY <1>2 DEF Sound, Trajectory
  <1>6. PICK u : u = PathTo(p, e, q)
    OBVIOUS
  <1>7. t.steps \in Seq(Step) /\ t.root \in Page
    BY <1>2 DEF Sound, Trajectory
  <1>8. u = [t EXCEPT !.steps = Append(t.steps, s)]
    BY <1>1, <1>3, <1>6 DEF PathTo, Extend
  <1>9. u \in Trajectory /\ u.root = t.root /\ u.steps = Append(t.steps, s)
    <2>1. PICK v : v = Append(t.steps, s)
      OBVIOUS
    <2>2. v \in Seq(Step)
      BY <1>4, <1>7, <2>1, AppendProperties
    <2>3. t \in [root : Page, steps : Seq(Step)] /\ u = [t EXCEPT !.steps = v]
      BY <1>2, <1>8, <2>1 DEF Sound, Trajectory
    <2>4. u \in [root : Page, steps : Seq(Step)] /\ u.root = t.root /\ u.steps = v
      BY <2>2, <2>3
    <2> QED BY <2>1, <2>4 DEF Trajectory
  <1>10. /\ Len(u.steps) = l + 1 /\ u.steps[l + 1] = s /\ DOMAIN u.steps = 1 .. l + 1
         /\ DOMAIN t.steps = 1 .. l /\ \A n \in 1 .. l : u.steps[n] = t.steps[n]
    BY <1>4, <1>5, <1>7, <1>9, AppendProperties
  <1>11. \A n \in 1 .. l + 1 : From(u, n) = From(t, n)
    <2> TAKE n \in 1 .. l + 1
    <2>1. n # 1 => n - 1 \in 1 .. l
      BY <1>5
    <2> QED BY <1>9, <1>10, <2>1 DEF From
  <1>12. \A n \in 1 .. l : MayReplay(u, n) /\ Showed(From(u, n), u.steps[n].event, u.steps[n].to)
    <2> TAKE n \in 1 .. l
    <2>1. n \in 1 .. l + 1 /\ From(u, n) = From(t, n) /\ u.steps[n] = t.steps[n]
      BY <1>5, <1>10, <1>11
    <2>2. MayReplay(t, n) /\ Showed(From(t, n), t.steps[n].event, t.steps[n].to)
      BY <1>2, <1>10 DEF Sound
    <2> QED BY <1>9, <2>1, <2>2 DEF MayReplay
  <1>13. MayReplay(u, l + 1)
    <2>1. Category[e] = "mutative" => RouteOf[p] # Home /\ l = 0
      BY <1>1, <1>5 DEF Playable, Depth
    <2>2. l = 0 => From(t, l + 1) = t.root
      BY DEF From
    <2>3. l = 0 => t.root = p
      BY <1>2, <1>5, <2>2 DEF Sound
    <2> QED BY <1>4, <1>9, <1>10, <2>1, <2>3 DEF MayReplay
  <1>14. Showed(From(u, l + 1), u.steps[l + 1].event, u.steps[l + 1].to)
    <2>1. From(u, l + 1) = p
      BY <1>2, <1>5, <1>11 DEF Sound
    <2> QED BY <1>4, <1>10, <2>1
  <1>15. q = From(u, l + 1 + 1)
    BY <1>4, <1>5, <1>10 DEF From
  <1>16. \A n \in 1 .. l + 1 : n \in 1 .. l \/ n = l + 1
    BY <1>5
  <1>17. \A n \in DOMAIN u.steps : MayReplay(u, n) /\ Showed(From(u, n), u.steps[n].event, u.steps[n].to)
    BY <1>10, <1>12, <1>13, <1>14, <1>16
  <1> QED BY <1>2, <1>6, <1>9, <1>10, <1>15, <1>17 DEF Sound

\* Registering a page: the pages known stay known, the roots stay roots.
LEMMA RegisterFacts ==
    ASSUME Typed, Rooted, NEW p \in Page, NEW t, Sound(t, p),
           NEW paths, paths = Register(path, p, t)
    PROVE  /\ DOMAIN paths = DOMAIN path \cup {p}
           /\ \A q \in DOMAIN paths : Sound(paths[q], q)
           /\ \A q \in DOMAIN path : Depth(path[q]) = 0 => Depth(paths[q]) = 0
           /\ Depth(paths[p]) \in Nat
  <1>1. \A q \in DOMAIN path : Sound(path[q], q)
    BY DEF Rooted
  <1>2. Depth(t) \in Nat /\ \A q \in DOMAIN path : Depth(path[q]) \in Nat
    BY <1>1 DEF Sound, Trajectory, Depth
  <1>3. CASE p \in DOMAIN path /\ Depth(path[p]) <= Depth(t)
    BY <1>1, <1>2, <1>3 DEF Register
  <1>4. CASE ~(p \in DOMAIN path /\ Depth(path[p]) <= Depth(t))
    <2>1. paths = [q \in DOMAIN path \cup {p} |-> IF q = p THEN t ELSE path[q]]
      BY <1>4 DEF Register
    <2>2. p \in DOMAIN path => Depth(path[p]) # 0
      BY <1>2, <1>4
    <2> QED BY <1>1, <1>2, <2>1, <2>2
  <1> QED BY <1>3, <1>4

\* What is queued are routes the profile allows.
LEMMA PushFacts ==
    ASSUME NEW rest \in Seq(RouteRow), NEW seen, NEW links \in Seq(Allowed), NEW depth \in Nat
    PROVE  Push(rest, seen, links, depth) \in Seq(RouteRow)
  <1> DEFINE queued == {rest[n].route : n \in DOMAIN rest}
             S == ToSet(links) \ (seen \cup queued)
             w == Within(links, S)
             new == [n \in DOMAIN w |-> [route |-> w[n], depth |-> depth]]
  <1>1. Push(rest, seen, links, depth) = rest \o new
    BY DEF Push
  <1>2. S \subseteq Allowed
    BY DEF ToSet
  <1>3. w \in Seq(S)
    <2>1. Len(links) \in Nat
      OBVIOUS
    <2> HIDE DEF S
    <2> QED BY <2>1, WithinFacts
  <1> HIDE DEF S, w
  <1>4. \A n \in 1 .. Len(w) : w[n] \in Allowed
    BY <1>2, <1>3
  <1>5. Len(w) \in Nat /\ DOMAIN w = 1 .. Len(w)
    BY <1>3
  <1>6. new \in Seq(RouteRow)
    <2>1. PICK l \in Nat : l = Len(w)
      BY <1>5
    <2>2. new = [n \in 1 .. l |-> [route |-> w[n], depth |-> depth]]
      BY <1>5, <2>1
    <2>3. \A n \in 1 .. l : [route |-> w[n], depth |-> depth] \in RouteRow
      BY <1>4, <2>1 DEF RouteRow
    <2> QED BY <2>2, <2>3
  <1> HIDE DEF new
  <1> QED BY <1>1, <1>6, ConcatProperties

\* The links of a screen and those an event shows are allowed.
LEMMA LinksFacts ==
    ASSUME Typed, NEW p \in Page
    PROVE  /\ ScreenLinks(p) \in Seq(Allowed)
           /\ \A o, e, t : LinksShown(o, e, p, t) \in Seq(Allowed)
  <1>1. Len(app.links[p]) \in Nat
    <2>1. app.links[p] \in Seq(ToSet(app.links[p]))
      BY AppFacts
    <2> QED BY <2>1
  <1>2. \A S \in SUBSET Allowed : Within(app.links[p], S) \in Seq(Allowed)
    <2> TAKE S \in SUBSET Allowed
    <2>1. Within(app.links[p], S) \in Seq(S)
      BY <1>1, WithinFacts
    <2> QED BY <2>1
  <1>3. Admitted \subseteq Allowed
    BY DEF Admitted
  <1>4. \A o, e, t : Revealed(o, e, p, t) \subseteq Allowed
    BY DEF Revealed, NewLinks
  <1>5. ScreenLinks(p) \in Seq(Allowed)
    BY <1>2, <1>3 DEF ScreenLinks
  <1>6. \A o, e, t : LinksShown(o, e, p, t) \in Seq(Allowed)
    BY <1>2, <1>3, <1>4 DEF LinksShown
  <1> QED BY <1>5, <1>6

\* A page that waits once more.
LEMMA AwaitFacts ==
    ASSUME NEW D, pending \in Seq([page : D, depth : Nat]), NEW p \in D, NEW t, Depth(t) \in Nat
    PROVE  Await(p, t) \in Seq([page : D, depth : Nat])
  <1>1. [page |-> p, depth |-> Depth(t)] \in [page : D, depth : Nat]
    OBVIOUS
  <1> HIDE DEF Depth
  <1> QED BY <1>1, AppendProperties DEF Await

\* Every prefix of a sequence is one over the same set.
LEMMA AtMostFacts ==
    ASSUME NEW S, NEW s \in Seq(S), NEW n \in Nat
    PROVE  AtMost(s, n) \in Seq(S)
  <1>1. PICK l \in Nat : l = (IF Len(s) < n THEN Len(s) ELSE n)
    OBVIOUS
  <1>2. l <= Len(s) /\ AtMost(s, n) = SubSeq(s, 1, l)
    BY <1>1 DEF AtMost
  <1>3. \A k \in 1 .. l : s[k] \in S
    BY <1>2
  <1> QED BY <1>1, <1>2, <1>3, SubSeqProperties

\* An opener is tried only from the root of a screen.
LEMMA CandidatesFacts ==
    ASSUME Typed, NEW p \in Page, NEW t
    PROVE  Candidates(p, t) \in Seq(Playable(p, t))
  <1> DEFINE opener == {e \in Playable(p, t) : Category[e] = "mutative"}
             rest == {e \in EventsOf(Categories(p, t) \ {"mutative"}) : MenuFollows(e, MenuPath(t))}
             others == Within(app.events[p], rest)
             n == IF RouteOf[p] = Home THEN MaxHomeEvents ELSE MaxEvents
  <1>1. app.events[p] \in Seq(Event) /\ Len(app.events[p]) \in Nat
    <2>1. app.events[p] \in Seq(Event)
      BY AppFacts
    <2> QED BY <2>1
  <1>2. others \in Seq(Playable(p, t))
    <2>1. rest \subseteq Playable(p, t)
      BY DEF EventsOf, Playable, Event
    <2> HIDE DEF rest
    <2>2. others \in Seq(rest)
      BY <1>1, WithinFacts
    <2> QED BY <2>1, <2>2, SeqMonotonic
  <1>3. Openers(p, t) \in Seq(Playable(p, t))
    <2>1. CASE RouteOf[p] = Home \/ Depth(t) # 0
      BY <2>1 DEF Openers
    <2>2. CASE RouteOf[p] # Home /\ Depth(t) = 0
      <3>1. EventsOf({"mutative"}) \subseteq Playable(p, t)
        BY <2>2 DEF EventsOf, Playable, Event
      <3>2. Within(app.events[p], EventsOf({"mutative"})) \in Seq(EventsOf({"mutative"}))
        BY <1>1, WithinFacts
      <3>3. Within(app.events[p], EventsOf({"mutative"})) \in Seq(Playable(p, t))
        BY <3>1, <3>2, SeqMonotonic
      <3>4. AtMost(Within(app.events[p], EventsOf({"mutative"})), MaxOpeners) \in Seq(Playable(p, t))
        BY <3>3, AtMostFacts, CrawlAssumption
      <3> QED BY <2>2, <3>4 DEF Openers
    <2> QED BY <2>1, <2>2
  <1>4. n \in Nat
    BY CrawlAssumption
  <1>5. Candidates(p, t) = AtMost(Openers(p, t) \o others, n)
    BY DEF Candidates
  <1> HIDE DEF others, n
  <1>6. Openers(p, t) \o others \in Seq(Playable(p, t))
    BY <1>2, <1>3, ConcatProperties
  <1> QED BY <1>4, <1>5, <1>6, AtMostFacts

\* The first of the routes, of the states.
LEMMA FrontierFacts ==
    ASSUME Typed
    PROVE  /\ queue # <<>> => Head(queue) \in RouteRow /\ Tail(queue) \in Seq(RouteRow)
           /\ pending # <<>> => Head(pending) \in StateRow /\ Tail(pending) \in Seq(StateRow)
  <1>1. queue \in Seq(RouteRow) /\ pending \in Seq(StateRow)
    BY DEF Typed
  <1> HIDE DEF RouteRow, StateRow
  <1> QED BY <1>1

-----------------------------------------------------------------------------
(* What does not change. *)

\* Sound speaks of the application, and of a session that does not come back.
LEMMA OpensKept ==
    ASSUME app' = app
    PROVE  \A p, e : Opens(p, e)' = Opens(p, e)
  BY DEF Opens

LEMMA SoundKept ==
    ASSUME app' = app, expired => expired'
    PROVE  \A t, p : Sound(t, p) => Sound(t, p)'
  <1>1. \A p, e, q : Showed(p, e, q) => Showed(p, e, q)'
    BY OpensKept DEF Showed
  <1>2. \A t, n : (MayReplay(t, n)' <=> MayReplay(t, n)) /\ From(t, n)' = From(t, n)
    BY DEF MayReplay, From
  <1>3. Trajectory' = Trajectory
    BY DEF Trajectory, Step
  <1> HIDE DEF Showed, MayReplay, From, Trajectory
  <1> QED BY <1>1, <1>2, <1>3 DEF Sound

\* A transition that is real stays so.
Real(t) ==
    \/ Opens(t[1], t[2]) = t[3]
    \/ Opens(t[1], t[2]) = None /\ t[1] = t[3]
    \/ /\ expired /\ t[3] = Login /\ t[2] \in ToSet(EntryPath)
       /\ Opens(t[1], t[2]) # None /\ RouteOf[Opens(t[1], t[2])] # RouteOf[t[1]]

LEMMA RealKept ==
    ASSUME FlowIsReal, app' = app, expired => expired', \A t \in flow' : t \in flow \/ Real(t)
    PROVE  FlowIsReal'
  <1>1. \A t \in flow' : Real(t)
    BY DEF FlowIsReal, Real
  <1>2. \A t : Real(t) => Real(t)'
    BY OpensKept DEF Real
  <1>3. \A t \in flow' : Real(t)'
    BY <1>1, <1>2
  <1> QED BY <1>3 DEF Real, FlowIsReal

\* Trajectories and transitions that stay, stay right.
LEMMA GraphsKept ==
    ASSUME Rooted, FlowIsReal, app' = app, expired => expired', path' = path, flow' = flow
    PROVE  Rooted' /\ FlowIsReal'
  <1>1. Rooted'
    BY SoundKept DEF Rooted
  <1>2. FlowIsReal'
    BY RealKept
  <1> QED BY <1>1, <1>2

\* What may be tried and found on a page stays so.
LEMMA ResultsKept ==
    ASSUME app' = app, faults # 0 => faults' # 0,
           NEW p, Depth(path[p]) = 0 => Depth(path'[p]) = 0
    PROVE  /\ Playable(p, path[p]) \subseteq Playable(p, path[p])'
           /\ Result(p) \subseteq Result(p)'
           /\ Registrable(p) \subseteq Registrable(p)'
  <1>1. Playable(p, path[p]) \subseteq Playable(p, path[p])'
    BY DEF Playable, Event, Depth
  <1>2. \A e : Opens(p, e)' = Opens(p, e)
    BY OpensKept
  <1> HIDE DEF Playable
  <1>3. Result(p) \subseteq Result(p)'
    <2> SUFFICES ASSUME NEW r \in Result(p) PROVE r \in Result(p)'
      OBVIOUS
    <2>1. /\ r \in [event : Playable(p, path[p]), to : Page \cup {None},
                    error : {None, "restore", "interaction"}]
          /\ r.to \notin {None, Login} => Opens(p, r.event) = r.to
          /\ r.error = "restore" => faults # 0
      BY DEF Result
    <2>2. r \in [event : Playable(p, path[p])', to : Page \cup {None},
                 error : {None, "restore", "interaction"}]
      BY <1>1, <2>1
    <2> QED BY <1>2, <2>1, <2>2 DEF Result, Page
  <1> HIDE DEF Result
  <1>4. Registrable(p) \subseteq Registrable(p)'
    BY <1>2, <1>3 DEF Registrable, Page
  <1> QED BY <1>1, <1>3, <1>4

\* A crawler that explores no page has no work.
LEMMA IdleKept ==
    ASSUME Working, work' = work, ~Busy, ~Busy'
    PROVE  Working'
  BY DEF Working, Busy

\* The work of a page that is explored stays right while its trajectory does.
LEMMA WorkKept ==
    ASSUME Typed, Working, Busy, work' = work, phase' = phase, app' = app,
           faults # 0 => faults' # 0, DOMAIN path \subseteq DOMAIN path',
           Depth(path[work.page]) = 0 => Depth(path'[work.page]) = 0
    PROVE  Working'
  <1>1. /\ Playable(work.page, path[work.page]) \subseteq Playable(work.page, path[work.page])'
        /\ Result(work.page) \subseteq Result(work.page)'
        /\ Registrable(work.page) \subseteq Registrable(work.page)'
    BY ResultsKept
  <1>2. /\ Seq(Playable(work.page, path[work.page])) \subseteq Seq(Playable(work.page, path[work.page])')
        /\ Seq(Result(work.page)) \subseteq Seq(Result(work.page)')
        /\ Seq(Registrable(work.page)) \subseteq Seq(Registrable(work.page)')
    BY <1>1, SeqMonotonic
  <1> QED BY <1>2 DEF Working, Exploration, Busy

\* A failure of the environment is counted.
LEMMA FailFacts ==
    ASSUME Typed, Fail
    PROVE  faults' \in 0 .. MaxFaults /\ faults' # 0
  <1>1. faults \in 0 .. MaxFaults /\ MaxFaults \in Nat
    BY CrawlAssumption DEF Typed
  <1> QED BY <1>1 DEF Fail

\* An environment that failed is to blame.
LEMMA BlamelessAfterFaults ==
    ASSUME faults' # 0
    PROVE  Blameless'
  BY DEF Blameless, NoProblemWithoutCause

\* Blameless as long as the problems and the faults stay.
LEMMA BlamelessKept ==
    ASSUME Blameless, problems' = problems, faults' = faults
    PROVE  Blameless'
  BY DEF Blameless, NoProblemWithoutCause

-----------------------------------------------------------------------------
(* The beginning, and what happens outside of the crawler. *)

\* No page is known, nothing is explored.
LEMMA InitInv ==
    ASSUME Init PROVE Inv
  <1>1. Typed
    <2>1. app.entry[Home] \in Page
      BY ApplicationAssumption, CrawlAssumption DEF Init
    <2>2. IsFiniteSet(visited) /\ Cardinality(visited) = 0
      BY FS_EmptySet DEF Init
    <2>3. EntryPath \in Seq(EventsOf({"expand_menu"})) /\ MaxFaults \in Nat /\ MaxPages \in Nat
      BY CrawlAssumption
    <2>4. entered \in Seq(Page) /\ Len(entered) <= Len(EntryPath) + 1 /\ faults \in 0 .. MaxFaults
          /\ Cardinality(visited) \in 0 .. MaxPages \cup {1}
      BY <2>2, <2>3 DEF Init
    <2>5. queue \in Seq(RouteRow) /\ pending \in Seq(StateRow)
      BY DEF Init
    <2>6. DOMAIN nav = {} /\ explored = {}
      BY DEF Init
    <2> QED BY <2>1, <2>2, <2>4, <2>5, <2>6 DEF Init, Typed
  <1>2. Rooted /\ Working /\ Rounds
    BY DEF Init, Rooted, Working, Rounds, InRound, Busy
  <1>3. Blameless /\ FlowIsReal
    BY DEF Init, Blameless, NoProblemWithoutCause, FlowIsReal
  <1> QED BY <1>1, <1>2, <1>3 DEF Inv

\* The session ends.
LEMMA ExpireInv ==
    ASSUME Inv, Expire PROVE Inv'
  <1> USE DEF Inv
  <1>1. faults' \in 0 .. MaxFaults /\ faults' # 0 /\ Blameless'
    BY FailFacts, BlamelessAfterFaults DEF Expire
  <1>2. Typed'
    BY <1>1 DEF Expire, Typed, StateRow, frontiers, graphs
  <1>3. Rooted' /\ FlowIsReal'
    BY GraphsKept DEF Expire, frontiers, graphs
  <1>4. Working'
    <2>1. CASE Busy
      BY <1>1, <2>1, WorkKept DEF Expire, graphs
    <2>2. CASE ~Busy
      BY <2>2, IdleKept DEF Expire, Busy
    <2> QED BY <2>1, <2>2
  <1>5. Rounds'
    BY DEF Expire, frontiers, Rounds, InRound, Busy
  <1> QED BY <1>1, <1>2, <1>3, <1>4, <1>5

\* The crawl fails before its loop.
LEMMA FailStartInv ==
    ASSUME Inv, FailStart PROVE Inv'
  <1> USE DEF Inv
  <1>1. faults' \in 0 .. MaxFaults /\ faults' # 0 /\ Blameless'
    BY FailFacts, BlamelessAfterFaults DEF FailStart
  <1>2. Typed'
    BY <1>1 DEF FailStart, Typed, StateRow, env, frontiers, graphs
  <1>3. Rooted' /\ FlowIsReal'
    BY GraphsKept DEF FailStart, env, graphs
  <1>4. Working'
    BY IdleKept DEF FailStart, Busy
  <1>5. Rounds'
    BY DEF FailStart, Rounds, InRound, Busy
  <1> QED BY <1>1, <1>2, <1>3, <1>4, <1>5

-----------------------------------------------------------------------------
(* Screens. *)

\* The routes in scope are allowed.
LEMMA RouteScopeFacts ==
    ASSUME Typed
    PROVE  RouteScope \subseteq Allowed
  <1>1. ToSet(Known) \subseteq Allowed /\ Target \in Allowed
    BY CrawlAssumption DEF ToSet
  <1> QED BY <1>1 DEF RouteScope, Typed

\* The exploration of a page registered begins with nothing found.
LEMMA ExploreFacts ==
    ASSUME Typed, NEW p \in Page, NEW t, NEW depth \in Nat,
           NEW origin \in {"start", "routes", "states"},
           t \in Trajectory, p \in DOMAIN path', path'[p] = t, work' = Explore(p, t, depth, origin),
           phase' = "explore"
    PROVE  Working' /\ work'.origin = origin
  <1>1. Candidates(p, t) \in Seq(Playable(p, t))
    BY CandidatesFacts
  <1> HIDE DEF Playable
  <1>2. PICK c : c = Candidates(p, t)
    OBVIOUS
  <1>3. work' = [page |-> p, path |-> t, routes |-> RouteScope, depth |-> depth, origin |-> origin,
                 todo |-> c, results |-> <<>>]
    BY <1>2 DEF Explore
  <1>4. RouteScope \subseteq Allowed
    BY RouteScopeFacts
  <1>5. work'.page = p /\ work'.origin = origin
    BY <1>3
  <1>6. Playable(work.page, path[work.page])' = Playable(p, t)
    BY <1>5 DEF Playable, Event, Depth
  <1>7. work' \in Exploration(Seq(Playable(work.page, path[work.page])))'
    <2>1. PICK scoped : scoped = RouteScope
      OBVIOUS
    <2>2. \A D, T, R : p \in D /\ c \in T =>
             work' \in [page : D, path : Trajectory, routes : SUBSET Allowed, depth : Nat,
                        origin : {"start", "routes", "states"}, todo : T, results : Seq(R)]
      BY <1>3, <1>4, <2>1
    <2> HIDE DEF Trajectory, Result
    <2> QED BY <1>1, <1>2, <1>6, <2>2 DEF Exploration
  <1> HIDE DEF Exploration
  <1>8. Working'
    BY <1>7 DEF Working, Busy
  <1> QED BY <1>5, <1>8

\* The page a navigation shows is captured, whatever it is.
LEMMA CaptureFacts ==
    ASSUME Inv, NEW r \in Allowed \ Broken, NEW rest \in Seq(RouteRow), NEW depth \in Nat,
           NEW origin \in {"start", "routes"}, phase \in {"start", "routes"},
           visited = {} \/ Cardinality(visited) < MaxPages,
           Capture(Navigated(r), rest, depth, origin),
           UNCHANGED <<env, entered, tooDeep, before, problems, faults>>
    PROVE  /\ Typed' /\ Rooted' /\ Working' /\ Blameless' /\ FlowIsReal'
           /\ \/ visited' = visited /\ queue' = rest /\ phase' = After(origin)
              \/ /\ Cardinality(visited') = Cardinality(visited) + 1
                 /\ \/ phase' = "explore" /\ work'.origin = origin
                    \/ phase' = After(origin)
  <1> USE DEF Inv
  <1>1. PICK p : p = Navigated(r)
    OBVIOUS
  <1>2. p \in Page /\ (RouteOf[p] \in Allowed => ~expired /\ p = app.entry[r])
    BY <1>1, NavigatedFacts, AppFacts
  <1>3. /\ browser' = p
        /\ \/ CaptureScreen(p, rest, depth, origin)
           \/ CaptureUnavailable(p, rest, origin)
           \/ CaptureNothing(p, rest, origin)
        /\ UNCHANGED <<pending, explored, nav, flow, torn, dynamic, explorations>>
    BY <1>1 DEF Capture
  <1>4. After(origin) \in {"top", "routes"}
    BY DEF After
  <1>5. Blameless' /\ app' = app /\ expired' = expired
    BY BlamelessKept DEF env
  <1>6. FlowIsReal'
    BY <1>3, <1>5, RealKept
  <1>7. ~Busy
    BY DEF Busy
  <1>8. MaxPages \in Nat /\ IsFiniteSet(visited) /\ Cardinality(visited) \in Nat
    BY CrawlAssumption, FS_CardinalityType DEF Typed
  <1>9. RouteOf[p] \in Admitted \ visited =>
           /\ RouteOf[p] \in Allowed \ visited
           /\ IsFiniteSet(visited \cup {RouteOf[p]})
           /\ Cardinality(visited \cup {RouteOf[p]}) = Cardinality(visited) + 1
           /\ Cardinality(visited \cup {RouteOf[p]}) \in 0 .. MaxPages \cup {1}
    <2> SUFFICES ASSUME RouteOf[p] \in Admitted \ visited
                 PROVE  /\ RouteOf[p] \in Allowed \ visited
                        /\ IsFiniteSet(visited \cup {RouteOf[p]})
                        /\ Cardinality(visited \cup {RouteOf[p]}) = Cardinality(visited) + 1
                        /\ Cardinality(visited \cup {RouteOf[p]}) \in 0 .. MaxPages \cup {1}
      OBVIOUS
    <2>1. RouteOf[p] \in Allowed \ visited
      BY DEF Admitted
    <2>2. /\ IsFiniteSet(visited \cup {RouteOf[p]})
          /\ Cardinality(visited \cup {RouteOf[p]}) = Cardinality(visited) + 1
      BY <1>8, <2>1, FS_AddElement
    <2>3. visited = {} => Cardinality(visited) = 0
      BY FS_EmptySet
    <2> QED BY <1>8, <2>1, <2>2, <2>3
  <1>10. CASE CaptureScreen(p, rest, depth, origin)
    <2>1. RouteOf[p] \in Admitted \ visited /\ visited' = visited \cup {RouteOf[p]}
      BY <1>10 DEF CaptureScreen
    <2>12. indexed' \subseteq visited'
      BY <1>10, <2>1 DEF CaptureScreen, Typed
    <2>2. p = app.entry[r] /\ r \in DOMAIN app.entry \ Broken
      BY <1>2, <1>9, <2>1, AppFacts
    <2>3. PICK t : t = RootPath(p)
      OBVIOUS
    <2>4. Sound(t, p)
      BY <2>2, <2>3, RootFacts
    <2>5. path' = Register(path, p, t)
      BY <1>10, <2>3 DEF CaptureScreen
    <2>6. DOMAIN path' = DOMAIN path \cup {p} /\ \A q \in DOMAIN path' : Sound(path'[q], q)
      BY <1>2, <2>4, <2>5, RegisterFacts
    <2>7. Rooted'
      BY <1>2, <1>5, <2>6, SoundKept DEF Rooted
    <2>8. Working' /\ work'.origin = origin /\ phase' = "explore"
      <3>1. work' = Explore(p, path'[p], depth, origin) /\ phase' = "explore"
        BY <1>10, <2>3, <2>5 DEF CaptureScreen
      <3>2. path'[p] \in Trajectory
        BY <2>6 DEF Sound
      <3> QED BY <1>2, <2>6, <3>1, <3>2, ExploreFacts
    <2>9. queue' \in Seq(RouteRow)
      <3>1. ScreenLinks(p) \in Seq(Allowed) /\ depth + 1 \in Nat
        BY <1>2, LinksFacts
      <3>2. queue' = Push(rest, visited', ScreenLinks(p), depth + 1)
        BY <1>10 DEF CaptureScreen
      <3> QED BY <3>1, <3>2, PushFacts
    <2>10. pending' \in Seq(StateRow')
      <3>1. pending \in Seq(StateRow) /\ StateRow \subseteq StateRow'
        BY <2>6 DEF Typed, StateRow
      <3> QED BY <1>3, <3>1, SeqMonotonic
    <2>11. Typed'
      BY <1>2, <1>3, <1>9, <2>1, <2>6, <2>8, <2>9, <2>10, <2>12 DEF Typed, env, Rooted
    <2> QED BY <1>5, <1>6, <1>9, <2>1, <2>7, <2>8, <2>11
  <1>11. CASE CaptureUnavailable(p, rest, origin)
    <2>1. /\ RouteOf[p] \in Admitted \ visited /\ visited' = visited \cup {RouteOf[p]}
          /\ queue' = rest /\ phase' = After(origin) /\ UNCHANGED <<path, indexed, work>>
      BY <1>11 DEF CaptureUnavailable
    <2>2. Rooted'
      BY <1>3, <1>5, <2>1, GraphsKept
    <2>3. Working'
      BY <1>4, <1>7, <2>1, IdleKept DEF Busy
    <2>4. Typed'
      BY <1>2, <1>3, <1>4, <1>9, <2>1 DEF Typed, StateRow, env
    <2> QED BY <1>5, <1>6, <1>9, <2>1, <2>2, <2>3, <2>4
  <1>12. CASE CaptureNothing(p, rest, origin)
    <2>1. queue' = rest /\ phase' = After(origin) /\ UNCHANGED <<visited, path, indexed, work>>
      BY <1>12 DEF CaptureNothing
    <2>2. Rooted'
      BY <1>3, <1>5, <2>1, GraphsKept
    <2>3. Working'
      BY <1>4, <1>7, <2>1, IdleKept DEF Busy
    <2>4. Typed'
      BY <1>2, <1>3, <1>4, <2>1 DEF Typed, StateRow, env
    <2> QED BY <1>5, <1>6, <2>1, <2>2, <2>3, <2>4
  <1> QED BY <1>3, <1>10, <1>11, <1>12

\* From home.
LEMMA StartFullInv ==
    ASSUME Inv, StartFull PROVE Inv'
  <1> USE DEF Inv
  <1>1. visited = {} /\ queue \in Seq(RouteRow) /\ Home \in Allowed \ Broken
    BY CrawlAssumption, ApplicationAssumption DEF StartFull, Typed
  <1>2. /\ Typed' /\ Rooted' /\ Working' /\ Blameless' /\ FlowIsReal'
        /\ \/ phase' = "explore" /\ work'.origin = "start"
           \/ phase' = After("start")
    BY <1>1, CaptureFacts DEF StartFull
  <1>3. Rounds'
    BY <1>2 DEF Rounds, InRound, Busy, After
  <1> QED BY <1>2, <1>3

\* From the screen.
LEMMA StartScreenInv ==
    ASSUME Inv, StartScreen PROVE Inv'
  <1> USE DEF Inv
  <1>1. CASE Target \notin Broken /\ RouteOf[Navigated(Target)] \in Admitted
    <2>1. visited = {} /\ queue \in Seq(RouteRow) /\ Target \in Allowed \ Broken
      BY <1>1, CrawlAssumption DEF StartScreen, Typed
    <2>2. /\ Typed' /\ Rooted' /\ Working' /\ Blameless' /\ FlowIsReal'
          /\ \/ phase' = "explore" /\ work'.origin = "start"
             \/ phase' = After("start")
      BY <1>1, <2>1, CaptureFacts DEF StartScreen
    <2>3. Rounds'
      BY <2>2 DEF Rounds, InRound, Busy, After
    <2> QED BY <2>2, <2>3
  <1>2. CASE ~(Target \notin Broken /\ RouteOf[Navigated(Target)] \in Admitted)
    <2>1. /\ phase' = "failed" /\ UNCHANGED <<browser, queue, visited, pending, explored, graphs, work>>
          /\ UNCHANGED <<env, entered, tooDeep, before, problems, faults>> /\ phase = "start"
      BY <1>2 DEF StartScreen
    <2>2. Rooted' /\ FlowIsReal' /\ Blameless'
      BY <2>1, GraphsKept, BlamelessKept DEF graphs, env
    <2>3. Working'
      BY <2>1, IdleKept DEF Busy
    <2>4. Typed'
      BY <2>1 DEF Typed, StateRow, env, graphs
    <2>5. Rounds'
      BY <2>1 DEF Rounds, InRound, Busy
    <2> QED BY <2>2, <2>3, <2>4, <2>5
  <1> QED BY <1>1, <1>2

\* From home, which is registered and not captured.
LEMMA StartModuleInv ==
    ASSUME Inv, StartModule PROVE Inv'
  <1> USE DEF Inv
  <1>1. PICK p : p = Navigated(Home)
    OBVIOUS
  <1>2. Home \in DOMAIN app.entry \ Broken
    BY CrawlAssumption, AppFacts
  <1>3. p \in Page /\ (RouteOf[p] \in Allowed => p = app.entry[Home])
    BY <1>1, <1>2, NavigatedFacts
  <1>4. /\ browser' = p /\ phase = "start"
        /\ UNCHANGED <<env, frontiers, indexed, nav, flow, torn, dynamic, explorations, work, before, problems, faults>>
        /\ IF RouteOf[p] \in Allowed
           THEN phase' = "enter" /\ path' = Register(path, p, RootPath(p)) /\ entered' = <<p>>
           ELSE phase' = "failed" /\ path' = path /\ entered' = entered
    BY <1>1 DEF StartModule
  <1>5. Blameless' /\ app' = app /\ expired' = expired
    BY <1>4, BlamelessKept DEF env
  <1>6. Working'
    BY <1>4, IdleKept DEF Busy
  <1>7. Rounds'
    BY <1>4 DEF Rounds, InRound, Busy
  <1>8. FlowIsReal'
    BY <1>4, <1>5, RealKept
  <1>9. CASE RouteOf[p] \in Allowed
    <2>1. PICK t : t = RootPath(p)
      OBVIOUS
    <2>2. Sound(t, p)
      BY <1>2, <1>3, <1>9, <2>1, RootFacts
    <2>3. DOMAIN path' = DOMAIN path \cup {p} /\ \A q \in DOMAIN path' : Sound(path'[q], q)
      BY <1>3, <1>4, <1>9, <2>1, <2>2, RegisterFacts
    <2>4. Rooted'
      BY <1>3, <1>5, <2>3, SoundKept DEF Rooted
    <2>5. pending' \in Seq(StateRow')
      <3>1. pending \in Seq(StateRow) /\ StateRow \subseteq StateRow'
        BY <2>3 DEF Typed, StateRow
      <3> QED BY <1>4, <3>1, SeqMonotonic DEF frontiers
    <2>6. entered' \in Seq(Page) /\ entered' # <<>> /\ Len(entered') <= Len(EntryPath) + 1
      <3>1. Len(EntryPath) \in Nat
        BY CrawlAssumption
      <3>2. entered' = <<p>>
        BY <1>4, <1>9
      <3>3. <<p>> \in Seq(Page) /\ Len(<<p>>) = 1 /\ <<p>> # <<>>
        BY <1>3
      <3> QED BY <3>1, <3>2, <3>3
    <2>7. Typed'
      BY <1>3, <1>4, <1>9, <2>3, <2>5, <2>6 DEF Typed, env, frontiers
    <2> QED BY <1>5, <1>6, <1>7, <1>8, <2>4, <2>7
  <1>10. CASE RouteOf[p] \notin Allowed
    <2>1. Rooted'
      BY <1>4, <1>5, <1>10, GraphsKept
    <2>2. Typed'
      BY <1>3, <1>4, <1>10 DEF Typed, env, frontiers, StateRow
    <2> QED BY <1>5, <1>6, <1>7, <1>8, <2>1, <2>2
  <1> QED BY <1>9, <1>10

-----------------------------------------------------------------------------
(* The entry of a module and the routes. *)

\* The links of a page shown are queued, whatever they are.
LEMMA RegisterLinksFacts ==
    ASSUME Typed, NEW base, NEW p, NEW e, NEW q \in Page, NEW t, NEW depth \in Nat,
           RegisterLinks(base, p, e, q, t, depth)
    PROVE  /\ queue' \in Seq(RouteRow) /\ dynamic' \subseteq Allowed
           /\ DOMAIN nav' \subseteq DOMAIN nav \cup {q}
  <1>1. PICK links : links = LinksShown(p, e, q, t)
    OBVIOUS
  <1>2. links \in Seq(Allowed)
    BY <1>1, LinksFacts
  <1>3. /\ queue' = Push(queue, visited, links, depth + 1)
        /\ dynamic' = IF scope = "module" THEN dynamic \cup (ToSet(links) \ ToSet(Known)) ELSE dynamic
        /\ nav' = IF base = Home THEN Linked(q, MenuPath(t), ToSet(links)) ELSE nav
    BY <1>1 DEF RegisterLinks
  <1>4. queue' \in Seq(RouteRow)
    <2>1. queue \in Seq(RouteRow)
      BY DEF Typed
    <2>2. depth + 1 \in Nat
      OBVIOUS
    <2> QED BY <1>2, <1>3, <2>1, <2>2, PushFacts
  <1>5. dynamic' \subseteq Allowed
    <2>1. ToSet(links) \subseteq Allowed
      BY <1>2 DEF ToSet
    <2>2. dynamic \subseteq Allowed
      BY DEF Typed
    <2> QED BY <1>3, <2>1, <2>2
  <1>6. DOMAIN nav' \subseteq DOMAIN nav \cup {q}
    BY <1>3 DEF Linked
  <1> QED BY <1>4, <1>5, <1>6

\* A page already registered keeps its trajectory when a longer one is found.
LEMMA RegisterLonger ==
    ASSUME Rooted, NEW p \in DOMAIN path, NEW e, NEW q
    PROVE  Register(path, p, PathTo(p, e, q)) = path
  <1>1. PICK t : t = path[p]
    OBVIOUS
  <1>2. t \in Trajectory
    BY <1>1 DEF Rooted, Sound
  <1>3. PICK s : s = [event |-> e, to |-> q]
    OBVIOUS
  <1>4. PICK B : t.steps \in Seq(B) /\ s \in B
    <2>1. t.steps \in Seq(Step)
      BY <1>2 DEF Trajectory
    <2>2. t.steps \in Seq(Step \cup {s})
      BY <2>1, SeqMonotonic
    <2> QED BY <2>2
  <1>5. Len(Append(t.steps, s)) = Len(t.steps) + 1 /\ Len(t.steps) \in Nat
    BY <1>4, AppendProperties
  <1>6. PathTo(p, e, q).steps = Append(t.steps, s)
    BY <1>1, <1>2, <1>3 DEF PathTo, Extend, Trajectory
  <1>7. Depth(path[p]) <= Depth(PathTo(p, e, q))
    BY <1>1, <1>5, <1>6 DEF Depth
  <1> QED BY <1>7 DEF Register

\* A menu of the branch is pressed on the page shown, which is registered.
LEMMA EnterMenuInv ==
    ASSUME Inv, EnterMenu PROVE Inv'
  <1> USE DEF Inv
  <1>1. PICK e : e = EntryPath[Len(entered)]
    OBVIOUS
  <1>2. PICK q : q = IF Opens(browser, e) = None THEN browser ELSE Clicked(browser, e)
    OBVIOUS
  <1>3. PICK paths : paths = Register(path, q, PathTo(browser, e, q))
    OBVIOUS
  <1>4. /\ phase = "enter" /\ Len(entered) <= Len(EntryPath)
        /\ UNCHANGED <<env, visited, tooDeep, pending, explored, indexed, torn, explorations, work, before,
                       problems, faults>>
        /\ \/ /\ browser' = q /\ path' = paths /\ flow' = flow \cup {<<browser, e, q>>}
              /\ RegisterLinks(Home, browser, e, q, paths[q], Len(entered) - 1)
              /\ entered' = Append(entered, q) /\ UNCHANGED phase
           \/ /\ phase' = "failed"
              /\ UNCHANGED <<browser, path, flow, nav, queue, dynamic, known, entered>>
    BY <1>1, <1>2, <1>3 DEF EnterMenu
  <1>5. Blameless' /\ app' = app /\ expired' = expired /\ (phase' = "enter" \/ phase' = "failed")
    BY <1>4, BlamelessKept DEF env
  <1>6. Working'
    BY <1>4, <1>5, IdleKept DEF Busy
  <1>7. Rounds'
    BY <1>4, <1>5 DEF Rounds, InRound, Busy
  <1>8. CASE phase' = "failed" /\ UNCHANGED <<browser, path, flow, nav, queue, dynamic, known, entered>>
    <2>1. Rooted' /\ FlowIsReal'
      BY <1>5, <1>8, GraphsKept
    <2>2. Typed'
      BY <1>4, <1>8 DEF Typed, env, StateRow
    <2> QED BY <1>5, <1>6, <1>7, <2>1, <2>2
  <1>9. CASE /\ browser' = q /\ path' = paths /\ flow' = flow \cup {<<browser, e, q>>}
             /\ RegisterLinks(Home, browser, e, q, paths[q], Len(entered) - 1)
             /\ entered' = Append(entered, q) /\ UNCHANGED phase
    <2>1. browser \in DOMAIN path /\ browser \in Page
      BY <1>4 DEF Typed
    <2>2. Len(entered) - 1 \in Nat /\ Len(entered) \in 1 .. Len(EntryPath)
      <3>1. Len(EntryPath) \in Nat
        BY CrawlAssumption
      <3>2. entered \in Seq(Page) /\ entered # <<>>
        BY <1>4 DEF Typed
      <3>3. Len(entered) \in Nat \ {0}
        BY <3>2
      <3> QED BY <1>4, <3>1, <3>3
    <2>3. e \in Playable(browser, path[browser])
      <3>1. e \in EventsOf({"expand_menu"})
        BY <1>1, <2>2, CrawlAssumption
      <3> QED BY <3>1 DEF EventsOf, Playable, Event
    <2>4. q \in Page
      BY <1>2, <2>1, ClickedFacts
    <2>5. DOMAIN path' = DOMAIN path \cup {q} /\ \A p \in DOMAIN path' : Sound(path'[p], p)
      <3>1. CASE Showed(browser, e, q)
        <4>1. PICK t : t = PathTo(browser, e, q)
          OBVIOUS
        <4>2. Sound(t, q)
          BY <2>1, <2>3, <2>4, <3>1, <4>1, PathToFacts
        <4> QED BY <1>3, <1>9, <2>4, <4>1, <4>2, RegisterFacts
      <3>2. CASE q = browser
        <4>1. path' = path
          BY <1>3, <1>9, <2>1, <3>2, RegisterLonger
        <4> QED BY <2>1, <3>2, <4>1 DEF Rooted
      <3> QED BY <1>2, <2>1, <3>1, <3>2, ClickedFacts
    <2>6. Rooted'
      BY <1>5, <2>4, <2>5, SoundKept DEF Rooted
    <2>7. FlowIsReal'
      <3>1. e \in ToSet(EntryPath)
        BY <1>1, <2>2, CrawlAssumption DEF ToSet
      <3>2. PICK u : u = <<browser, e, q>>
        OBVIOUS
      <3>3. u[1] = browser /\ u[2] = e /\ u[3] = q
        BY <3>2
      <3>4. Real(u)
        <4>1. CASE Opens(browser, e) = None
          BY <1>2, <3>3, <4>1 DEF Real
        <4>2. CASE Opens(browser, e) # None
          <5>1. Showed(browser, e, q)
            BY <1>2, <2>1, <4>2, ClickedFacts
          <5> QED BY <3>1, <3>3, <5>1 DEF Real, Showed
        <4> QED BY <4>1, <4>2
      <3>5. flow' = flow \cup {u}
        BY <1>9, <3>2
      <3> QED BY <1>5, <3>4, <3>5, RealKept
    <2>8. /\ queue' \in Seq(RouteRow) /\ dynamic' \subseteq Allowed
          /\ DOMAIN nav' \subseteq DOMAIN nav \cup {q}
      <3>1. PICK depth \in Nat : depth = Len(entered) - 1
        BY <2>2
      <3>2. RegisterLinks(Home, browser, e, q, paths[q], depth)
        BY <1>9, <3>1
      <3> QED BY <2>4, <3>2, RegisterLinksFacts
    <2>9. pending' \in Seq(StateRow')
      <3>1. pending \in Seq(StateRow) /\ StateRow \subseteq StateRow'
        BY <2>5 DEF Typed, StateRow
      <3> QED BY <1>4, <3>1, SeqMonotonic
    <2>10. entered' \in Seq(Page) /\ entered' # <<>> /\ Len(entered') <= Len(EntryPath) + 1
      <3>1. entered \in Seq(Page) /\ Len(EntryPath) \in Nat
        <4>1. Len(EntryPath) \in Nat
          BY CrawlAssumption
        <4> QED BY <4>1 DEF Typed
      <3>2. entered' \in Seq(Page) /\ Len(entered') = Len(entered) + 1
        BY <1>9, <2>4, <3>1, AppendProperties
      <3> QED BY <2>2, <3>1, <3>2
    <2>11. Typed'
      BY <1>4, <1>9, <2>4, <2>5, <2>8, <2>9, <2>10 DEF Typed, env
    <2> QED BY <1>5, <1>6, <1>7, <2>6, <2>7, <2>11
  <1> QED BY <1>4, <1>8, <1>9

\* The screens known are queued and the state entered waits.
LEMMA EnterModuleInv ==
    ASSUME Inv, EnterModule PROVE Inv'
  <1> USE DEF Inv
  <1>1. /\ phase = "enter" /\ phase' = "top"
        /\ UNCHANGED <<env, browser, entered, visited, tooDeep, explored, graphs, work, before,
                       problems, faults>>
    BY DEF EnterModule
  <1>2. Rooted' /\ FlowIsReal' /\ Blameless'
    BY <1>1, GraphsKept, BlamelessKept DEF env, graphs
  <1>3. Working' /\ Rounds'
    BY <1>1, IdleKept DEF Rounds, InRound, Busy
  <1>4. queue' \in Seq(RouteRow)
    BY PushFacts, CrawlAssumption DEF EnterModule, Typed
  <1>5. pending' \in Seq(StateRow')
    <2>1. browser \in DOMAIN path /\ pending \in Seq(StateRow) /\ StateRow' = StateRow
      BY <1>1 DEF Typed, StateRow, graphs
    <2>2. Depth(path[browser]) \in Nat
      BY <2>1 DEF Rooted, Sound, Trajectory, Depth
    <2>3. Await(browser, path[browser]) \in Seq(StateRow)
      BY <2>1, <2>2, AwaitFacts DEF StateRow
    <2> QED BY <2>1, <2>3 DEF EnterModule
  <1>6. Typed'
    BY <1>1, <1>4, <1>5 DEF Typed, env, graphs
  <1> QED BY <1>2, <1>3, <1>6

\* The counts of a round.
LEMMA CountsFacts ==
    ASSUME Typed
    PROVE  /\ Cardinality(visited) \in Nat /\ Len(queue) \in Nat /\ Len(pending) \in Nat
           /\ Counts[1] = Cardinality(visited) /\ Counts[2] = Len(queue) /\ Counts[4] = Len(pending)
           /\ (queue # <<>>) <=> Len(queue) # 0
           /\ (pending # <<>>) <=> Len(pending) # 0
  <1>1. IsFiniteSet(visited) /\ queue \in Seq(RouteRow) /\ pending \in Seq(StateRow)
    BY DEF Typed
  <1>2. Cardinality(visited) \in Nat
    BY <1>1, FS_CardinalityType
  <1>3. Len(queue) \in Nat /\ (queue # <<>> <=> Len(queue) # 0)
    BY <1>1
  <1>4. Len(pending) \in Nat /\ (pending # <<>> <=> Len(pending) # 0)
    BY <1>1
  <1> QED BY <1>2, <1>3, <1>4 DEF Counts

\* A round begins.
LEMMA TopInv ==
    ASSUME Inv, Top PROVE Inv'
  <1> USE DEF Inv
  <1>1. /\ phase = "top" /\ before' = Counts
        /\ phase' = IF RoutesWait THEN "routes" ELSE IF pending # <<>> THEN "states" ELSE "done"
        /\ UNCHANGED <<env, browser, entered, frontiers, graphs, work, problems, faults>>
    BY DEF Top
  <1>2. Rooted' /\ FlowIsReal' /\ Blameless'
    BY <1>1, GraphsKept, BlamelessKept DEF env, graphs
  <1>3. Working'
    BY <1>1, IdleKept DEF Busy
  <1>4. Typed'
    BY <1>1 DEF Typed, env, graphs, frontiers, StateRow
  <1>5. Rounds'
    <2>3. MaxPages \in Nat
      BY CrawlAssumption
    <2>4. ~Busy'
      BY <1>1 DEF Busy
    <2>5. Cardinality(visited)' = Cardinality(visited) /\ pending' = pending /\ queue' = queue
      BY <1>1 DEF frontiers
    <2> HIDE DEF Counts
    <2> QED BY <1>1, <2>3, <2>4, <2>5, CountsFacts DEF Rounds, InRound, RoutesWait
  <1> QED BY <1>2, <1>3, <1>4, <1>5

\* A route is passed over.
LEMMA SkipRouteInv ==
    ASSUME Inv, SkipRoute PROVE Inv'
  <1> USE DEF Inv
  <1>1. /\ phase = "routes" /\ queue # <<>> /\ queue' = Tail(queue)
        /\ tooDeep' = IF Head(queue).depth > MaxDepth THEN tooDeep \cup {Head(queue).route} ELSE tooDeep
        /\ UNCHANGED <<env, phase, browser, entered, visited, pending, explored, graphs, work,
                       before, problems, faults>>
    BY DEF SkipRoute, NextTarget
  <1>2. Rooted' /\ FlowIsReal' /\ Blameless'
    BY <1>1, GraphsKept, BlamelessKept DEF env, graphs
  <1>3. Working'
    BY <1>1, IdleKept DEF Busy
  <1>4. Head(queue) \in RouteRow /\ Tail(queue) \in Seq(RouteRow)
    BY <1>1, FrontierFacts
  <1>5. Typed'
    BY <1>1, <1>4 DEF Typed, env, graphs, StateRow, RouteRow
  <1>6. Rounds'
    BY <1>1 DEF Rounds, InRound, Busy
  <1> QED BY <1>2, <1>3, <1>5, <1>6

\* A route that does not open is lost, for a reason.
LEMMA LoseRouteInv ==
    ASSUME Inv, LoseRoute PROVE Inv'
  <1> USE DEF Inv
  <1>1. /\ phase = "routes" /\ queue # <<>> /\ queue' = Tail(queue)
        /\ problems' = problems \cup {"navigation"}
        /\ IF Head(queue).route \in Broken THEN UNCHANGED faults ELSE Fail
        /\ UNCHANGED <<env, phase, browser, entered, visited, tooDeep, pending, explored, graphs,
                       work, before>>
    BY DEF LoseRoute, NextTarget
  <1>2. Rooted' /\ FlowIsReal'
    BY <1>1, GraphsKept DEF env, graphs
  <1>3. Working'
    BY <1>1, IdleKept DEF Busy
  <1>4. faults' \in 0 .. MaxFaults /\ (faults # 0 => faults' # 0)
    BY <1>1, FailFacts DEF Typed
  <1>5. Blameless'
    BY <1>1, BlamelessAfterFaults, FailFacts DEF Blameless, NoProblemWithoutCause
  <1>6. Tail(queue) \in Seq(RouteRow)
    BY <1>1, FrontierFacts
  <1>7. Typed'
    BY <1>1, <1>4, <1>6 DEF Typed, env, graphs, StateRow
  <1>8. Rounds'
    BY <1>1 DEF Rounds, InRound, Busy
  <1> QED BY <1>2, <1>3, <1>5, <1>7, <1>8

\* A route is visited; it may lead to another screen.
LEMMA VisitRouteInv ==
    ASSUME Inv, VisitRoute PROVE Inv'
  <1> USE DEF Inv
  <1>1. /\ phase = "routes" /\ queue # <<>> /\ Cardinality(visited) < MaxPages
        /\ Head(queue).route \notin Broken
        /\ Capture(Navigated(Head(queue).route), Tail(queue), Head(queue).depth, "routes")
        /\ UNCHANGED <<env, entered, tooDeep, before, problems, faults>>
    BY DEF VisitRoute, NextTarget
  <1>2. Head(queue) \in RouteRow /\ Tail(queue) \in Seq(RouteRow)
    BY <1>1, FrontierFacts
  <1>3. Head(queue).route \in Allowed \ Broken /\ Head(queue).depth \in Nat
    BY <1>1, <1>2 DEF RouteRow
  <1>4. /\ Typed' /\ Rooted' /\ Working' /\ Blameless' /\ FlowIsReal'
        /\ \/ visited' = visited /\ queue' = Tail(queue) /\ phase' = After("routes")
           \/ /\ Cardinality(visited') = Cardinality(visited) + 1
              /\ \/ phase' = "explore" /\ work'.origin = "routes"
                 \/ phase' = After("routes")
    BY <1>1, <1>2, <1>3, CaptureFacts
  <1>5. Rounds'
    <2>1. pending' = pending /\ before' = before /\ After("routes") = "routes"
      BY <1>1 DEF Capture, After
    <2>2. InRound /\ Rounds /\ ~Busy
      BY <1>1 DEF InRound, Busy
    <2>3. CASE visited' = visited /\ phase' = "routes"
      BY <1>1, <2>1, <2>2, <2>3 DEF Rounds, InRound, Busy
    <2>4. CASE Cardinality(visited') = Cardinality(visited) + 1 /\ phase' \in {"explore", "routes"}
      <3>1. Cardinality(visited) \in Nat /\ before[1] \in Nat /\ before[1] <= Cardinality(visited)
        BY <2>2, CountsFacts DEF Rounds
      <3>2. before'[1] < Cardinality(visited')
        BY <2>1, <2>4, <3>1
      <3>3. before'[1] <= Cardinality(visited')
        BY <2>1, <2>4, <3>1
      <3> QED BY <2>1, <2>2, <2>4, <3>2, <3>3 DEF Rounds, InRound, Busy
    <2> QED BY <1>4, <2>1, <2>3, <2>4
  <1> QED BY <1>4, <1>5

\* The artifacts of a screen raise: it is visited and may have a trajectory.
LEMMA BreakCaptureFacts ==
    ASSUME Typed, Rooted, BreakCapture
    PROVE  \E p \in Page :
              /\ browser' = p /\ RouteOf[p] \in Admitted \ visited /\ RouteOf[p] \in Allowed
              /\ visited' = visited \cup {RouteOf[p]}
              /\ \/ path' = path
                 \/ Sound(RootPath(p), p) /\ path' = Register(path, p, RootPath(p))
  <1>1. /\ queue # <<>> /\ Head(queue).route \notin Broken
        /\ LET p == Navigated(Head(queue).route)
           IN /\ RouteOf[p] \in Admitted \ visited
              /\ browser' = p /\ visited' = visited \cup {RouteOf[p]}
              /\ path' = IF p \in Unavailable THEN path ELSE Register(path, p, RootPath(p))
    BY DEF BreakCapture, NextTarget
  <1>2. PICK p : p = Navigated(Head(queue).route)
    OBVIOUS
  <1>3. Head(queue).route \in Allowed
    <2>1. Head(queue) \in RouteRow
      BY <1>1, FrontierFacts
    <2> QED BY <2>1 DEF RouteRow
  <1>4. RouteOf[p] \in Admitted \ visited /\ RouteOf[p] \in Allowed
    BY <1>1, <1>2 DEF Admitted
  <1>5. p \in Page /\ p = app.entry[Head(queue).route]
    BY <1>2, <1>3, <1>4, NavigatedFacts, AppFacts
  <1>6. Head(queue).route \in DOMAIN app.entry \ Broken
    BY <1>1, <1>3, AppFacts
  <1>7. Sound(RootPath(p), p)
    BY <1>5, <1>6, RootFacts
  <1> HIDE DEF RootPath, Sound, Register
  <1> QED BY <1>1, <1>2, <1>4, <1>5, <1>7

LEMMA BreakCaptureInv ==
    ASSUME Inv, BreakCapture PROVE Inv'
  <1> USE DEF Inv
  <1>1. /\ phase = "routes" /\ queue # <<>> /\ Cardinality(visited) < MaxPages /\ Fail
        /\ queue' = Tail(queue) /\ problems' = problems \cup {"navigation"}
        /\ UNCHANGED <<env, phase, entered, tooDeep, pending, explored, indexed, known, nav, flow, torn,
                       dynamic, explorations, work, before>>
    BY DEF BreakCapture, NextTarget
  <1>2. PICK p \in Page :
           /\ browser' = p /\ RouteOf[p] \in Admitted \ visited /\ RouteOf[p] \in Allowed
           /\ visited' = visited \cup {RouteOf[p]}
           /\ \/ path' = path
              \/ Sound(RootPath(p), p) /\ path' = Register(path, p, RootPath(p))
    BY BreakCaptureFacts
  <1>3. app' = app /\ expired' = expired
    BY <1>1 DEF env
  <1>4. DOMAIN path \subseteq DOMAIN path' /\ Rooted'
    <2>1. CASE path' = path
      BY <1>3, <2>1, SoundKept DEF Rooted
    <2>2. CASE Sound(RootPath(p), p) /\ path' = Register(path, p, RootPath(p))
      <3>1. PICK t : t = RootPath(p)
        OBVIOUS
      <3>2. DOMAIN path' = DOMAIN path \cup {p} /\ \A q \in DOMAIN path' : Sound(path'[q], q)
        BY <2>2, <3>1, RegisterFacts
      <3> QED BY <1>3, <3>2, SoundKept DEF Rooted
    <2> QED BY <1>2, <2>1, <2>2
  <1>5. FlowIsReal'
    BY <1>1, <1>3, RealKept
  <1>6. Working'
    BY <1>1, IdleKept DEF Busy
  <1>7. faults' \in 0 .. MaxFaults /\ faults' # 0 /\ Blameless'
    BY <1>1, FailFacts, BlamelessAfterFaults
  <1>8. Tail(queue) \in Seq(RouteRow)
    BY <1>1, FrontierFacts
  <1>9. /\ IsFiniteSet(visited') /\ Cardinality(visited') = Cardinality(visited) + 1
        /\ Cardinality(visited) \in Nat /\ Cardinality(visited') \in 0 .. MaxPages \cup {1}
    <2>1. MaxPages \in Nat /\ IsFiniteSet(visited) /\ Cardinality(visited) \in Nat
      BY CrawlAssumption, FS_CardinalityType DEF Typed
    <2>2. /\ IsFiniteSet(visited \cup {RouteOf[p]})
          /\ Cardinality(visited \cup {RouteOf[p]}) = Cardinality(visited) + 1
      BY <1>2, <2>1, FS_AddElement
    <2> QED BY <1>1, <1>2, <2>1, <2>2
  <1>10. pending' \in Seq(StateRow')
    <2>1. pending \in Seq(StateRow) /\ StateRow \subseteq StateRow'
      BY <1>4 DEF Typed, StateRow
    <2> QED BY <1>1, <2>1, SeqMonotonic
  <1>11. Typed'
    BY <1>1, <1>2, <1>4, <1>7, <1>8, <1>9, <1>10 DEF Typed, env
  <1>12. Rounds'
    <2>1. InRound /\ Rounds /\ ~Busy /\ before' = before
      BY <1>1 DEF InRound, Busy
    <2>2. before[1] \in Nat /\ before[1] <= Cardinality(visited)
      BY <2>1 DEF Rounds
    <2>3. before'[1] < Cardinality(visited') /\ before'[1] <= Cardinality(visited')
      BY <1>9, <2>1, <2>2
    <2> QED BY <1>1, <2>1, <2>3 DEF Rounds, InRound, Busy
  <1> QED BY <1>4, <1>5, <1>6, <1>7, <1>11, <1>12

\* No more routes can be visited: none is left or the limit of pages is reached.
LEMMA EndRoutesInv ==
    ASSUME Inv, EndRoutes PROVE Inv'
  <1> USE DEF Inv
  <1>1. /\ phase = "routes" /\ ~(queue # <<>> /\ Cardinality(visited) < MaxPages) /\ phase' = "states"
        /\ UNCHANGED <<env, browser, entered, frontiers, graphs, work, before, problems, faults>>
    BY DEF EndRoutes, NextTarget
  <1>2. Rooted' /\ FlowIsReal' /\ Blameless'
    BY <1>1, GraphsKept, BlamelessKept DEF env, graphs
  <1>3. Working'
    BY <1>1, IdleKept DEF Busy
  <1>4. Typed'
    BY <1>1 DEF Typed, env, graphs, frontiers, StateRow
  <1>5. Rounds'
    <2>1. visited' = visited /\ pending' = pending /\ queue' = queue /\ before' = before
      BY <1>1 DEF frontiers
    <2>2. InRound /\ Rounds /\ ~Busy'
      BY <1>1 DEF InRound, Busy
    <2>3. MaxPages \in Nat /\ Cardinality(visited) \in Nat
      BY CrawlAssumption, CountsFacts
    <2> QED BY <1>1, <2>1, <2>2, <2>3 DEF Rounds, InRound
  <1> QED BY <1>2, <1>3, <1>4, <1>5

-----------------------------------------------------------------------------
(* The states that wait. *)

\* A state that cannot be restored is given up, for a reason.
LEMMA LoseStateInv ==
    ASSUME Inv, LoseState PROVE Inv'
  <1> USE DEF Inv
  <1>1. /\ phase = "states" /\ pending # <<>> /\ pending' = Tail(pending)
        /\ IF Restorable(Head(pending).page) THEN Fail ELSE UNCHANGED faults
        /\ browser' = Navigated(RouteOf[path[Head(pending).page].root])
        /\ explored' = explored \cup {Head(pending).page}
        /\ problems' = problems \cup {"dynamic restore"}
        /\ UNCHANGED <<env, phase, entered, queue, visited, tooDeep, graphs, work, before>>
    BY DEF LoseState, NextState
  <1>2. Rooted' /\ FlowIsReal'
    BY <1>1, GraphsKept DEF env, graphs
  <1>3. Working'
    BY <1>1, IdleKept DEF Busy
  <1>4. Head(pending) \in StateRow /\ Tail(pending) \in Seq(StateRow)
    BY <1>1, FrontierFacts
  <1>5. Head(pending).page \in DOMAIN path
    BY <1>4 DEF StateRow
  <1>6. faults' \in 0 .. MaxFaults /\ faults' # 0
    <2>1. ~expired => Restorable(Head(pending).page)
      BY <1>5, RestorableFacts
    <2> QED BY <1>1, <2>1, FailFacts DEF Typed
  <1>7. browser' \in Page
    BY <1>1, <1>5, RestorableFacts
  <1>8. Typed'
    BY <1>1, <1>4, <1>5, <1>6, <1>7 DEF Typed, env, graphs, StateRow
  <1>9. Blameless'
    BY <1>6, BlamelessAfterFaults
  <1>10. Rounds'
    BY <1>1 DEF Rounds, InRound, Busy
  <1> QED BY <1>2, <1>3, <1>8, <1>9, <1>10

\* A state is restored and explored.
LEMMA ExploreStateInv ==
    ASSUME Inv, ExploreState PROVE Inv'
  <1> USE DEF Inv
  <1>1. PICK p : p = Head(pending).page
    OBVIOUS
  <1>2. /\ phase = "states" /\ pending # <<>> /\ pending' = Tail(pending) /\ phase' = "explore"
        /\ browser' = Shown(p) /\ work' = Explore(p, path[p], Head(pending).depth, "states")
        /\ UNCHANGED <<env, entered, queue, visited, tooDeep, explored, graphs, before, problems, faults>>
    BY <1>1 DEF ExploreState, NextState
  <1>3. Rooted' /\ FlowIsReal' /\ Blameless'
    BY <1>2, GraphsKept, BlamelessKept DEF env, graphs
  <1>4. Head(pending) \in StateRow /\ Tail(pending) \in Seq(StateRow)
    BY <1>2, FrontierFacts
  <1>5. p \in DOMAIN path /\ p \in Page /\ Head(pending).depth \in Nat /\ path' = path
    BY <1>1, <1>2, <1>4 DEF StateRow, Rooted, graphs
  <1>6. Working' /\ work'.origin = "states"
    <2>1. path[p] \in Trajectory
      BY <1>5 DEF Rooted, Sound
    <2> QED BY <1>2, <1>5, <2>1, ExploreFacts
  <1>7. browser' \in Page
    BY <1>2, <1>5, RestorableFacts
  <1>8. Typed'
    BY <1>2, <1>4, <1>7 DEF Typed, env, graphs, StateRow
  <1>9. Rounds'
    BY <1>2 DEF Rounds, InRound, Busy
  <1> QED BY <1>3, <1>6, <1>8, <1>9

\* The round ends; it did change the counts.
LEMMA EndRoundInv ==
    ASSUME Inv, EndRound PROVE Inv'
  <1> USE DEF Inv
  <1>1. /\ phase = "states" /\ pending = <<>>
        /\ UNCHANGED <<env, browser, entered, frontiers, graphs, work, before, faults>>
    BY DEF EndRound
  <1>2. Counts # before
    <2>1. SUFFICES ASSUME Counts = before PROVE FALSE
      OBVIOUS
    <2>2. Len(pending) = 0 /\ before[4] = 0
      BY <1>1, <2>1, CountsFacts
    <2>3. before[1] = Cardinality(visited) /\ before[2] = Len(queue) /\ Cardinality(visited) \in Nat
      BY <2>1, CountsFacts
    <2>4. before[2] # 0 /\ (before[1] < Cardinality(visited) \/ queue = <<>>)
      BY <1>1, <2>2 DEF Rounds, InRound
    <2> QED BY <2>3, <2>4, CountsFacts
  <1>3. phase' = "top" /\ UNCHANGED problems
    BY <1>2 DEF EndRound
  <1>4. Rooted' /\ FlowIsReal' /\ Blameless'
    BY <1>1, <1>3, GraphsKept, BlamelessKept DEF env, graphs
  <1>5. Working'
    BY <1>1, <1>3, IdleKept DEF Busy
  <1>6. Typed'
    BY <1>1, <1>3 DEF Typed, env, graphs, frontiers, StateRow
  <1>7. Rounds'
    BY <1>3 DEF Rounds, InRound, Busy
  <1> QED BY <1>4, <1>5, <1>6, <1>7

-----------------------------------------------------------------------------
(* The exploration of a page. *)

\* What the work of a page says of it.
LEMMA WorkFacts ==
    ASSUME Inv, Busy
    PROVE  /\ work.page \in DOMAIN path /\ work.page \in Page
           /\ work.depth \in Nat /\ work.origin \in {"start", "routes", "states"}
           /\ work.results \in Seq(Result(work.page))
           /\ phase = "explore" => work.todo \in Seq(Playable(work.page, path[work.page]))
           /\ phase = "register" => work.todo \in Seq(Registrable(work.page))
  BY DEF Inv, Rooted, Working, Busy, Exploration

\* One candidate fewer to try and one result more.
LEMMA TriedFacts ==
    ASSUME Inv, phase = "explore", work.todo # <<>>, NEW result \in Result(work.page)',
           Tried(result), app' = app, path' = path, phase' = phase, faults # 0 => faults' # 0
    PROVE  Working' /\ work'.origin = work.origin
  <1>1. work.todo \in Seq(Playable(work.page, path[work.page])) /\ work.results \in Seq(Result(work.page))
    BY WorkFacts DEF Busy
  <1>2. PICK todo : todo = Tail(work.todo)
    OBVIOUS
  <1>3. PICK results : results = Append(work.results, result)
    OBVIOUS
  <1>4. work \in Exploration(Seq(Playable(work.page, path[work.page])))
    BY DEF Inv, Working
  <1>5. work' = [work EXCEPT !.todo = todo, !.results = results]
    BY <1>2, <1>3 DEF Tried
  <1>6. work'.page = work.page /\ work'.origin = work.origin
    BY <1>4, <1>5 DEF Exploration
  <1>7. /\ Playable(work.page, path[work.page]) \subseteq Playable(work.page, path[work.page])'
        /\ Result(work.page) \subseteq Result(work.page)'
    <2>1. PICK p : p = work.page
      OBVIOUS
    <2>2. /\ Playable(p, path[p]) \subseteq Playable(p, path[p])'
          /\ Result(p) \subseteq Result(p)'
      BY ResultsKept
    <2> QED BY <1>6, <2>1, <2>2
  <1> HIDE DEF Playable, Result
  <1>8. todo \in Seq(Playable(work.page, path[work.page])')
    <2>1. PICK s : s = work.todo
      OBVIOUS
    <2>2. s \in Seq(Playable(work.page, path[work.page])) /\ s # <<>> /\ todo = Tail(s)
      BY <1>1, <1>2, <2>1
    <2>3. todo \in Seq(Playable(work.page, path[work.page]))
      BY <2>2
    <2> QED BY <1>7, <2>3, SeqMonotonic
  <1>9. results \in Seq(Result(work.page)')
    <2>1. work.results \in Seq(Result(work.page)')
      BY <1>1, <1>7, SeqMonotonic
    <2> QED BY <1>3, <2>1, AppendProperties
  <1>10. work' \in Exploration(Seq(Playable(work.page, path[work.page])))'
    BY <1>4, <1>5, <1>6, <1>8, <1>9 DEF Exploration
  <1>11. Working'
    BY <1>10 DEF Working, Busy
  <1> QED BY <1>6, <1>11

\* While one page is explored the round goes on.
LEMMA RoundKept ==
    ASSUME Rounds, Busy, Busy', work'.origin = work.origin, UNCHANGED <<before, visited, pending>>
    PROVE  Rounds'
  BY DEF Rounds, InRound, Busy

\* The page cannot be restored: the environment failed.
LEMMA LosePageInv ==
    ASSUME Inv, LosePage PROVE Inv'
  <1> USE DEF Inv
  <1> DEFINE lost == [event |-> Head(work.todo), to |-> None, error |-> "restore"]
  <1>1. /\ phase = "explore" /\ work.todo # <<>>
        /\ IF Restorable(work.page) THEN Fail ELSE UNCHANGED faults
        /\ browser' = Navigated(RouteOf[path[work.page].root])
        /\ Tried(lost)
        /\ UNCHANGED <<env, phase, entered, frontiers, graphs, before, problems>>
    BY DEF LosePage
  <1>2. Busy /\ Busy'
    BY <1>1 DEF Busy
  <1>3. Rooted' /\ FlowIsReal'
    BY <1>1, GraphsKept DEF env, graphs
  <1>4. faults' \in 0 .. MaxFaults /\ faults' # 0
    <2>1. ~expired => Restorable(work.page)
      BY <1>2, WorkFacts, RestorableFacts
    <2> QED BY <1>1, <2>1, FailFacts DEF Typed
  <1>5. Blameless'
    BY <1>4, BlamelessAfterFaults
  <1>6. browser' \in Page
    BY <1>1, <1>2, WorkFacts, RestorableFacts
  <1>7. Typed'
    BY <1>1, <1>4, <1>6 DEF Typed, env, graphs, frontiers, StateRow
  <1>8. Head(work.todo) \in Playable(work.page, path[work.page])
    <2>1. work.todo \in Seq(Playable(work.page, path[work.page]))
      BY <1>1, <1>2, WorkFacts
    <2> HIDE DEF Playable
    <2> QED BY <1>1, <2>1
  <1>9. work'.page = work.page
    <2>1. work \in Exploration(Seq(Playable(work.page, path[work.page])))
      BY <1>1 DEF Working
    <2> QED BY <1>1, <2>1 DEF Tried, Exploration
  <1>10. lost \in Result(work.page)'
    <2>1. Playable(work.page, path[work.page])' = Playable(work.page, path[work.page])
      BY <1>1, <1>9 DEF Playable, Event, Depth, graphs
    <2>2. lost.to = None /\ lost.error = "restore" /\ lost.event = Head(work.todo)
      OBVIOUS
    <2>3. lost \in [event : Playable(work.page, path[work.page])', to : Page \cup {None},
                    error : {None, "restore", "interaction"}]
      BY <1>8, <2>1
    <2> HIDE DEF lost
    <2> QED BY <1>4, <2>2, <2>3 DEF Result, Page
  <1> HIDE DEF lost
  <1>11. Working' /\ work'.origin = work.origin
    BY <1>1, <1>4, <1>10, TriedFacts DEF env, graphs
  <1>12. Rounds'
    BY <1>1, <1>2, <1>11, RoundKept DEF frontiers
  <1> QED BY <1>3, <1>5, <1>7, <1>11, <1>12

\* A result without a restore that failed.
LEMMA ResultFacts ==
    ASSUME Inv, phase = "explore", work.todo # <<>>, app' = app, path' = path,
           NEW to \in Page \cup {None}, to \in {None, Login, Opens(work.page, Head(work.todo))},
           NEW error \in {None, "interaction"}, work'.page = work.page
    PROVE  [event |-> Head(work.todo), to |-> to, error |-> error] \in Result(work.page)'
  <1>1. PICK e : e = Head(work.todo)
    OBVIOUS
  <1>2. e \in Playable(work.page, path[work.page])
    <2>1. work.todo \in Seq(Playable(work.page, path[work.page]))
      BY WorkFacts DEF Busy
    <2> HIDE DEF Playable
    <2> QED BY <1>1, <2>1
  <1>3. Playable(work.page, path[work.page])' = Playable(work.page, path[work.page])
    BY DEF Playable, Event, Depth
  <1>4. Opens(work.page, e)' = Opens(work.page, e)
    BY DEF Opens
  <1>5. PICK r : r = [event |-> e, to |-> to, error |-> error]
    OBVIOUS
  <1>6. r.event = e /\ r.to = to /\ r.error = error /\ r.error # "restore"
    BY <1>5 DEF None
  <1>7. r \in [event : Playable(work.page, path[work.page])', to : Page \cup {None},
               error : {None, "restore", "interaction"}]
    BY <1>2, <1>3, <1>5
  <1>8. r.to \notin {None, Login} => Opens(work.page, r.event)' = r.to
    BY <1>1, <1>4, <1>6
  <1>9. r \in Result(work.page)'
    BY <1>6, <1>7, <1>8 DEF Result, Page
  <1> QED BY <1>1, <1>5, <1>9

\* The page is restored before the click that fails.
LEMMA ClickFailsInv ==
    ASSUME Inv, ClickFails PROVE Inv'
  <1> USE DEF Inv
  <1> DEFINE lost == [event |-> Head(work.todo), to |-> None, error |-> "interaction"]
  <1>1. /\ phase = "explore" /\ work.todo # <<>>
        /\ IF Head(work.todo) \in Writes THEN UNCHANGED faults ELSE Fail
        /\ browser' = Shown(work.page)
        /\ Tried(lost)
        /\ UNCHANGED <<env, phase, entered, frontiers, graphs, before, problems>>
    BY DEF ClickFails
  <1>2. Busy /\ Busy'
    BY <1>1 DEF Busy
  <1>3. Rooted' /\ FlowIsReal'
    BY <1>1, GraphsKept DEF env, graphs
  <1>4. faults' \in 0 .. MaxFaults /\ (faults # 0 => faults' # 0)
    BY <1>1, FailFacts DEF Typed
  <1>5. Blameless'
    BY <1>1, FailFacts, BlamelessAfterFaults, BlamelessKept
  <1>6. browser' \in Page
    BY <1>1, <1>2, WorkFacts, RestorableFacts
  <1>7. Typed'
    BY <1>1, <1>4, <1>6 DEF Typed, env, graphs, frontiers, StateRow
  <1>8. work'.page = work.page
    <2>1. work \in Exploration(Seq(Playable(work.page, path[work.page])))
      BY <1>1 DEF Working
    <2> QED BY <1>1, <2>1 DEF Tried, Exploration
  <1>9. lost \in Result(work.page)'
    BY <1>1, <1>8, ResultFacts DEF env, graphs
  <1> HIDE DEF lost
  <1>10. Working' /\ work'.origin = work.origin
    BY <1>1, <1>4, <1>9, TriedFacts DEF env, graphs
  <1>11. Rounds'
    BY <1>1, <1>2, <1>10, RoundKept DEF frontiers
  <1> QED BY <1>3, <1>5, <1>7, <1>10, <1>11

\* The event is pressed on the page, which was restored.
LEMMA ClickInv ==
    ASSUME Inv, Click PROVE Inv'
  <1> USE DEF Inv
  <1>1. PICK q : q = Clicked(Shown(work.page), Head(work.todo))
    OBVIOUS
  <1>2. PICK found : found = [event |-> Head(work.todo), to |-> q, error |-> None]
    OBVIOUS
  <1>3. /\ phase = "explore" /\ work.todo # <<>> /\ Restorable(work.page)
        /\ browser' = IF q = None THEN Shown(work.page) ELSE q
        /\ Tried(found)
        /\ UNCHANGED <<env, phase, entered, frontiers, graphs, before, problems, faults>>
    BY <1>1, <1>2 DEF Click
  <1>4. Busy /\ Busy'
    BY <1>3 DEF Busy
  <1>5. Rooted' /\ FlowIsReal' /\ Blameless'
    BY <1>3, GraphsKept, BlamelessKept DEF env, graphs
  <1>6. Shown(work.page) = work.page /\ work.page \in Page
    BY <1>3, <1>4, WorkFacts, RestorableFacts
  <1>7. q \in Page \cup {None} /\ q \in {None, Login, Opens(work.page, Head(work.todo))}
    BY <1>1, <1>6, ClickedFacts
  <1>8. Typed'
    BY <1>3, <1>6, <1>7 DEF Typed, env, graphs, frontiers, StateRow
  <1>9. work'.page = work.page
    <2>1. work \in Exploration(Seq(Playable(work.page, path[work.page])))
      BY <1>3 DEF Working
    <2> QED BY <1>3, <2>1 DEF Tried, Exploration
  <1>10. found \in Result(work.page)'
    BY <1>2, <1>3, <1>7, <1>9, ResultFacts DEF env, graphs
  <1>11. Working' /\ work'.origin = work.origin
    BY <1>3, <1>10, TriedFacts DEF env, graphs
  <1>12. Rounds'
    BY <1>3, <1>4, <1>11, RoundKept DEF frontiers
  <1> QED BY <1>5, <1>8, <1>11, <1>12

\* Every candidate was tried: what shows a page in scope is kept.
LEMMA EndTriesInv ==
    ASSUME Inv, EndTries PROVE Inv'
  <1> USE DEF Inv
  <1> DEFINE inScope == {r \in ToSet(work.results) : r.to # None /\
                            ResultInScope(RouteScope, path[work.page], r.event, r.to)}
  <1>1. /\ phase = "explore" /\ phase' = "register"
        /\ browser' = IF Restorable(work.page) THEN Shown(work.page)
                      ELSE Navigated(RouteOf[path[work.page].root])
        /\ UNCHANGED <<env, entered, frontiers, graphs, before, problems, faults>>
    BY DEF EndTries
  <1>2. PICK kept : kept = Within(work.results, inScope)
    OBVIOUS
  <1>3. work' = [work EXCEPT !.todo = kept]
    BY <1>2 DEF EndTries
  <1>4. Busy /\ Busy'
    BY <1>1 DEF Busy
  <1>5. Rooted' /\ FlowIsReal' /\ Blameless'
    BY <1>1, GraphsKept, BlamelessKept DEF env, graphs
  <1>6. browser' \in Page
    BY <1>1, <1>4, WorkFacts, RestorableFacts
  <1>7. Typed'
    BY <1>1, <1>6 DEF Typed, env, graphs, frontiers, StateRow
  <1>8. work.results \in Seq(Result(work.page)) /\ work \in Exploration(Seq(Playable(work.page, path[work.page])))
    BY <1>1, <1>4, WorkFacts DEF Working
  <1>9. inScope \subseteq Registrable(work.page)
    <2> SUFFICES ASSUME NEW r \in inScope PROVE r \in Registrable(work.page)
      OBVIOUS
    <2>1. r \in ToSet(work.results) /\ r.to # None /\ RouteOf[r.to] \in Allowed
      BY DEF ResultInScope
    <2>2. r \in Result(work.page)
      BY <1>8, <2>1 DEF ToSet
    <2>3. r.to # Login
      BY <2>1, CrawlAssumption
    <2>4. r.to \in Page \cup {None} /\ (r.to \notin {None, Login} => Opens(work.page, r.event) = r.to)
      BY <2>2 DEF Result
    <2> QED BY <2>1, <2>2, <2>3, <2>4 DEF Registrable
  <1> HIDE DEF inScope
  <1>10. kept \in Seq(Registrable(work.page))
    <2>1. kept \in Seq(inScope)
      <3>1. Len(work.results) \in Nat
        BY <1>8
      <3> QED BY <1>2, <3>1, WithinFacts
    <2> QED BY <1>9, <2>1, SeqMonotonic
  <1>11. work'.page = work.page /\ work'.origin = work.origin
    BY <1>3, <1>8 DEF Exploration
  <1>12. /\ Result(work.page) \subseteq Result(work.page)'
         /\ Registrable(work.page) \subseteq Registrable(work.page)'
    <2>1. PICK p : p = work.page
      OBVIOUS
    <2>2. /\ Registrable(p) \subseteq Registrable(p)'
          /\ Result(p) \subseteq Result(p)'
      BY <1>1, ResultsKept DEF env, graphs
    <2> QED BY <1>11, <2>1, <2>2
  <1>13. kept \in Seq(Registrable(work.page)') /\ work.results \in Seq(Result(work.page)')
    BY <1>8, <1>10, <1>12, SeqMonotonic
  <1> HIDE DEF Registrable, Result
  <1>14. work' \in Exploration(Seq(Registrable(work.page)))'
    BY <1>1, <1>3, <1>8, <1>11, <1>13 DEF Exploration, graphs
  <1>15. Working'
    BY <1>1, <1>14 DEF Working, Busy
  <1>16. Rounds'
    BY <1>1, <1>4, <1>11, RoundKept DEF frontiers
  <1> QED BY <1>5, <1>7, <1>15, <1>16

\* One result is registered: the work that is left stays right.
LEMMA RegisteredFacts ==
    ASSUME Inv, phase = "register", work.todo # <<>>, work' = [work EXCEPT !.todo = Tail(@)],
           phase' = phase, app' = app, faults' = faults, DOMAIN path \subseteq DOMAIN path',
           Depth(path[work.page]) = 0 => Depth(path'[work.page]) = 0
    PROVE  Working' /\ work'.origin = work.origin
  <1>1. PICK s : s = work.todo
    OBVIOUS
  <1>2. s \in Seq(Registrable(work.page)) /\ s # <<>>
    BY <1>1, WorkFacts DEF Busy
  <1>3. work \in Exploration(Seq(Registrable(work.page))) /\ work.results \in Seq(Result(work.page))
    BY WorkFacts DEF Inv, Working, Busy
  <1>4. work' = [work EXCEPT !.todo = Tail(s)] /\ work'.page = work.page /\ work'.origin = work.origin
    BY <1>1, <1>3 DEF Exploration
  <1>5. /\ Result(work.page) \subseteq Result(work.page)'
        /\ Registrable(work.page) \subseteq Registrable(work.page)'
    <2>1. PICK p : p = work.page
      OBVIOUS
    <2>2. /\ Registrable(p) \subseteq Registrable(p)'
          /\ Result(p) \subseteq Result(p)'
      BY <2>1, ResultsKept
    <2> QED BY <1>4, <2>1, <2>2
  <1> HIDE DEF Registrable, Result
  <1>6. Tail(s) \in Seq(Registrable(work.page)') /\ work.results \in Seq(Result(work.page)')
    <2>1. Tail(s) \in Seq(Registrable(work.page))
      BY <1>2
    <2> QED BY <1>3, <1>5, <2>1, SeqMonotonic
  <1>7. work' \in Exploration(Seq(Registrable(work.page)))'
    BY <1>3, <1>4, <1>6 DEF Exploration
  <1>8. Working'
    BY <1>7 DEF Working, Busy
  <1> QED BY <1>4, <1>8

\* What the first result shows.
LEMMA RegistrableFacts ==
    ASSUME Inv, phase = "register", work.todo # <<>>
    PROVE  /\ Head(work.todo).to \in Page \ {None}
           /\ Head(work.todo).event \in Playable(work.page, path[work.page])
           /\ Opens(work.page, Head(work.todo).event) = Head(work.todo).to
  <1>1. Head(work.todo) \in Registrable(work.page)
    <2>1. PICK s : s = work.todo
      OBVIOUS
    <2>2. s \in Seq(Registrable(work.page)) /\ s # <<>>
      BY <2>1, WorkFacts DEF Busy
    <2> HIDE DEF Registrable
    <2> QED BY <2>1, <2>2
  <1> QED BY <1>1 DEF Registrable, Result

\* An event that shows the same page.
LEMMA RegisterContentInv ==
    ASSUME Inv, RegisterContent PROVE Inv'
  <1> USE DEF Inv
  <1>1. /\ phase = "register" /\ work.todo # <<>> /\ Head(work.todo).to = work.page
        /\ flow' = flow \cup {<<work.page, Head(work.todo).event, work.page>>}
        /\ work' = [work EXCEPT !.todo = Tail(@)]
        /\ UNCHANGED <<env, phase, browser, entered, frontiers, path, indexed, known, nav, torn, dynamic,
                       explorations, before, problems, faults>>
    BY DEF RegisterContent
  <1>2. Busy /\ Busy'
    BY <1>1 DEF Busy
  <1>3. app' = app /\ expired' = expired /\ Blameless'
    BY <1>1, BlamelessKept DEF env
  <1>4. Rooted'
    BY <1>1, <1>3, SoundKept DEF Rooted
  <1>5. FlowIsReal'
    <2>1. PICK u : u = <<work.page, Head(work.todo).event, work.page>>
      OBVIOUS
    <2>2. Real(u) /\ flow' = flow \cup {u}
      BY <1>1, <2>1, RegistrableFacts DEF Real
    <2> QED BY <1>3, <2>2, RealKept
  <1>6. Typed'
    BY <1>1 DEF Typed, env, frontiers, StateRow
  <1>7. Working' /\ work'.origin = work.origin
    BY <1>1, <1>3, RegisteredFacts
  <1>8. Rounds'
    BY <1>1, <1>2, <1>7, RoundKept DEF frontiers
  <1> QED BY <1>3, <1>4, <1>5, <1>6, <1>7, <1>8

\* An event that shows another page.
LEMMA RegisterPageInv ==
    ASSUME Inv, RegisterPage PROVE Inv'
  <1> USE DEF Inv
  <1>1. PICK p : p = work.page
    OBVIOUS
  <1>2. PICK e : e = Head(work.todo).event
    OBVIOUS
  <1>3. PICK q : q = Head(work.todo).to
    OBVIOUS
  <1>4. PICK paths : paths = Register(path, q, PathTo(p, e, q))
    OBVIOUS
  <1>5. /\ phase = "register" /\ work.todo # <<>> /\ path' = paths
        /\ flow' = flow \cup {<<p, e, q>>} /\ torn' = torn \ {<<p, e, q>>} /\ UNCHANGED indexed
        /\ RegisterLinks(RouteOf[p], p, e, q, paths[q], work.depth)
        /\ \/ pending' = Await(q, paths[q]) /\ UNCHANGED tooDeep
           \/ UNCHANGED pending /\ tooDeep' \in {tooDeep, tooDeep \cup {q}}
        /\ work' = [work EXCEPT !.todo = Tail(@)]
        /\ UNCHANGED <<env, phase, browser, entered, visited, explored, explorations, before,
                       problems, faults>>
    BY <1>1, <1>2, <1>3, <1>4 DEF RegisterPage
  <1>6. Busy /\ Busy' /\ app' = app /\ expired' = expired /\ Blameless'
    BY <1>5, BlamelessKept DEF Busy, env
  <1>7. p \in DOMAIN path /\ p \in Page /\ work.depth \in Nat
    BY <1>1, <1>6, WorkFacts
  <1>8. q \in Page /\ e \in Playable(p, path[p]) /\ Opens(p, e) = q
    BY <1>1, <1>2, <1>3, <1>5, RegistrableFacts
  <1>9. PICK t : t = PathTo(p, e, q)
    OBVIOUS
  <1>10. Sound(t, q)
    BY <1>7, <1>8, <1>9, PathToFacts DEF Showed
  <1>11. /\ DOMAIN path' = DOMAIN path \cup {q}
         /\ \A o \in DOMAIN path' : Sound(path'[o], o)
         /\ \A o \in DOMAIN path : Depth(path[o]) = 0 => Depth(path'[o]) = 0
         /\ Depth(paths[q]) \in Nat
    <2>1. paths = Register(path, q, t)
      BY <1>4, <1>9
    <2>2. /\ DOMAIN paths = DOMAIN path \cup {q}
          /\ \A o \in DOMAIN paths : Sound(paths[o], o)
          /\ \A o \in DOMAIN path : Depth(path[o]) = 0 => Depth(paths[o]) = 0
          /\ Depth(paths[q]) \in Nat
      BY <1>8, <1>10, <2>1, RegisterFacts
    <2> QED BY <1>5, <2>2
  <1>12. Rooted'
    BY <1>6, <1>8, <1>11, SoundKept DEF Rooted
  <1>13. FlowIsReal'
    <2>1. PICK u : u = <<p, e, q>>
      OBVIOUS
    <2>2. Real(u) /\ flow' = flow \cup {u}
      BY <1>5, <1>8, <2>1 DEF Real
    <2> QED BY <1>6, <2>2, RealKept
  <1>14. /\ queue' \in Seq(RouteRow) /\ dynamic' \subseteq Allowed
         /\ DOMAIN nav' \subseteq DOMAIN nav \cup {q}
    BY <1>5, <1>7, <1>8, RegisterLinksFacts
  <1>15. pending' \in Seq(StateRow')
    <2>1. pending \in Seq(StateRow) /\ StateRow \subseteq StateRow'
      BY <1>11 DEF Typed, StateRow
    <2>2. pending \in Seq(StateRow')
      BY <2>1, SeqMonotonic
    <2>3. Await(q, paths[q]) \in Seq(StateRow')
      BY <1>11, <2>2, AwaitFacts DEF StateRow
    <2> QED BY <1>5, <2>2, <2>3
  <1>16. Typed'
    BY <1>5, <1>8, <1>11, <1>14, <1>15 DEF Typed, env
  <1>17. Working' /\ work'.origin = work.origin
    BY <1>1, <1>5, <1>6, <1>7, <1>11, RegisteredFacts
  <1>18. Rounds'
    BY <1>5, <1>6, <1>17 DEF Rounds, InRound, Busy
  <1> QED BY <1>6, <1>12, <1>13, <1>16, <1>17, <1>18

\* The page is explored; a restore failed only if the environment did.
LEMMA FinishExplorationInv ==
    ASSUME Inv, FinishExploration PROVE Inv'
  <1> USE DEF Inv
  <1>1. /\ phase = "register" /\ explored' = explored \cup {work.page}
        /\ phase' = After(work.origin) /\ work' = NoWork
        /\ UNCHANGED <<env, browser, entered, queue, visited, tooDeep, pending, path, indexed,
                       known, nav, flow, torn, dynamic, before, faults>>
    BY DEF FinishExploration
  <1>2. Busy /\ work.page \in DOMAIN path /\ work.origin \in {"start", "routes", "states"}
    BY <1>1, WorkFacts DEF Busy
  <1>3. phase' \in {"top", "routes", "states"} /\ ~Busy'
    BY <1>1, <1>2 DEF After, Busy
  <1>4. Rooted' /\ FlowIsReal'
    BY <1>1, GraphsKept DEF env
  <1>5. problems' = problems \/ (problems' = problems \cup {"restore"} /\ faults # 0)
    <2>1. \A n \in DOMAIN work.results : work.results[n].error = "restore" => faults # 0
      <3>1. PICK s : s = work.results
        OBVIOUS
      <3>2. s \in Seq(Result(work.page))
        BY <1>2, <3>1, WorkFacts
      <3>3. \A n \in DOMAIN s : s[n] \in Result(work.page)
        <4> HIDE DEF Result
        <4> QED BY <3>2
      <3> QED BY <3>1, <3>3 DEF Result
    <2> QED BY <2>1 DEF FinishExploration
  <1>6. Blameless'
    BY <1>1, <1>5, BlamelessKept, BlamelessAfterFaults
  <1>7. Working'
    BY <1>1, <1>3 DEF Working, Busy
  <1>8. Typed'
    BY <1>1, <1>2, <1>3, <1>5 DEF Typed, env, StateRow
  <1>9. Rounds'
    BY <1>1, <1>2, <1>3 DEF Rounds, InRound, Busy, After
  <1> QED BY <1>4, <1>6, <1>7, <1>8, <1>9

\* The handler of a loop: no page is explored, the environment failed.
LEMMA HandledFacts ==
    ASSUME Inv, phase = "register", Fail, NEW marked \in SUBSET {work.page}, Handled(marked),
           DOMAIN path \subseteq DOMAIN path', torn' \subseteq flow'
    PROVE  Typed' /\ Working' /\ Rounds' /\ Blameless'
  <1> USE DEF Inv
  <1>1. /\ work' = NoWork /\ phase' = IF work.origin = "start" THEN "failed" ELSE work.origin
        /\ explored' \subseteq explored \cup {work.page}
        /\ problems' = CASE work.origin = "start" -> problems
                         [] work.origin = "routes" -> problems \cup {"navigation"}
                         [] work.origin = "states" -> problems \cup {"exploration"}
        /\ UNCHANGED <<env, browser, entered, queue, visited, tooDeep, pending, indexed, nav, dynamic,
                       before>>
    BY DEF Handled
  <1>2. Busy /\ work.page \in DOMAIN path /\ work.origin \in {"start", "routes", "states"}
    BY WorkFacts DEF Busy
  <1>3. phase' \in {"failed", "routes", "states"} /\ ~Busy'
    BY <1>1, <1>2 DEF Busy
  <1>4. faults' \in 0 .. MaxFaults /\ faults' # 0 /\ Blameless'
    BY FailFacts, BlamelessAfterFaults
  <1>5. Working'
    BY <1>1, <1>3 DEF Working, Busy
  <1>6. problems' \subseteq {"navigation", "restore", "dynamic restore", "exploration", "stalled"}
    BY <1>1, <1>2 DEF Typed
  <1>7. pending' \in Seq(StateRow')
    <2>1. pending \in Seq(StateRow) /\ StateRow \subseteq StateRow'
      BY DEF Typed, StateRow
    <2> QED BY <1>1, <2>1, SeqMonotonic
  <1>8. Typed'
    BY <1>1, <1>2, <1>3, <1>4, <1>6, <1>7 DEF Typed, env
  <1>9. Rounds'
    BY <1>1, <1>2, <1>3 DEF Rounds, InRound, Busy
  <1> QED BY <1>4, <1>5, <1>8, <1>9

\* The artifacts of a page raise: the page and its transition are registered.
LEMMA BreakRegistrationInv ==
    ASSUME Inv, BreakRegistration PROVE Inv'
  <1> USE DEF Inv
  <1>1. PICK p : p = work.page
    OBVIOUS
  <1>2. PICK e : e = Head(work.todo).event
    OBVIOUS
  <1>3. PICK q : q = Head(work.todo).to
    OBVIOUS
  <1>4. PICK t : t = PathTo(p, e, q)
    OBVIOUS
  <1>5. PICK u : u = <<p, e, q>>
    OBVIOUS
  <1>6. /\ phase = "register" /\ work.todo # <<>> /\ Fail /\ path' = Register(path, q, t)
        /\ flow' = flow \cup {u} /\ torn' = torn \cup {u} /\ Handled({})
    BY <1>1, <1>2, <1>3, <1>4, <1>5 DEF BreakRegistration
  <1>7. p \in DOMAIN path /\ p \in Page /\ app' = app /\ expired' = expired
    BY <1>1, <1>6, WorkFacts DEF Busy, Handled, env
  <1>8. q \in Page /\ e \in Playable(p, path[p]) /\ Opens(p, e) = q
    BY <1>1, <1>2, <1>3, <1>6, RegistrableFacts
  <1>9. Sound(t, q)
    BY <1>4, <1>7, <1>8, PathToFacts DEF Showed
  <1>10. DOMAIN path' = DOMAIN path \cup {q} /\ \A o \in DOMAIN path' : Sound(path'[o], o)
    BY <1>6, <1>8, <1>9, RegisterFacts
  <1>11. Rooted'
    BY <1>7, <1>8, <1>10, SoundKept DEF Rooted
  <1>12. FlowIsReal'
    BY <1>5, <1>6, <1>7, <1>8, RealKept DEF Real
  <1>13. torn' \subseteq flow'
    BY <1>6 DEF Typed
  <1>14. Typed' /\ Working' /\ Rounds' /\ Blameless'
    BY <1>6, <1>10, <1>13, HandledFacts
  <1> QED BY <1>11, <1>12, <1>14

\* The results of a page are not saved, or what follows raises.
LEMMA BreakExplorationInv ==
    ASSUME Inv, BreakExploration PROVE Inv'
  <1> USE DEF Inv
  <1>1. /\ phase = "register" /\ Fail /\ Handled({work.page}) /\ UNCHANGED <<path, flow, torn>>
    BY DEF BreakExploration
  <1>2. app' = app /\ expired' = expired
    BY <1>1 DEF Handled, env
  <1>3. Rooted' /\ FlowIsReal'
    BY <1>1, <1>2, GraphsKept
  <1>4. torn' \subseteq flow'
    BY <1>1 DEF Typed
  <1>5. Typed' /\ Working' /\ Rounds' /\ Blameless'
    BY <1>1, <1>4, HandledFacts
  <1> QED BY <1>3, <1>5

-----------------------------------------------------------------------------
(* The theorems. *)

\* Every step of the crawler and of its environment.
LEMMA StepInv ==
    ASSUME Inv, [Next]_vars PROVE Inv'
  <1>1. CASE Crawler
    BY <1>1, StartFullInv, StartScreenInv, StartModuleInv, EnterMenuInv, EnterModuleInv, TopInv,
       SkipRouteInv, LoseRouteInv, VisitRouteInv, EndRoutesInv, LosePageInv, ClickFailsInv, ClickInv,
       EndTriesInv, RegisterContentInv, RegisterPageInv, FinishExplorationInv, LoseStateInv,
       ExploreStateInv, EndRoundInv DEF Crawler
  <1>2. CASE UNCHANGED vars
    <2>1. Rooted' /\ FlowIsReal' /\ Blameless'
      BY <1>2, GraphsKept, BlamelessKept DEF Inv, vars, env, graphs
    <2>2. Typed'
      BY <1>2 DEF Inv, Typed, vars, env, graphs, frontiers, StateRow
    <2>3. Working'
      <3>1. CASE Busy
        BY <1>2, <3>1, WorkKept DEF Inv, vars, env, graphs
      <3>2. CASE ~Busy
        BY <1>2, <3>2, IdleKept DEF Inv, vars, Busy
      <3> QED BY <3>1, <3>2
    <2>4. Rounds'
      BY <1>2 DEF Inv, Rounds, InRound, Busy, vars, frontiers
    <2> QED BY <2>1, <2>2, <2>3, <2>4 DEF Inv
  <1> QED
    BY <1>1, <1>2, FailStartInv, BreakCaptureInv, BreakRegistrationInv, BreakExplorationInv, ExpireInv
    DEF Next

\* The inductive invariant of a crawl (RouteCrawler).
THEOREM Invariance == Spec => []Inv
  BY InitInv, StepInv, PTL DEF Spec

\* Whatever the ERP shows, the frontiers, the registry and the graphs keep their types,
\* only allowed routes are queued and visited, and no more than max_pages_total of them
\* after the first (RouteCrawler, Frontier, StateFrontier, StateRegistry).
THEOREM TypeCorrect == Spec => []TypeOK
  <1>1. Inv => TypeOK
    <2> SUFFICES ASSUME Inv PROVE TypeOK
      OBVIOUS
    <2> USE DEF Inv
    <2>1. \A n \in DOMAIN queue : queue[n].route \in Allowed /\ queue[n].depth \in Nat
      <3>1. queue \in Seq(RouteRow)
        BY DEF Typed
      <3>2. \A n \in DOMAIN queue : queue[n] \in RouteRow
        BY <3>1
      <3> QED BY <3>2 DEF RouteRow
    <2>2. \A n \in DOMAIN pending : pending[n].page \in DOMAIN path
      <3>1. pending \in Seq(StateRow)
        BY DEF Typed
      <3>2. \A n \in DOMAIN pending : pending[n] \in StateRow
        BY <3>1
      <3> QED BY <3>2 DEF StateRow
    <2>3. work.page \in DOMAIN path \cup {None}
      <3>1. CASE Busy
        BY <3>1, WorkFacts
      <3>2. CASE ~Busy
        BY <3>2 DEF Working, NoWork
      <3> QED BY <3>1, <3>2
    <2> QED BY <2>1, <2>2, <2>3 DEF Typed, Rooted, TypeOK
  <1> QED BY <1>1, Invariance, PTL

\* Every transition recorded is one of the application, after any number of clicks,
\* redirects and failed restores, but for the login page that a menu of the way into the
\* module shows when the session is over and it leaves the route (UIEventExplorer,
\* StateRestorer, StateFlowGraphBuilder, _enter_module_branch).
THEOREM RealFlow == Spec => []FlowIsReal
  <1>1. Inv => FlowIsReal
    BY DEF Inv
  <1> QED BY <1>1, Invariance, PTL

\* As long as the environment does not fail every trajectory leads back to its page, no
\* exploration breaks and no round stalls, for every application, every limit and every
\* order in which pages and routes are found (PathReplayer, _crawl_until_fixed_point).
THEOREM NoBlameWithoutFault == Spec => []NoProblemWithoutCause
  <1>1. Inv => NoProblemWithoutCause
    BY DEF Inv, Blameless
  <1> QED BY <1>1, Invariance, PTL


-----------------------------------------------------------------------------
(* The branch of a module. *)

\* The menus of the trajectory registered for a page lead to it in the application.
Menued == \A p \in DOMAIN path : MenuPath(path[p]) \in app.menus[p]

\* The events of the page explored that its trajectory allows.
Presses == {e \in ToSet(app.events[work.page]) : MenuFollows(e, MenuPath(path[work.page]))}

Pressing ==
    /\ Busy => \A r \in ToSet(work.results) : r.event \in Presses
    /\ phase = "explore" => ToSet(work.todo) \subseteq Presses
    /\ phase = "register" => \A r \in ToSet(work.todo) : r.event \in Presses

\* On the way into the module no page is deeper than the menus pressed.
Entering ==
    /\ phase = "start" => entered = <<>>
    /\ phase = "enter" =>
          /\ scope = "module" /\ browser = Last(entered)
          /\ Depth(path[browser]) <= Len(entered) - 1

\* Why a route is part of the module.
Witnessed(r) ==
    \E t \in flow :
        /\ Category[t[2]] = "expand_menu" /\ r \in NewLinks(t[1], t[3])
        /\ \E menus \in app.menus[t[3]] : Inside(menus)

Branch ==
    scope = "module" =>
        /\ visited \subseteq ToSet(Known) \cup dynamic
        /\ \A r \in dynamic \ ToSet(Known) : Witnessed(r)

Guided == Menued /\ Pressing /\ Entering /\ Branch

\* The elements of a sequence that loses its first or gains a last one.
LEMMA TailElements ==
    ASSUME NEW S, NEW s \in Seq(S), s # <<>>
    PROVE  ToSet(s) = {Head(s)} \cup ToSet(Tail(s))
  <1>1. PICK l \in Nat \ {0} : l = Len(s)
    OBVIOUS
  <1>2. PICK u : u = Tail(s)
    OBVIOUS
  <1>3. /\ DOMAIN s = 1 .. l /\ Head(s) = s[1] /\ DOMAIN u = 1 .. l - 1
        /\ \A n \in 1 .. l - 1 : u[n] = s[n + 1]
    BY <1>1, <1>2
  <1>4. \A n \in 2 .. l : n - 1 \in 1 .. l - 1 /\ s[n] = u[n - 1]
    BY <1>3
  <1>5. \A n \in 1 .. l : n = 1 \/ n \in 2 .. l
    OBVIOUS
  <1>6. \A n \in 1 .. l - 1 : n + 1 \in 1 .. l
    OBVIOUS
  <1>7. 1 \in 1 .. l
    OBVIOUS
  <1>8. ToSet(s) \subseteq {Head(s)} \cup ToSet(u)
    <2> SUFFICES ASSUME NEW n \in 1 .. l PROVE s[n] \in {Head(s)} \cup ToSet(u)
      BY <1>3 DEF ToSet
    <2>1. CASE n = 1
      BY <1>3, <2>1
    <2>2. CASE n \in 2 .. l
      <3>1. n - 1 \in DOMAIN u /\ s[n] = u[n - 1]
        BY <1>3, <1>4, <2>2
      <3> QED BY <3>1 DEF ToSet
    <2> QED BY <1>5, <2>1, <2>2
  <1>9. {Head(s)} \cup ToSet(u) \subseteq ToSet(s)
    BY <1>3, <1>6, <1>7 DEF ToSet
  <1> QED BY <1>2, <1>8, <1>9

LEMMA AppendElements ==
    ASSUME NEW S, NEW s \in Seq(S), NEW e
    PROVE  ToSet(Append(s, e)) = ToSet(s) \cup {e}
  <1>1. s \in Seq(S \cup {e})
    BY SeqMonotonic
  <1>2. PICK l \in Nat : l = Len(s)
    OBVIOUS
  <1>3. PICK u : u = Append(s, e)
    OBVIOUS
  <1>4. /\ DOMAIN s = 1 .. l /\ DOMAIN u = 1 .. l + 1 /\ u[l + 1] = e
        /\ \A n \in 1 .. l : u[n] = s[n]
    BY <1>1, <1>2, <1>3, AppendProperties
  <1>5. \A n : n \in 1 .. l + 1 <=> n \in 1 .. l \/ n = l + 1
    OBVIOUS
  <1> QED BY <1>3, <1>4, <1>5 DEF ToSet

\* The menus pressed on the way to a page.
LEMMA RootMenus ==
    ASSUME NEW p
    PROVE  MenuPath(RootPath(p)) = <<>>
  <1>1. PICK s : s = [n \in DOMAIN RootPath(p).steps |-> RootPath(p).steps[n].event]
    OBVIOUS
  <1>2. s = <<>>
    BY <1>1 DEF RootPath
  <1>3. PICK w : w = Within(s, EventsOf({"expand_menu"}))
    OBVIOUS
  <1>4. w \in Seq(EventsOf({"expand_menu"})) /\ Len(w) \in 0 .. Len(s) /\ Len(s) = 0
    <2>1. Len(s) = 0
      BY <1>2
    <2> QED BY <1>3, <2>1, WithinFacts, WithinOrder
  <1>5. w = <<>>
    BY <1>4
  <1> QED BY <1>1, <1>3, <1>5 DEF MenuPath

LEMMA PathToMenus ==
    ASSUME Rooted, NEW p \in DOMAIN path, NEW e \in Event, NEW q
    PROVE  MenuPath(PathTo(p, e, q)) = Traversed(MenuPath(path[p]), e)
  <1>1. PICK t : t = path[p]
    OBVIOUS
  <1>2. t \in Trajectory
    BY <1>1 DEF Rooted, Sound
  <1>3. PICK row : row = [event |-> e, to |-> q]
    OBVIOUS
  <1>4. PICK B : t.steps \in Seq(B) /\ row \in B
    <2>1. t.steps \in Seq(Step)
      BY <1>2 DEF Trajectory
    <2>2. t.steps \in Seq(Step \cup {row})
      BY <2>1, SeqMonotonic
    <2> QED BY <2>2
  <1>5. PICK u : u = PathTo(p, e, q)
    OBVIOUS
  <1>6. u.steps = Append(t.steps, row)
    BY <1>1, <1>2, <1>3, <1>5 DEF PathTo, Extend, Trajectory
  <1>7. PICK l \in Nat : l = Len(t.steps)
    BY <1>4
  <1>8. /\ DOMAIN t.steps = 1 .. l /\ DOMAIN u.steps = 1 .. l + 1 /\ u.steps[l + 1] = row
        /\ \A n \in 1 .. l : u.steps[n] = t.steps[n]
    BY <1>4, <1>6, <1>7, AppendProperties
  <1>9. PICK a : a = [n \in 1 .. l |-> t.steps[n].event]
    OBVIOUS
  <1>10. PICK b : b = [n \in 1 .. l + 1 |-> u.steps[n].event]
    OBVIOUS
  <1>11. Len(a) = l /\ Len(b) = l + 1 /\ b[l + 1] = e /\ \A n \in 1 .. l : b[n] = a[n]
    BY <1>3, <1>8, <1>9, <1>10
  <1>12. PICK menus : menus = EventsOf({"expand_menu"})
    OBVIOUS
  <1>13. Within(b, menus) = IF e \in menus THEN Append(Within(a, menus), e) ELSE Within(a, menus)
    BY <1>11, WithinOneMore
  <1>14. e \in menus <=> Category[e] = "expand_menu"
    BY <1>12 DEF EventsOf, Event
  <1>15. MenuPath(t) = Within(a, menus) /\ MenuPath(u) = Within(b, menus)
    BY <1>8, <1>9, <1>10, <1>12 DEF MenuPath
  <1> QED BY <1>1, <1>5, <1>13, <1>14, <1>15 DEF Traversed

LEMMA MenusShort ==
    ASSUME NEW t \in Trajectory
    PROVE  /\ MenuPath(t) \in Seq(EventsOf({"expand_menu"}))
           /\ Depth(t) \in Nat /\ Len(MenuPath(t)) \in 0 .. Depth(t)
  <1>1. t.steps \in Seq(Step)
    BY DEF Trajectory
  <1>2. PICK l \in Nat : l = Len(t.steps) /\ DOMAIN t.steps = 1 .. l
    BY <1>1
  <1>3. PICK a : a = [n \in 1 .. l |-> t.steps[n].event]
    OBVIOUS
  <1>4. Len(a) = l
    BY <1>3
  <1>5. MenuPath(t) = Within(a, EventsOf({"expand_menu"}))
    BY <1>2, <1>3 DEF MenuPath
  <1> QED BY <1>2, <1>4, <1>5, WithinFacts, WithinOrder DEF Depth

\* What is kept of a sequence, and what begins it.
LEMMA WithinElements ==
    ASSUME NEW B, NEW s \in Seq(B), NEW S
    PROVE  /\ ToSet(Within(s, S)) = ToSet(s) \cap S
           /\ Within(s, S) \in Seq(ToSet(s) \cap S)
  <1>1. PICK w : w = Within(s, S)
    OBVIOUS
  <1>2. PICK l \in Nat : l = Len(s) /\ DOMAIN s = 1 .. l
    OBVIOUS
  <1>3. /\ w \in Seq(S)
        /\ \A x : (\E k \in DOMAIN w : w[k] = x) <=> x \in S /\ \E k \in 1 .. l : s[k] = x
    BY <1>1, <1>2, WithinFacts
  <1>4. ToSet(w) = ToSet(s) \cap S
    BY <1>2, <1>3 DEF ToSet
  <1>5. \A k \in 1 .. Len(w) : w[k] \in ToSet(w)
    BY <1>3 DEF ToSet
  <1>6. w \in Seq(ToSet(s) \cap S)
    BY <1>3, <1>4, <1>5
  <1> QED BY <1>1, <1>4, <1>6

\* The candidates are events of the page that its trajectory allows.
LEMMA CandidateElements ==
    ASSUME Typed, NEW p \in Page, NEW t
    PROVE  ToSet(Candidates(p, t)) \subseteq {e \in ToSet(app.events[p]) : MenuFollows(e, MenuPath(t))}
  <1> DEFINE X == {e \in ToSet(app.events[p]) : MenuFollows(e, MenuPath(t))}
             rest == {e \in EventsOf(Categories(p, t) \ {"mutative"}) : MenuFollows(e, MenuPath(t))}
             others == Within(app.events[p], rest)
             mutative == Within(app.events[p], EventsOf({"mutative"}))
             n == IF RouteOf[p] = Home THEN MaxHomeEvents ELSE MaxEvents
  <1>1. app.events[p] \in Seq(Event)
    BY AppFacts
  <1>2. others \in Seq(X)
    <2>1. ToSet(app.events[p]) \cap rest \subseteq X
      OBVIOUS
    <2> HIDE DEF X, rest
    <2>2. others \in Seq(ToSet(app.events[p]) \cap rest)
      BY <1>1, WithinElements
    <2> QED BY <2>1, <2>2, SeqMonotonic
  <1>3. mutative \in Seq(X)
    <2>1. ToSet(app.events[p]) \cap EventsOf({"mutative"}) \subseteq X
      BY DEF EventsOf, MenuFollows
    <2> HIDE DEF X
    <2>2. mutative \in Seq(ToSet(app.events[p]) \cap EventsOf({"mutative"}))
      BY <1>1, WithinElements
    <2> QED BY <2>1, <2>2, SeqMonotonic
  <1> HIDE DEF X
  <1>4. Openers(p, t) \in Seq(X)
    <2>1. CASE RouteOf[p] = Home \/ Depth(t) # 0
      BY <2>1 DEF Openers
    <2>2. CASE RouteOf[p] # Home /\ Depth(t) = 0
      <3>1. AtMost(mutative, MaxOpeners) \in Seq(X)
        BY <1>3, AtMostFacts, CrawlAssumption
      <3> QED BY <2>2, <3>1 DEF Openers
    <2> QED BY <2>1, <2>2
  <1>5. n \in Nat
    BY CrawlAssumption
  <1>6. Candidates(p, t) = AtMost(Openers(p, t) \o others, n)
    BY DEF Candidates
  <1> HIDE DEF others, n
  <1>7. Openers(p, t) \o others \in Seq(X)
    BY <1>2, <1>4, ConcatProperties
  <1>8. Candidates(p, t) \in Seq(X)
    BY <1>5, <1>6, <1>7, AtMostFacts
  <1>9. ToSet(Candidates(p, t)) \subseteq X
    BY <1>8 DEF ToSet
  <1> QED BY <1>9 DEF X

\* The parts of the work while a page is explored.
LEMMA TriedParts ==
    ASSUME Inv, phase = "explore", work.todo # <<>>, NEW result, Tried(result)
    PROVE  /\ work'.page = work.page /\ work'.path = work.path /\ work'.routes = work.routes
           /\ ToSet(work.todo) = {Head(work.todo)} \cup ToSet(work'.todo)
           /\ ToSet(work'.results) = ToSet(work.results) \cup {result}
  <1>1. PICK todo : todo = Tail(work.todo)
    OBVIOUS
  <1>2. PICK results : results = Append(work.results, result)
    OBVIOUS
  <1>3. work \in Exploration(Seq(Playable(work.page, path[work.page])))
    BY DEF Inv, Working
  <1>4. work' = [work EXCEPT !.todo = todo, !.results = results]
    BY <1>1, <1>2 DEF Tried
  <1>5. /\ work'.page = work.page /\ work'.path = work.path /\ work'.routes = work.routes
        /\ work'.todo = todo /\ work'.results = results
    BY <1>3, <1>4 DEF Exploration
  <1>6. ToSet(work.todo) = {Head(work.todo)} \cup ToSet(todo)
    <2>1. work.todo \in Seq(Playable(work.page, path[work.page]))
      BY WorkFacts DEF Busy
    <2> QED BY <1>1, <2>1, TailElements
  <1>7. ToSet(results) = ToSet(work.results) \cup {result}
    <2>1. work.results \in Seq(Result(work.page))
      BY WorkFacts DEF Busy
    <2> QED BY <1>2, <2>1, AppendElements
  <1> QED BY <1>5, <1>6, <1>7

LEMMA RegisteredParts ==
    ASSUME Inv, phase = "register", work.todo # <<>>, work' = [work EXCEPT !.todo = Tail(@)]
    PROVE  /\ work'.page = work.page /\ work'.path = work.path /\ work'.routes = work.routes
           /\ work'.results = work.results
           /\ ToSet(work.todo) = {Head(work.todo)} \cup ToSet(work'.todo)
  <1>1. PICK todo : todo = Tail(work.todo)
    OBVIOUS
  <1>2. work \in Exploration(Seq(Registrable(work.page)))
    BY DEF Inv, Working
  <1>3. work' = [work EXCEPT !.todo = todo]
    BY <1>1
  <1>4. /\ work'.page = work.page /\ work'.path = work.path /\ work'.routes = work.routes
        /\ work'.todo = todo /\ work'.results = work.results
    BY <1>2, <1>3 DEF Exploration
  <1>5. ToSet(work.todo) = {Head(work.todo)} \cup ToSet(todo)
    <2>1. work.todo \in Seq(Registrable(work.page))
      BY WorkFacts DEF Busy
    <2> QED BY <1>1, <2>1, TailElements
  <1> QED BY <1>4, <1>5

LEMMA EndTriesParts ==
    ASSUME Inv, EndTries
    PROVE  /\ work'.page = work.page /\ work'.path = work.path /\ work'.routes = work.routes
           /\ work'.results = work.results
           /\ ToSet(work'.todo) = {r \in ToSet(work.results) :
                 r.to # None /\ ResultInScope(RouteScope, path[work.page], r.event, r.to)}
  <1> DEFINE inScope == {r \in ToSet(work.results) :
                 r.to # None /\ ResultInScope(RouteScope, path[work.page], r.event, r.to)}
  <1>1. PICK todo : todo = Within(work.results, inScope)
    OBVIOUS
  <1>2. phase = "explore" /\ work' = [work EXCEPT !.todo = todo]
    BY <1>1 DEF EndTries
  <1>3. work \in Exploration(Seq(Playable(work.page, path[work.page])))
    BY <1>2 DEF Inv, Working
  <1>4. /\ work'.page = work.page /\ work'.path = work.path /\ work'.routes = work.routes
        /\ work'.todo = todo /\ work'.results = work.results
    BY <1>2, <1>3 DEF Exploration
  <1>5. ToSet(todo) = inScope
    <2>1. work.results \in Seq(Result(work.page))
      BY <1>2, WorkFacts DEF Busy
    <2>2. inScope \subseteq ToSet(work.results)
      OBVIOUS
    <2> HIDE DEF inScope
    <2>3. ToSet(todo) = ToSet(work.results) \cap inScope
      BY <1>1, <2>1, WithinElements
    <2> QED BY <2>2, <2>3
  <1> QED BY <1>4, <1>5

LEMMA ExploreParts ==
    ASSUME NEW p, NEW t, NEW depth, NEW origin, work' = Explore(p, t, depth, origin)
    PROVE  /\ work'.page = p /\ work'.path = t /\ work'.routes = RouteScope
           /\ work'.todo = Candidates(p, t) /\ ToSet(work'.results) = {}
  <1>1. work'.results = <<>>
    BY DEF Explore
  <1>2. ToSet(work'.results) = {}
    BY <1>1 DEF ToSet
  <1> QED BY <1>2 DEF Explore

\* The trajectory of a page registered is its own, the one it had or a shorter one.
LEMMA RegisterPath ==
    ASSUME Rooted, NEW q, NEW t \in Trajectory, path' = Register(path, q, t)
    PROVE  /\ DOMAIN path' = DOMAIN path \cup {q} /\ Depth(path'[q]) <= Depth(t)
           /\ path'[q] = t \/ (q \in DOMAIN path /\ path'[q] = path[q])
           /\ \A p \in DOMAIN path :
                 path'[p] = path[p] \/ (p = q /\ Depth(path'[p]) < Depth(path[p]))
  <1>1. Depth(t) \in Nat /\ \A p \in DOMAIN path : Depth(path[p]) \in Nat
    BY DEF Rooted, Sound, Trajectory, Depth
  <1>2. CASE q \in DOMAIN path /\ Depth(path[q]) <= Depth(t)
    BY <1>1, <1>2 DEF Register
  <1>3. CASE ~(q \in DOMAIN path /\ Depth(path[q]) <= Depth(t))
    <2>1. path' = [p \in DOMAIN path \cup {q} |-> IF p = q THEN t ELSE path[p]]
      BY <1>3 DEF Register
    <2>2. q \in DOMAIN path => Depth(t) < Depth(path[q])
      BY <1>1, <1>3
    <2> HIDE DEF Depth
    <2> QED BY <1>1, <2>1, <2>2
  <1> QED BY <1>2, <1>3

\* A trajectory whose menus lead to its page is registered, or changes nothing.
LEMMA MenuedRegistered ==
    ASSUME Rooted, Menued, app' = app, NEW q, NEW t \in Trajectory, path' = Register(path, q, t),
           MenuPath(t) \in app.menus[q]
    PROVE  Menued'
  <1>1. /\ DOMAIN path' = DOMAIN path \cup {q}
        /\ path'[q] = t \/ (q \in DOMAIN path /\ path'[q] = path[q])
        /\ \A p \in DOMAIN path : p # q => path'[p] = path[p]
    BY RegisterPath
  <1>2. \A p \in DOMAIN path' : MenuPath(path'[p]) \in app.menus[p]
    BY <1>1 DEF Menued
  <1> QED BY <1>2 DEF Menued, MenuPath

\* One event more leads by the menus of the page and its own.
LEMMA MenuedPathTo ==
    ASSUME Typed, Rooted, Menued, NEW p \in DOMAIN path, NEW e \in Event, NEW q \in Page,
           e \in ToSet(app.events[p]), Pressable(e, MenuPath(path[p])), Opens(p, e) # None,
           Showed(p, e, q)
    PROVE  MenuPath(PathTo(p, e, q)) \in app.menus[q]
  <1>1. p \in Page
    BY DEF Rooted
  <1>2. /\ e \in DOMAIN app.opens[p]
        /\ \/ app.opens[p][e] = q
           \/ q = Login /\ RouteOf[app.opens[p][e]] # RouteOf[p]
    BY DEF Opens, Showed
  <1>3. Leads(app)
    BY ApplicationAssumption DEF Typed
  <1>4. MenuPath(path[p]) \in app.menus[p]
    BY DEF Menued
  <1>5. Traversed(MenuPath(path[p]), e) \in app.menus[q]
    <2>1. PICK menus : menus = MenuPath(path[p])
      OBVIOUS
    <2>2. menus \in app.menus[p] /\ Pressable(e, menus)
      BY <1>4, <2>1
    <2>3. /\ Traversed(menus, e) \in app.menus[app.opens[p][e]]
          /\ RouteOf[app.opens[p][e]] # RouteOf[p] => Traversed(menus, e) \in app.menus[Login]
      <3> HIDE DEF Traversed, Pressable
      <3> QED BY <1>1, <1>2, <1>3, <2>2 DEF Leads
    <2> QED BY <1>2, <2>1, <2>3
  <1> QED BY <1>5, PathToMenus

\* What leads to the branch is not forgotten.
LEMMA WitnessKept ==
    ASSUME app' = app, scope' = scope, flow \subseteq flow'
    PROVE  \A r : Witnessed(r) => Witnessed(r)'
  <1>1. /\ \A a, b : NewLinks(a, b)' = NewLinks(a, b)
        /\ \A menus : Inside(menus)' <=> Inside(menus)
    BY DEF NewLinks, Inside
  <1> QED BY <1>1 DEF Witnessed

LEMMA BranchKept ==
    ASSUME Branch, app' = app, scope' = scope, flow \subseteq flow', dynamic' = dynamic,
           visited' \subseteq visited \cup Admitted
    PROVE  Branch'
  <1>1. \A r : Witnessed(r) => Witnessed(r)'
    BY WitnessKept
  <1>2. scope = "module" => Admitted \subseteq ToSet(Known) \cup dynamic
    BY DEF Admitted, RouteScope
  <1> HIDE DEF Witnessed
  <1> QED BY <1>1, <1>2 DEF Branch

\* The branch and the links that an event shows.
LEMMA BranchExtended ==
    ASSUME Typed, Branch, Menued', app' = app, scope' = scope, visited' = visited,
           NEW base, NEW p, NEW e, NEW q \in DOMAIN path', NEW depth, q \in Page,
           RegisterLinks(base, p, e, q, path'[q], depth), flow' = flow \cup {<<p, e, q>>}
    PROVE  Branch'
  <1>1. PICK links : links = LinksShown(p, e, q, path'[q])
    OBVIOUS
  <1>2. dynamic' = IF scope = "module" THEN dynamic \cup (ToSet(links) \ ToSet(Known)) ELSE dynamic
    BY <1>1 DEF RegisterLinks
  <1>3. \A r : Witnessed(r) => Witnessed(r)'
    BY WitnessKept
  <1>4. ASSUME scope = "module", NEW r \in ToSet(links) \ ToSet(Known)
        PROVE  Witnessed(r)'
    <2>1. PICK t : t = path'[q]
      OBVIOUS
    <2>2. links = Within(app.links[q], Revealed(p, e, q, t))
      BY <1>1, <1>4, <2>1 DEF LinksShown
    <2>3. app.links[q] \in Seq(ToSet(app.links[q]))
      BY AppFacts
    <2>4. r \in Revealed(p, e, q, t)
      BY <1>4, <2>2, <2>3, WithinElements
    <2>5. Inside(MenuPath(t)) /\ r \in NewLinks(p, q) /\ Category[e] = "expand_menu"
      BY <1>4, <2>4 DEF Revealed
    <2>6. MenuPath(t) \in app.menus[q]
      BY <2>1 DEF Menued, MenuPath
    <2>7. PICK menus : menus = MenuPath(t)
      OBVIOUS
    <2>8. menus \in app'.menus[q] /\ Inside(menus)' /\ (r \in NewLinks(p, q))'
      BY <2>5, <2>6, <2>7 DEF Inside, NewLinks
    <2>9. PICK step : step = <<p, e, q>>
      OBVIOUS
    <2>10. step \in flow' /\ step[1] = p /\ step[2] = e /\ step[3] = q
      BY <2>9
    <2> HIDE DEF Inside, NewLinks
    <2> QED BY <2>5, <2>8, <2>10 DEF Witnessed
  <1> HIDE DEF Witnessed
  <1> QED BY <1>2, <1>3, <1>4 DEF Branch

\* A crawler that neither enters the module nor explores a page.
LEMMA GuidedStill ==
    ASSUME Guided, UNCHANGED <<app, scope, path, flow, dynamic>>, visited' \subseteq visited \cup Admitted,
           phase' \notin {"start", "enter", "explore", "register"}
    PROVE  Guided'
  <1>1. Menued'
    BY DEF Guided, Menued, MenuPath
  <1>2. Pressing' /\ Entering'
    BY DEF Pressing, Entering, Busy
  <1>3. Branch'
    BY BranchKept DEF Guided
  <1> QED BY <1>1, <1>2, <1>3 DEF Guided

\* A page begins to be explored.
LEMMA GuidedExplore ==
    ASSUME Typed, Menued', Branch', app' = app, NEW p \in Page, NEW t, p \in DOMAIN path', path'[p] = t,
           NEW depth, NEW origin, work' = Explore(p, t, depth, origin), phase' = "explore"
    PROVE  Guided'
  <1>1. /\ work'.page = p /\ work'.todo = Candidates(p, t) /\ ToSet(work'.results) = {}
    BY ExploreParts
  <1>2. Presses' = {e \in ToSet(app.events[p]) : MenuFollows(e, MenuPath(t))}
    BY <1>1 DEF Presses, MenuFollows, MenuPath
  <1>3. ToSet(work'.todo) \subseteq Presses'
    BY <1>1, <1>2, CandidateElements
  <1>4. ToSet(work'.todo) = ToSet(work.todo)' /\ ToSet(work'.results) = ToSet(work.results)'
    BY DEF ToSet
  <1> HIDE DEF Presses
  <1>5. Pressing'
    BY <1>1, <1>3, <1>4 DEF Pressing, Busy
  <1>6. Entering'
    BY DEF Entering
  <1> QED BY <1>5, <1>6 DEF Guided

\* The page explored keeps its trajectory, and so the events that are tried on it.
LEMMA PressesKept ==
    ASSUME app' = app, work'.page = work.page, path'[work.page] = path[work.page]
    PROVE  Presses' = Presses
  BY DEF Presses, MenuFollows, MenuPath

\* Nothing of it changes.
LEMMA GuidedKept ==
    ASSUME Guided, UNCHANGED <<app, scope, path, flow, dynamic, visited, work, phase, entered, browser>>
    PROVE  Guided'
  <1>1. Menued'
    BY DEF Guided, Menued, MenuPath
  <1>2. Pressing'
    <2>1. Presses' = Presses
      BY PressesKept
    <2> HIDE DEF Presses
    <2> QED BY <2>1 DEF Guided, Pressing, Busy
  <1>3. Entering'
    BY DEF Guided, Entering, Depth
  <1>4. Branch'
    BY BranchKept DEF Guided
  <1> QED BY <1>1, <1>2, <1>3, <1>4 DEF Guided

LEMMA InitGuided ==
    ASSUME Init PROVE Guided
  BY DEF Init, Guided, Menued, Pressing, Entering, Branch, Busy

\* A screen is captured: its trajectory presses no menu.
LEMMA CaptureGuided ==
    ASSUME Inv, Inv', Guided, NEW r \in Allowed, NEW rest, NEW depth, NEW origin \in {"start", "routes"},
           Capture(Navigated(r), rest, depth, origin), UNCHANGED <<env, entered>>
    PROVE  Guided'
  <1>1. PICK p : p = Navigated(r)
    OBVIOUS
  <1>2. p \in Page /\ (RouteOf[p] \in Allowed => p = app.entry[r]) /\ r \in DOMAIN app.entry
    BY <1>1, NavigatedFacts, AppFacts DEF Inv
  <1>3. /\ \/ CaptureScreen(p, rest, depth, origin)
           \/ CaptureUnavailable(p, rest, origin)
           \/ CaptureNothing(p, rest, origin)
        /\ UNCHANGED <<pending, explored, nav, flow, torn, dynamic, explorations>>
    BY <1>1 DEF Capture
  <1>4. After(origin) \in {"top", "routes"}
    BY DEF After
  <1>5. CASE CaptureScreen(p, rest, depth, origin)
    <2>1. PICK t : t = RootPath(p)
      OBVIOUS
    <2>2. /\ RouteOf[p] \in Admitted /\ visited' = visited \cup {RouteOf[p]}
          /\ path' = Register(path, p, t)
          /\ phase' = "explore" /\ work' = Explore(p, path'[p], depth, origin)
      BY <1>5, <2>1 DEF CaptureScreen
    <2>3. t \in Trajectory
      BY <1>2, <2>1 DEF RootPath, Trajectory
    <2>4. MenuPath(t) \in app.menus[p]
      <3>1. Leads(app)
        BY ApplicationAssumption DEF Inv, Typed
      <3>2. p = app.entry[r]
        BY <1>2, <2>2 DEF Admitted
      <3> QED BY <1>2, <2>1, <3>1, <3>2, RootMenus DEF Leads
    <2>5. Menued'
      BY <2>2, <2>3, <2>4, MenuedRegistered DEF Inv, Guided, env
    <2>6. Branch'
      BY <1>3, <2>2, BranchKept DEF Guided, env
    <2>7. p \in DOMAIN path'
      BY <2>2, <2>3, RegisterPath DEF Inv
    <2> QED BY <1>2, <2>2, <2>5, <2>6, <2>7, GuidedExplore DEF Inv, env
  <1>6. CASE CaptureUnavailable(p, rest, origin)
    <2>1. /\ RouteOf[p] \in Admitted /\ visited' = visited \cup {RouteOf[p]}
          /\ phase' = After(origin) /\ path' = path
      BY <1>6 DEF CaptureUnavailable
    <2> QED BY <1>3, <1>4, <2>1, GuidedStill DEF env
  <1>7. CASE CaptureNothing(p, rest, origin)
    <2>1. visited' = visited /\ phase' = After(origin) /\ path' = path
      BY <1>7 DEF CaptureNothing
    <2> QED BY <1>3, <1>4, <2>1, GuidedStill DEF env
  <1> QED BY <1>3, <1>5, <1>6, <1>7

\* Home is registered, by no menu.
LEMMA StartModuleGuided ==
    ASSUME Inv, Inv', Guided, StartModule PROVE Guided'
  <1>1. PICK p : p = Navigated(Home)
    OBVIOUS
  <1>2. p \in Page /\ (RouteOf[p] \in Allowed => p = app.entry[Home]) /\ Home \in DOMAIN app.entry
    BY <1>1, CrawlAssumption, NavigatedFacts, AppFacts DEF Inv
  <1>3. /\ browser' = p /\ scope = "module"
        /\ UNCHANGED <<env, frontiers, flow, dynamic>>
        /\ IF RouteOf[p] \in Allowed
           THEN phase' = "enter" /\ path' = Register(path, p, RootPath(p)) /\ entered' = <<p>>
           ELSE phase' = "failed" /\ path' = path
    BY <1>1 DEF StartModule
  <1>4. CASE RouteOf[p] \in Allowed
    <2>1. PICK t : t = RootPath(p)
      OBVIOUS
    <2>2. phase' = "enter" /\ path' = Register(path, p, t) /\ entered' = <<p>>
      BY <1>3, <1>4, <2>1
    <2>3. t \in Trajectory /\ Depth(t) = 0
      BY <1>2, <2>1 DEF RootPath, Trajectory, Depth
    <2>4. MenuPath(t) \in app.menus[p]
      <3>1. Leads(app)
        BY ApplicationAssumption DEF Inv, Typed
      <3> QED BY <1>2, <1>4, <2>1, <3>1, RootMenus DEF Leads
    <2>5. Menued'
      BY <1>3, <2>2, <2>3, <2>4, MenuedRegistered DEF Inv, Guided, env
    <2>6. Pressing'
      BY <2>2 DEF Pressing, Busy
    <2>7. Entering'
      <3>1. Depth(path'[p]) <= 0
        BY <2>2, <2>3, RegisterPath DEF Inv
      <3>2. Last(entered') = p /\ Len(entered') - 1 = 0
        BY <2>2 DEF Last
      <3>3. Depth(path'[p]) = Depth(path[browser])' /\ Last(entered') = Last(entered)'
        BY <1>3 DEF Depth, Last
      <3> HIDE DEF Depth, Last
      <3> QED BY <1>3, <2>2, <3>1, <3>2, <3>3 DEF Entering, env
    <2>8. Branch'
      BY <1>3, BranchKept DEF Guided, env, frontiers
    <2> QED BY <2>5, <2>6, <2>7, <2>8 DEF Guided
  <1>5. CASE RouteOf[p] \notin Allowed
    BY <1>3, <1>5, GuidedStill DEF env, frontiers
  <1> QED BY <1>4, <1>5

\* A menu of the way in is pressed, whatever trajectory the page has by now.
LEMMA EnterMenuGuided ==
    ASSUME Inv, Inv', Guided, EnterMenu PROVE Guided'
  <1>1. PICK e : e = EntryPath[Len(entered)]
    OBVIOUS
  <1>2. PICK q : q = IF Opens(browser, e) = None THEN browser ELSE Clicked(browser, e)
    OBVIOUS
  <1>3. PICK t : t = PathTo(browser, e, q)
    OBVIOUS
  <1>4. PICK depth : depth = Len(entered) - 1
    OBVIOUS
  <1>5. /\ phase = "enter" /\ Len(entered) <= Len(EntryPath) /\ UNCHANGED <<env, visited>>
        /\ \/ /\ e \in ToSet(app.events[browser])
              /\ browser' = q /\ path' = Register(path, q, t) /\ flow' = flow \cup {<<browser, e, q>>}
              /\ RegisterLinks(Home, browser, e, q, path'[q], depth)
              /\ entered' = Append(entered, q) /\ UNCHANGED phase
           \/ /\ phase' = "failed"
              /\ UNCHANGED <<browser, path, flow, nav, queue, dynamic, known, entered>>
    BY <1>1, <1>2, <1>3, <1>4 DEF EnterMenu
  <1>6. CASE phase' = "failed" /\ UNCHANGED <<browser, path, flow, nav, queue, dynamic, known, entered>>
    BY <1>5, <1>6, GuidedStill DEF env
  <1>7. CASE /\ e \in ToSet(app.events[browser])
             /\ browser' = q /\ path' = Register(path, q, t) /\ flow' = flow \cup {<<browser, e, q>>}
             /\ RegisterLinks(Home, browser, e, q, path'[q], depth)
             /\ entered' = Append(entered, q) /\ UNCHANGED phase
    <2>1. browser \in DOMAIN path /\ browser \in Page
      BY <1>5 DEF Inv, Typed
    <2>2. PICK l \in Nat \ {0} : l = Len(entered)
      <3>1. entered \in Seq(Page) /\ entered # <<>>
        BY <1>5 DEF Inv, Typed
      <3> QED BY <3>1
    <2>3. l <= Len(EntryPath) /\ Len(EntryPath) \in Nat /\ e \in EventsOf({"expand_menu"})
      BY <1>1, <1>5, <2>2, CrawlAssumption
    <2>4. e \in Event /\ Category[e] = "expand_menu"
      BY <2>3 DEF EventsOf, Event
    <2>5. q \in Page
      BY <1>2, <2>1, ClickedFacts DEF Inv
    <2>6. path[browser] \in Trajectory /\ Depth(path[browser]) <= l - 1 /\ Depth(path[browser]) \in Nat
      <3>1. path[browser] \in Trajectory
        BY <2>1 DEF Inv, Rooted, Sound
      <3>2. Depth(path[browser]) <= Len(entered) - 1
        BY <1>5 DEF Guided, Entering
      <3> QED BY <2>2, <3>1, <3>2, MenusShort
    <2>7. Pressable(e, MenuPath(path[browser]))
      <3>1. PICK menus : menus = MenuPath(path[browser])
        OBVIOUS
      <3>2. Len(menus) \in 0 .. Depth(path[browser])
        BY <2>6, <3>1, MenusShort
      <3>3. l \in Len(menus) + 1 .. Len(EntryPath) /\ e = EntryPath[l]
        BY <1>1, <2>2, <2>3, <2>6, <3>2
      <3> QED BY <3>1, <3>3 DEF Pressable
    <2>8. /\ t \in Trajectory /\ Depth(t) = Depth(path[browser]) + 1
      <3>1. PICK b : b = path[browser]
        OBVIOUS
      <3>2. PICK row : row = [event |-> e, to |-> q]
        OBVIOUS
      <3>3. b \in [root : Page, steps : Seq(Step)] /\ row \in Step
        BY <2>4, <2>5, <2>6, <3>1, <3>2 DEF Trajectory, Step
      <3>4. PICK v : v = Append(b.steps, row)
        OBVIOUS
      <3>5. v \in Seq(Step) /\ Len(v) = Len(b.steps) + 1
        BY <3>3, <3>4, AppendProperties
      <3>6. t = [b EXCEPT !.steps = v]
        BY <1>3, <3>1, <3>2, <3>4 DEF PathTo, Extend
      <3>7. t \in [root : Page, steps : Seq(Step)] /\ t.steps = v
        BY <3>3, <3>5, <3>6
      <3> QED BY <3>1, <3>5, <3>7 DEF Trajectory, Depth
    <2>9. /\ DOMAIN path' = DOMAIN path \cup {q} /\ Depth(path'[q]) <= Depth(t)
      BY <1>7, <2>8, RegisterPath DEF Inv
    <2>10. Menued'
      <3>1. CASE Opens(browser, e) # None
        <4>1. Showed(browser, e, q)
          BY <1>2, <2>1, <3>1, ClickedFacts DEF Inv
        <4>2. MenuPath(t) \in app.menus[q]
          BY <1>3, <1>7, <2>1, <2>4, <2>5, <2>7, <3>1, <4>1, MenuedPathTo DEF Inv, Guided
        <4> QED BY <1>5, <1>7, <2>8, <4>2, MenuedRegistered DEF Inv, Guided, env
      <3>2. CASE Opens(browser, e) = None
        <4>1. path' = path
          BY <1>2, <1>3, <1>7, <2>1, <3>2, RegisterLonger DEF Inv
        <4> QED BY <1>5, <4>1 DEF Guided, Menued, MenuPath, env
      <3> QED BY <3>1, <3>2
    <2>11. Pressing'
      BY <1>5, <1>7 DEF Pressing, Busy
    <2>12. Entering'
      <3>1. entered \in Seq(Page)
        BY DEF Inv, Typed
      <3>2. PICK u : u = Append(entered, q)
        OBVIOUS
      <3>3. Len(u) = l + 1 /\ u[l + 1] = q
        BY <2>2, <2>5, <3>1, <3>2, AppendProperties
      <3>4. Last(u) = q
        BY <3>3 DEF Last
      <3>5. Depth(path'[q]) \in Nat
        <4>1. path'[q] \in Trajectory
          BY <2>9 DEF Inv, Rooted, Sound, Trajectory, Step
        <4> QED BY <4>1, MenusShort
      <3>6. Depth(path'[q]) <= Len(u) - 1
        BY <2>6, <2>8, <2>9, <3>3, <3>5
      <3>7. /\ Depth(path[browser])' = Depth(path'[q]) /\ Last(entered)' = Last(u)
            /\ Len(entered)' = Len(u) /\ browser' = q /\ scope' = scope /\ phase' = "enter"
        BY <1>5, <1>7, <3>2 DEF Depth, Last, env
      <3>8. scope = "module"
        BY <1>5 DEF Guided, Entering
      <3> HIDE DEF Depth, Last
      <3> QED BY <3>4, <3>6, <3>7, <3>8 DEF Entering
    <2>13. Branch'
      <3>1. q \in DOMAIN path'
        BY <2>9
      <3> QED BY <1>5, <1>7, <2>5, <2>10, <3>1, BranchExtended DEF Inv, Guided, env
    <2> QED BY <2>10, <2>11, <2>12, <2>13 DEF Guided
  <1> QED BY <1>5, <1>6, <1>7

\* An event is tried, whatever it gives.
LEMMA TriedGuided ==
    ASSUME Inv, Guided, phase = "explore", work.todo # <<>>, NEW result, result.event = Head(work.todo),
           Tried(result), UNCHANGED <<app, scope, path, flow, dynamic, visited, phase>>
    PROVE  Guided'
  <1>1. /\ work'.page = work.page
        /\ ToSet(work.todo) = {Head(work.todo)} \cup ToSet(work'.todo)
        /\ ToSet(work'.results) = ToSet(work.results) \cup {result}
    BY TriedParts
  <1>2. Presses' = Presses
    BY <1>1, PressesKept
  <1>3. ToSet(work'.todo) = ToSet(work.todo)' /\ ToSet(work'.results) = ToSet(work.results)'
    BY DEF ToSet
  <1> HIDE DEF Presses
  <1>4. ToSet(work.todo) \subseteq Presses /\ \A r \in ToSet(work.results) : r.event \in Presses
    BY DEF Guided, Pressing, Busy
  <1>5. Pressing'
    BY <1>1, <1>2, <1>3, <1>4 DEF Pressing, Busy
  <1>6. Menued' /\ Entering'
    BY DEF Guided, Menued, MenuPath, Entering
  <1>7. Branch'
    BY BranchKept DEF Guided
  <1> QED BY <1>5, <1>6, <1>7 DEF Guided

LEMMA EndTriesGuided ==
    ASSUME Inv, Guided, EndTries PROVE Guided'
  <1>1. /\ phase = "explore" /\ phase' = "register"
        /\ UNCHANGED <<env, frontiers, graphs>>
    BY DEF EndTries
  <1>2. /\ work'.page = work.page /\ work'.results = work.results
        /\ ToSet(work'.todo) \subseteq ToSet(work.results)
    BY EndTriesParts
  <1>3. Presses' = Presses
    BY <1>1, <1>2, PressesKept DEF env, graphs
  <1>4. ToSet(work'.todo) = ToSet(work.todo)' /\ ToSet(work'.results) = ToSet(work.results)'
    BY DEF ToSet
  <1> HIDE DEF Presses
  <1>5. \A r \in ToSet(work.results) : r.event \in Presses
    BY <1>1 DEF Guided, Pressing, Busy
  <1>6. Pressing'
    BY <1>1, <1>2, <1>3, <1>4, <1>5 DEF Pressing, Busy
  <1>7. Menued' /\ Entering'
    BY <1>1 DEF Guided, Menued, MenuPath, Entering, env, graphs
  <1>8. Branch'
    BY <1>1, BranchKept DEF Guided, env, graphs, frontiers
  <1> QED BY <1>6, <1>7, <1>8 DEF Guided

\* The results that are left are those of the same page.
LEMMA RegisteredPressing ==
    ASSUME Inv, Guided, phase = "register", phase' = phase, work.todo # <<>>, app' = app,
           work' = [work EXCEPT !.todo = Tail(@)], path'[work.page] = path[work.page]
    PROVE  Pressing' /\ Entering'
  <1>1. /\ work'.page = work.page /\ work'.results = work.results
        /\ ToSet(work'.todo) \subseteq ToSet(work.todo)
    BY RegisteredParts
  <1>2. Presses' = Presses
    BY <1>1, PressesKept
  <1>3. ToSet(work'.todo) = ToSet(work.todo)' /\ ToSet(work'.results) = ToSet(work.results)'
    BY DEF ToSet
  <1> HIDE DEF Presses
  <1>4. /\ \A r \in ToSet(work.results) : r.event \in Presses
        /\ \A r \in ToSet(work.todo) : r.event \in Presses
    BY DEF Guided, Pressing, Busy
  <1>5. Pressing'
    BY <1>1, <1>2, <1>3, <1>4 DEF Pressing, Busy
  <1>6. Entering'
    BY DEF Entering
  <1> QED BY <1>5, <1>6

LEMMA RegisterContentGuided ==
    ASSUME Inv, Guided, RegisterContent PROVE Guided'
  <1>1. /\ phase = "register" /\ work.todo # <<>> /\ flow \subseteq flow'
        /\ work' = [work EXCEPT !.todo = Tail(@)]
        /\ UNCHANGED <<env, phase, frontiers, path, dynamic>>
    BY DEF RegisterContent
  <1>2. Pressing' /\ Entering'
    BY <1>1, RegisteredPressing DEF env
  <1>3. Menued'
    BY <1>1 DEF Guided, Menued, MenuPath, env
  <1>4. Branch'
    BY <1>1, BranchKept DEF Guided, env, frontiers
  <1> QED BY <1>2, <1>3, <1>4 DEF Guided

\* The trajectory of a page to register goes by the menus of the page explored and the
\* event.
LEMMA RegistrableMenus ==
    ASSUME Inv, Guided, phase = "register", work.todo # <<>>,
           NEW p, p = work.page, NEW e, e = Head(work.todo).event,
           NEW q, q = Head(work.todo).to, NEW t, t = PathTo(p, e, q)
    PROVE  /\ p \in DOMAIN path /\ p \in Page /\ q \in Page \ {None} /\ t \in Trajectory
           /\ MenuPath(t) \in app.menus[q]
  <1>1. p \in DOMAIN path /\ p \in Page
    BY WorkFacts DEF Busy
  <1>2. q \in Page \ {None} /\ e \in Playable(p, path[p]) /\ Opens(p, e) = q
    BY RegistrableFacts
  <1>3. e \in Event
    BY <1>2 DEF Playable
  <1>4. Showed(p, e, q)
    BY <1>2 DEF Showed
  <1>5. Sound(t, q)
    BY <1>1, <1>2, <1>4, PathToFacts DEF Inv
  <1>6. t \in Trajectory
    BY <1>5 DEF Sound
  <1>7. e \in ToSet(app.events[p]) /\ MenuFollows(e, MenuPath(path[p]))
    <2>1. PICK s : s = work.todo
      OBVIOUS
    <2>2. s \in Seq(Registrable(work.page)) /\ s # <<>>
      BY <2>1 DEF Inv, Working, Exploration, Busy
    <2>3. Head(s) \in ToSet(s)
      <3>1. Head(s) = s[1] /\ 1 \in DOMAIN s
        <4> HIDE DEF Registrable
        <4> QED BY <2>2
      <3> QED BY <3>1 DEF ToSet
    <2> QED BY <2>1, <2>3 DEF Guided, Pressing, Presses, Busy
  <1>8. MenuPath(t) \in app.menus[q]
    <2>1. Pressable(e, MenuPath(path[p]))
      BY <1>7 DEF Pressable
    <2> QED BY <1>1, <1>2, <1>3, <1>4, <1>7, <2>1, MenuedPathTo DEF Inv, Guided
  <1> QED BY <1>1, <1>2, <1>6, <1>8

\* Another page is registered.
LEMMA RegisterPageGuided ==
    ASSUME Inv, Inv', Guided, RegisterPage PROVE Guided'
  <1>1. PICK p : p = work.page
    OBVIOUS
  <1>2. PICK e : e = Head(work.todo).event
    OBVIOUS
  <1>3. PICK q : q = Head(work.todo).to
    OBVIOUS
  <1>4. PICK t : t = PathTo(p, e, q)
    OBVIOUS
  <1>5. /\ phase = "register" /\ work.todo # <<>> /\ q # p /\ path' = Register(path, q, t)
        /\ flow' = flow \cup {<<p, e, q>>}
        /\ RegisterLinks(RouteOf[p], p, e, q, path'[q], work.depth)
        /\ work' = [work EXCEPT !.todo = Tail(@)]
        /\ UNCHANGED <<env, phase, visited>>
    BY <1>1, <1>2, <1>3, <1>4 DEF RegisterPage
  <1>6. /\ p \in DOMAIN path /\ p \in Page /\ q \in Page \ {None} /\ t \in Trajectory
        /\ MenuPath(t) \in app.menus[q]
    BY <1>1, <1>2, <1>3, <1>4, <1>5, RegistrableMenus
  <1>7. Menued'
    BY <1>5, <1>6, MenuedRegistered DEF Inv, Guided, env
  <1>8. /\ q \in DOMAIN path' /\ path'[p] = path[p]
    BY <1>5, <1>6, RegisterPath DEF Inv
  <1>9. Pressing' /\ Entering'
    BY <1>1, <1>5, <1>8, RegisteredPressing DEF env
  <1>10. Branch'
    BY <1>5, <1>6, <1>7, <1>8, BranchExtended DEF Inv, Guided, env
  <1> QED BY <1>7, <1>9, <1>10 DEF Guided

\* The artifacts of a page raise: its trajectory goes by the same menus.
LEMMA BreakRegistrationGuided ==
    ASSUME Inv, Inv', Guided, BreakRegistration PROVE Guided'
  <1>1. PICK p : p = work.page
    OBVIOUS
  <1>2. PICK e : e = Head(work.todo).event
    OBVIOUS
  <1>3. PICK q : q = Head(work.todo).to
    OBVIOUS
  <1>4. PICK t : t = PathTo(p, e, q)
    OBVIOUS
  <1>5. /\ phase = "register" /\ work.todo # <<>> /\ path' = Register(path, q, t)
        /\ flow \subseteq flow' /\ phase' = IF work.origin = "start" THEN "failed" ELSE work.origin
        /\ UNCHANGED <<env, visited, dynamic>>
    BY <1>1, <1>2, <1>3, <1>4 DEF BreakRegistration, Handled
  <1>6. t \in Trajectory /\ MenuPath(t) \in app.menus[q]
    BY <1>1, <1>2, <1>3, <1>4, <1>5, RegistrableMenus
  <1>7. Menued'
    BY <1>5, <1>6, MenuedRegistered DEF Inv, Guided, env
  <1>8. phase' \in {"failed", "routes", "states"}
    BY <1>5, WorkFacts DEF Busy
  <1>9. Pressing' /\ Entering'
    BY <1>8 DEF Pressing, Entering, Busy
  <1>10. Branch'
    BY <1>5, BranchKept DEF Guided, env
  <1> QED BY <1>7, <1>9, <1>10 DEF Guided

\* The artifacts of a screen raise: no menu leads to it.
LEMMA BreakCaptureGuided ==
    ASSUME Inv, Inv', Guided, BreakCapture PROVE Guided'
  <1>1. PICK p \in Page :
           /\ browser' = p /\ RouteOf[p] \in Admitted \ visited
           /\ visited' = visited \cup {RouteOf[p]}
           /\ \/ path' = path
              \/ Sound(RootPath(p), p) /\ path' = Register(path, p, RootPath(p))
    BY BreakCaptureFacts DEF Inv
  <1>2. UNCHANGED <<env, phase, entered, flow, dynamic>> /\ phase = "routes"
    BY DEF BreakCapture, NextTarget
  <1>3. Menued'
    <2>1. CASE path' = path
      BY <1>2, <2>1 DEF Guided, Menued, MenuPath, env
    <2>2. CASE Sound(RootPath(p), p) /\ path' = Register(path, p, RootPath(p))
      <3>1. PICK t : t = RootPath(p)
        OBVIOUS
      <3>2. t \in Trajectory /\ t.root = p /\ Sound(t, p)
        BY <2>2, <3>1 DEF Sound, RootPath
      <3>3. RouteOf[p] \in DOMAIN app.entry /\ app.entry[RouteOf[p]] = p
        BY <3>2 DEF Sound
      <3>4. Leads(app)
        BY ApplicationAssumption DEF Inv, Typed
      <3>5. MenuPath(t) \in app.menus[p]
        BY <3>1, <3>3, <3>4, RootMenus DEF Leads
      <3> QED BY <1>2, <2>2, <3>1, <3>2, <3>5, MenuedRegistered DEF Inv, Guided, env
    <2> QED BY <1>1, <2>1, <2>2
  <1>4. Pressing' /\ Entering'
    BY <1>2 DEF Pressing, Entering, Busy
  <1>5. Branch'
    BY <1>1, <1>2, BranchKept DEF Guided, env
  <1> QED BY <1>3, <1>4, <1>5 DEF Guided

\* Every step of the crawler and of its environment keeps to the branch.
LEMMA StepGuided ==
    ASSUME Inv, Inv', Guided, [Next]_vars PROVE Guided'
  <1>1. CASE StartFull
    <2>1. Home \in Allowed
      BY CrawlAssumption
    <2> QED BY <1>1, <2>1, CaptureGuided DEF StartFull
  <1>2. CASE StartScreen
    <2>1. CASE Target \notin Broken /\ RouteOf[Navigated(Target)] \in Admitted
      <3>1. Target \in Allowed
        BY CrawlAssumption
      <3> QED BY <1>2, <2>1, <3>1, CaptureGuided DEF StartScreen
    <2>2. CASE ~(Target \notin Broken /\ RouteOf[Navigated(Target)] \in Admitted)
      BY <1>2, <2>2, GuidedStill DEF StartScreen, env, graphs
    <2> QED BY <2>1, <2>2
  <1>3. CASE VisitRoute
    <2>1. Head(queue).route \in Allowed
      BY <1>3, FrontierFacts DEF Inv, VisitRoute, NextTarget, RouteRow
    <2> QED BY <1>3, <2>1, CaptureGuided DEF VisitRoute
  <1>4. CASE EnterModule \/ Top \/ SkipRoute \/ LoseRoute \/ EndRoutes \/ LoseState \/ EndRound \/ FailStart
    BY <1>4, GuidedStill DEF EnterModule, Top, SkipRoute, LoseRoute, EndRoutes, LoseState, EndRound,
       FailStart, NextTarget, NextState, env, graphs, frontiers
  <1>5. CASE FinishExploration \/ BreakExploration
    <2>1. phase = "register" /\ UNCHANGED <<env, visited, path, flow, dynamic>>
      BY <1>5 DEF FinishExploration, BreakExploration, Handled
    <2>2. work.origin \in {"start", "routes", "states"}
      BY <2>1, WorkFacts DEF Busy
    <2>3. phase' \in {"top", "failed", "routes", "states"}
      BY <1>5, <2>2 DEF FinishExploration, BreakExploration, Handled, After
    <2> QED BY <2>1, <2>3, GuidedStill DEF env
  <1>6. CASE ExploreState
    <2>1. PICK p : p = Head(pending).page
      OBVIOUS
    <2>2. /\ work' = Explore(p, path[p], Head(pending).depth, "states") /\ phase' = "explore"
          /\ pending # <<>> /\ UNCHANGED <<env, visited, graphs>>
      BY <1>6, <2>1 DEF ExploreState, NextState
    <2>3. p \in DOMAIN path /\ p \in Page /\ path' = path
      BY <2>1, <2>2, FrontierFacts DEF Inv, StateRow, Rooted, graphs
    <2>4. Menued'
      BY <2>2, <2>3 DEF Guided, Menued, MenuPath, env
    <2>5. Branch'
      BY <2>2, BranchKept DEF Guided, env, graphs
    <2> QED BY <2>2, <2>3, <2>4, <2>5, GuidedExplore DEF Inv, env
  <1>7. CASE LosePage
    BY <1>7, TriedGuided DEF LosePage, env, frontiers, graphs
  <1>8. CASE ClickFails
    BY <1>8, TriedGuided DEF ClickFails, env, frontiers, graphs
  <1>9. CASE Click
    <2>1. PICK result : result = [event |-> Head(work.todo),
                                  to |-> Clicked(Shown(work.page), Head(work.todo)), error |-> None]
      OBVIOUS
    <2>2. result.event = Head(work.todo)
      BY <2>1
    <2>3. /\ phase = "explore" /\ work.todo # <<>> /\ Tried(result)
          /\ UNCHANGED <<env, phase, frontiers, graphs>>
      BY <1>9, <2>1 DEF Click
    <2> QED BY <2>2, <2>3, TriedGuided DEF env, frontiers, graphs
  <1>10. CASE Expire
    BY <1>10, GuidedKept DEF Expire, frontiers, graphs
  <1>11. CASE UNCHANGED vars
    BY <1>11, GuidedKept DEF vars, env, frontiers, graphs
  <1> QED BY <1>1, <1>2, <1>3, <1>4, <1>5, <1>6, <1>7, <1>8, <1>9, <1>10, <1>11, StartModuleGuided,
             EnterMenuGuided, EndTriesGuided, RegisterContentGuided, RegisterPageGuided,
             BreakRegistrationGuided, BreakCaptureGuided DEF Next, Crawler

\* What is guided stays so in every crawl.
LEMMA StaysGuided == Spec => []Guided
  <1>1. Init => Guided
    BY InitGuided
  <1>2. Inv /\ Inv' /\ Guided /\ [Next]_vars => Guided'
    BY StepGuided
  <1> QED BY <1>1, <1>2, Invariance, PTL DEF Spec

\* A crawl of a module visits its known screens and those that the menus of its branch
\* show, for every application and every trajectory that pages are reached by
\* (ModuleCrawlBoundary, _register_module_event_discovered_links).
THEOREM StaysInside == Spec => []ModuleStaysInside
  <1>1. Guided => ModuleStaysInside
    <2> SUFFICES ASSUME Guided, scope = "module", NEW r \in (visited \cup dynamic) \ ToSet(Known)
                 PROVE  Witnessed(r)
      BY DEF ModuleStaysInside, Witnessed
    <2> QED BY DEF Guided, Branch
  <1> QED BY <1>1, StaysGuided, PTL

-----------------------------------------------------------------------------
(* What a certified crawl has not missed. *)

\* Nothing that forbids to certify the crawl has happened yet.
Unblamed == problems = {} /\ ~expired /\ phase # "failed"

\* The routes that were visited, left out or wait, and the page a route redirects to.
RoutesIn(rows) == {rows[n].route : n \in DOMAIN rows}
Settled == visited \cup tooDeep \cup RoutesIn(queue)
Redirect(r) == RouteOf[app.entry[r]]

\* The routes that must be settled; the known ones of a module once it is entered.
Tracked ==
    IF scope # "module" THEN known \cap Admitted
    ELSE IF phase \in {"start", "enter"} THEN dynamic ELSE Admitted

RoutesKept ==
    \A r \in Tracked : r \in Settled \/ Redirect(r) \in Settled \/ Redirect(r) \notin Admitted

\* A page registered was explored, waits, is being explored or was passed on the way in.
Waits(p) == \E row \in ToSet(pending) : row.page = p
Entered(p) == p \in ToSet(entered) /\ (phase = "enter" \/ p # Last(entered))

PagesKept ==
    \A p \in DOMAIN path \ tooDeep : p \in explored \/ Waits(p) \/ (Busy /\ work.page = p) \/ Entered(p)

\* An exploration saved goes by the trajectory of its page or by one that a shorter has
\* replaced, and left nothing.
SavedWell(x) ==
    /\ x.page \in DOMAIN path /\ x.path \in Trajectory /\ LeftNothing(x)
    /\ x.path = path[x.page] \/ Depth(path[x.page]) < Depth(x.path)

AllSaved ==
    /\ \A p \in explored : \E x \in explorations : x.page = p
    /\ \A x \in explorations : SavedWell(x)

\* An event tried shows nothing in scope, or its transition or error is recorded, or its
\* result is still to be registered.
Recorded(e) ==
    LET q == Opens(work.page, e)
    IN \/ q = None \/ ~ResultInScope(work.routes, work.path, e, q)
       \/ <<work.page, e, q>> \in flow
       \/ \E r \in ToSet(work.results) : r.event = e /\ r.error # None

InTurn(e) == \E r \in ToSet(work.todo) : r.event = e /\ r.to = Opens(work.page, e)

WorkCandidates == ToSet(Candidates(work.page, work.path))

Tries ==
    Busy =>
        /\ work.path = path[work.page] /\ work.routes \subseteq RouteScope
        /\ phase = "explore" =>
              /\ \A e \in WorkCandidates :
                    e \in ToSet(work.todo) \/ \E r \in ToSet(work.results) : r.event = e
              /\ \A r \in ToSet(work.results) :
                    r.error = None => r.to = Opens(work.page, r.event)
        /\ phase = "register" => \A e \in WorkCandidates : Recorded(e) \/ InTurn(e)

Complete == RoutesKept /\ PagesKept /\ AllSaved /\ Tries

\* What is pushed is queued, what awaits its turn waits.
LEMMA PushElements ==
    ASSUME NEW rest \in Seq(RouteRow), NEW seen, NEW links \in Seq(Allowed), NEW depth \in Nat
    PROVE  /\ RoutesIn(rest) \subseteq RoutesIn(Push(rest, seen, links, depth))
           /\ ToSet(links) \subseteq seen \cup RoutesIn(Push(rest, seen, links, depth))
  <1> DEFINE queued == {rest[n].route : n \in DOMAIN rest}
             S == ToSet(links) \ (seen \cup queued)
             w == Within(links, S)
             new == [n \in DOMAIN w |-> [route |-> w[n], depth |-> depth]]
  <1>1. PICK u : u = Push(rest, seen, links, depth)
    OBVIOUS
  <1>2. u = rest \o new
    BY <1>1 DEF Push
  <1>3. S \subseteq ToSet(links) /\ queued = RoutesIn(rest)
    BY DEF RoutesIn
  <1>4. ToSet(links) \subseteq seen \cup queued \cup S
    OBVIOUS
  <1> HIDE DEF S, queued
  <1>5. ToSet(w) = S /\ w \in Seq(ToSet(links) \cap S)
    <2>1. ToSet(w) = ToSet(links) \cap S /\ w \in Seq(ToSet(links) \cap S)
      BY WithinElements
    <2> HIDE DEF w
    <2> QED BY <1>3, <2>1
  <1> HIDE DEF w
  <1>6. PICK m \in Nat : m = Len(w) /\ DOMAIN w = 1 .. m
    BY <1>5
  <1>7. PICK l \in Nat : l = Len(rest) /\ DOMAIN rest = 1 .. l
    OBVIOUS
  <1>8. DOMAIN new = 1 .. m /\ Len(new) = m /\ \A n \in 1 .. m : new[n] = [route |-> w[n], depth |-> depth]
    BY <1>6
  <1> HIDE DEF new
  <1>9. new \in Seq(RouteRow)
    <2>1. \A n \in 1 .. m : w[n] \in Allowed
      BY <1>3, <1>5, <1>6 DEF ToSet
    <2>2. \A n \in 1 .. m : new[n] \in RouteRow
      BY <1>8, <2>1 DEF RouteRow
    <2>3. new = [n \in 1 .. m |-> [route |-> w[n], depth |-> depth]]
      BY <1>6 DEF new
    <2> QED BY <2>2, <2>3
  <1>10. /\ DOMAIN u = 1 .. l + m
         /\ \A n \in 1 .. l : u[n] = rest[n]
         /\ \A n \in 1 .. m : u[l + n] = new[n]
    <2> HIDE DEF RouteRow
    <2>1. PICK v : v = new
      OBVIOUS
    <2>2. v \in Seq(RouteRow) /\ Len(v) = m
      BY <1>8, <1>9, <2>1
    <2>3. /\ u \in Seq(RouteRow) /\ Len(u) = l + m
          /\ \A i \in 1 .. l + m : u[i] = IF i <= l THEN rest[i] ELSE v[i - l]
      BY <1>2, <1>7, <2>1, <2>2, ConcatProperties
    <2>4. DOMAIN u = 1 .. l + m
      BY <2>3
    <2>5. \A n \in 1 .. l : u[n] = rest[n]
      <3>1. \A n \in 1 .. l : n \in 1 .. l + m /\ n <= l
        OBVIOUS
      <3> QED BY <2>3, <3>1
    <2>6. \A n \in 1 .. m : u[l + n] = v[n]
      <3>1. \A n \in 1 .. m : l + n \in 1 .. l + m /\ ~(l + n <= l) /\ l + n - l = n
        OBVIOUS
      <3> QED BY <2>3, <3>1
    <2> QED BY <2>1, <2>4, <2>5, <2>6
  <1>11. \A n \in 1 .. l : n \in 1 .. l + m
    OBVIOUS
  <1>12. \A n \in 1 .. m : l + n \in 1 .. l + m
    OBVIOUS
  <1>13. RoutesIn(rest) \subseteq RoutesIn(u)
    BY <1>7, <1>10, <1>11 DEF RoutesIn
  <1>14. S \subseteq RoutesIn(u)
    <2> SUFFICES ASSUME NEW r \in S PROVE r \in RoutesIn(u)
      OBVIOUS
    <2>1. PICK n \in 1 .. m : w[n] = r
      BY <1>5, <1>6 DEF ToSet
    <2>2. u[l + n].route = r
      BY <1>8, <1>10, <2>1
    <2> QED BY <1>10, <1>12, <2>2 DEF RoutesIn
  <1> QED BY <1>1, <1>3, <1>4, <1>13, <1>14

LEMMA TailRoutes ==
    ASSUME Typed, queue # <<>>
    PROVE  RoutesIn(queue) = {Head(queue).route} \cup RoutesIn(Tail(queue))
  <1>1. queue \in Seq(RouteRow)
    BY DEF Typed
  <1>2. ToSet(queue) = {Head(queue)} \cup ToSet(Tail(queue))
    BY <1>1, TailElements
  <1>3. \A rows : RoutesIn(rows) = {row.route : row \in ToSet(rows)}
    BY DEF RoutesIn, ToSet
  <1> QED BY <1>2, <1>3

LEMMA AwaitElements ==
    ASSUME Typed, NEW p, NEW t
    PROVE  /\ ToSet(pending) \subseteq ToSet(Await(p, t))
           /\ p \in explored \/ \E row \in ToSet(Await(p, t)) : row.page = p
  <1>1. CASE p \in explored \/ \E n \in DOMAIN pending : pending[n].page = p
    BY <1>1 DEF Await, ToSet
  <1>2. CASE ~(p \in explored \/ \E n \in DOMAIN pending : pending[n].page = p)
    <2>1. PICK row : row = [page |-> p, depth |-> Depth(t)]
      OBVIOUS
    <2>2. Await(p, t) = Append(pending, row) /\ row.page = p
      BY <1>2, <2>1 DEF Await
    <2>3. pending \in Seq(StateRow)
      BY DEF Typed
    <2> QED BY <2>2, <2>3, AppendElements
  <1> QED BY <1>1, <1>2

\* An exploration that raises is to blame, as what was before stays.
LEMMA HandledBlames ==
    ASSUME Inv, phase = "register", NEW marked, Handled(marked)
    PROVE  problems \subseteq problems' /\ expired' = expired /\ ~Unblamed'
  <1>1. /\ phase' = IF work.origin = "start" THEN "failed" ELSE work.origin
        /\ problems' = CASE work.origin = "start" -> problems
                         [] work.origin = "routes" -> problems \cup {"navigation"}
                         [] work.origin = "states" -> problems \cup {"exploration"}
        /\ UNCHANGED env
    BY DEF Handled
  <1>2. work.origin \in {"start", "routes", "states"}
    BY WorkFacts DEF Busy
  <1>3. CASE work.origin = "start"
    BY <1>1, <1>3 DEF Unblamed, env
  <1>4. CASE work.origin = "routes"
    BY <1>1, <1>4 DEF Unblamed, env
  <1>5. CASE work.origin = "states"
    BY <1>1, <1>5 DEF Unblamed, env
  <1> QED BY <1>2, <1>3, <1>4, <1>5

\* A crawl to blame stays one.
LEMMA UnblamedBefore ==
    ASSUME Inv, Unblamed', [Next]_vars PROVE Unblamed
  <1> DEFINE blame == problems \subseteq problems' /\ (expired => expired')
                      /\ (phase = "failed" => phase' = "failed")
  <1>1. StartFull \/ StartScreen \/ StartModule \/ EnterMenu \/ EnterModule => blame
    BY DEF StartFull, StartScreen, StartModule, EnterMenu, EnterModule, env
  <1>2. Top \/ SkipRoute \/ LoseRoute \/ VisitRoute \/ EndRoutes => blame
    BY DEF Top, SkipRoute, LoseRoute, VisitRoute, EndRoutes, NextTarget, env
  <1>3. LosePage \/ ClickFails \/ Click \/ EndTries \/ RegisterContent \/ RegisterPage => blame
    BY DEF LosePage, ClickFails, Click, EndTries, RegisterContent, RegisterPage, env
  <1>4. ASSUME LoseState \/ ExploreState PROVE blame
    <2>1. /\ phase = "states" /\ UNCHANGED env
          /\ problems' = problems \/ problems' = problems \cup {"dynamic restore"}
      BY <1>4, Zenon DEF LoseState, ExploreState, NextState
    <2> QED BY <2>1 DEF env
  <1>9. ASSUME EndRound PROVE blame
    <2>1. /\ phase = "states" /\ UNCHANGED env
          /\ problems' = problems \/ problems' = problems \cup {"stalled"}
      BY <1>9, Zenon DEF EndRound
    <2> QED BY <2>1 DEF env
  <1>5. ASSUME FinishExploration PROVE blame
    <2> DEFINE lost == \E n \in DOMAIN work.results : work.results[n].error = "restore"
    <2>1. /\ problems' = IF lost THEN problems \cup {"restore"} ELSE problems
          /\ phase = "register" /\ UNCHANGED env
      BY <1>5 DEF FinishExploration
    <2> HIDE DEF lost
    <2> QED BY <2>1 DEF env
  <1>6. FailStart \/ Expire \/ UNCHANGED vars => blame
    BY DEF FailStart, Expire, vars, env
  <1>7. ASSUME BreakRegistration \/ BreakExploration PROVE blame
    <2>1. phase = "register" /\ \E marked : Handled(marked)
      BY <1>7 DEF BreakRegistration, BreakExploration
    <2> QED BY <2>1, HandledBlames
  <1>10. ASSUME BreakCapture PROVE blame
    BY <1>10 DEF BreakCapture, NextTarget, env
  <1>8. blame
    <2> HIDE DEF blame
    <2> QED BY <1>1, <1>2, <1>3, <1>4, <1>5, <1>6, <1>7, <1>9, <1>10 DEF Next, Crawler
  <1> QED BY <1>8 DEF Unblamed, Inv, Typed

\* A redirect opens the same again; what is tracked is admitted.
LEMMA RedirectFacts ==
    ASSUME Typed
    PROVE  /\ Tracked \subseteq Admitted /\ Admitted \subseteq DOMAIN app.entry
           /\ \A r \in DOMAIN app.entry : Redirect(Redirect(r)) = Redirect(r)
  <1>1. Admitted \subseteq DOMAIN app.entry
    BY AppFacts DEF Admitted
  <1>2. \A r \in DOMAIN app.entry : Redirect(Redirect(r)) = Redirect(r)
    BY AppFacts DEF Redirect
  <1>3. scope = "module" => dynamic \subseteq Admitted
    BY DEF Typed, Admitted, RouteScope
  <1> QED BY <1>1, <1>2, <1>3 DEF Tracked

\* Routes that are known or admitted only when they are settled.
LEMMA RoutesKeptStep ==
    ASSUME RoutesKept, app' = app, Settled \subseteq Settled', Admitted' \subseteq Admitted \cup Settled',
           Tracked' \subseteq Tracked \cup Settled'
    PROVE  RoutesKept'
  <1>1. \A r : Redirect(r)' = Redirect(r)
    BY DEF Redirect
  <1> HIDE DEF Settled, Admitted, Tracked, Redirect
  <1> QED BY <1>1 DEF RoutesKept

\* A route taken from the frontier: where it redirects is settled or out of scope.
LEMMA RoutesKeptTaken ==
    ASSUME Typed, RoutesKept, UNCHANGED <<app, scope, dynamic>>, NEW r0,
           Settled \subseteq Settled' \cup {r0}, Tracked' \subseteq Tracked \cup Settled',
           r0 \in Admitted \ Settled' =>
               Redirect(r0) \in Settled' \/ Redirect(r0) \notin Admitted
    PROVE  RoutesKept'
  <1>1. Admitted' = Admitted /\ \A r : Redirect(r)' = Redirect(r)
    BY DEF Admitted, RouteScope, Redirect
  <1>2. SUFFICES ASSUME NEW r \in Tracked \ Settled', Redirect(r) \in Admitted
                 PROVE  Redirect(r) \in Settled'
    BY <1>1 DEF RoutesKept
  <1>3. r \in Admitted /\ Redirect(Redirect(r)) = Redirect(r)
    BY RedirectFacts
  <1>4. r \in Settled \/ Redirect(r) \in Settled
    BY <1>2 DEF RoutesKept
  <1> HIDE DEF Settled, Admitted, Tracked, Redirect
  <1>5. CASE r = r0
    BY <1>2, <1>3, <1>5
  <1>6. CASE Redirect(r) = r0
    BY <1>2, <1>3, <1>6
  <1> QED BY <1>2, <1>4, <1>5, <1>6

\* The links that an event shows are settled and known, or extend the module.
LEMMA RegisterLinksRoutes ==
    ASSUME Typed, RoutesKept, UNCHANGED <<app, scope, visited, phase>>, tooDeep \subseteq tooDeep',
           NEW base, NEW p, NEW e, NEW q \in Page, NEW t, NEW depth \in Nat,
           RegisterLinks(base, p, e, q, t, depth)
    PROVE  RoutesKept'
  <1>1. PICK links : links = LinksShown(p, e, q, t)
    OBVIOUS
  <1>2. links \in Seq(Allowed) /\ depth + 1 \in Nat /\ queue \in Seq(RouteRow)
    <2>1. links \in Seq(Allowed)
      BY <1>1, LinksFacts
    <2>2. queue \in Seq(RouteRow)
      BY DEF Typed
    <2> QED BY <2>1, <2>2
  <1>3. /\ known' = known \cup ToSet(links) /\ queue' = Push(queue, visited, links, depth + 1)
        /\ dynamic' = IF scope = "module" THEN dynamic \cup (ToSet(links) \ ToSet(Known)) ELSE dynamic
    BY <1>1 DEF RegisterLinks
  <1>4. RoutesIn(queue) \subseteq RoutesIn(queue') /\ ToSet(links) \subseteq visited \cup RoutesIn(queue')
    BY <1>2, <1>3, PushElements
  <1>5. RoutesIn(queue') = RoutesIn(queue)'
    BY DEF RoutesIn
  <1> HIDE DEF RoutesIn
  <1>6. Settled \subseteq Settled' /\ ToSet(links) \subseteq Settled'
    BY <1>4, <1>5 DEF Settled
  <1>7. Admitted' \subseteq Admitted \cup ToSet(links)
    BY <1>3 DEF Admitted, RouteScope
  <1>8. Tracked' \subseteq Tracked \cup ToSet(links)
    <2>1. CASE scope # "module"
      <3>1. Admitted' = Admitted
        BY <1>3, <2>1 DEF Admitted, RouteScope
      <3> QED BY <1>3, <2>1, <3>1 DEF Tracked
    <2>2. CASE scope = "module"
      BY <1>3, <1>7, <2>2 DEF Tracked
    <2> QED BY <2>1, <2>2
  <1> QED BY <1>6, <1>7, <1>8, RoutesKeptStep

\* What is tried on a page and what of it is in scope depend on the application only.
LEMMA OperatorsKept ==
    ASSUME app' = app, scope' = scope
    PROVE  /\ \A p, t : Candidates(p, t)' = Candidates(p, t)
           /\ \A routes, t, e, q : ResultInScope(routes, t, e, q)' <=> ResultInScope(routes, t, e, q)
           /\ \A p, e : Opens(p, e)' = Opens(p, e)
  BY DEF Candidates, Openers, Categories, Inside, ResultInScope, Opens

LEMMA WorkCandidatesKept ==
    ASSUME app' = app, scope' = scope, work'.page = work.page, work'.path = work.path
    PROVE  WorkCandidates' = WorkCandidates
  <1>1. Candidates(work.page, work.path)' = Candidates(work.page, work.path)
    BY DEF Candidates, Openers, Categories, Inside
  <1> HIDE DEF Candidates
  <1> QED BY <1>1 DEF WorkCandidates, ToSet

LEMMA RecordedKept ==
    ASSUME app' = app, scope' = scope, work'.page = work.page, work'.path = work.path,
           work'.routes = work.routes, flow \subseteq flow', ToSet(work.results) \subseteq ToSet(work'.results)
    PROVE  \A e : Recorded(e) => Recorded(e)'
  <1>1. ToSet(work.results)' = ToSet(work'.results)
    BY DEF ToSet
  <1>2. \A e : ResultInScope(work.routes, work.path, e, Opens(work.page, e))' <=>
                  ResultInScope(work.routes, work.path, e, Opens(work.page, e))
    BY DEF ResultInScope, Inside, Opens
  <1>3. \A e : Opens(work.page, e)' = Opens(work.page, e)
    BY DEF Opens
  <1> HIDE DEF ResultInScope, Opens
  <1> QED BY <1>1, <1>2, <1>3 DEF Recorded

\* What an exploration left stays left, and its trajectory can only be replaced by
\* shorter ones.
LEMMA SavedKept ==
    ASSUME app' = app, scope' = scope, flow \subseteq flow', Rooted, Rooted',
           \A p \in DOMAIN path :
               p \in DOMAIN path' /\ (path'[p] = path[p] \/ Depth(path'[p]) < Depth(path[p]))
    PROVE  \A x : SavedWell(x) => SavedWell(x)'
  <1> SUFFICES ASSUME NEW x, SavedWell(x) PROVE SavedWell(x)'
    OBVIOUS
  <1>1. \A p, t : Candidates(p, t)' = Candidates(p, t)
    BY OperatorsKept
  <1>2. \A routes, t, e, q : ResultInScope(routes, t, e, q)' <=> ResultInScope(routes, t, e, q)
    BY OperatorsKept
  <1>3. \A p, e : Opens(p, e)' = Opens(p, e)
    BY OperatorsKept
  <1>4. LeftNothing(x)'
    <2> HIDE DEF Candidates, ResultInScope, Opens
    <2> QED BY <1>1, <1>2, <1>3 DEF LeftNothing, SavedWell
  <1>5. x.path = path'[x.page] \/ Depth(path'[x.page]) < Depth(x.path)
    <2>1. /\ x.page \in DOMAIN path /\ x.path \in Trajectory
          /\ x.path = path[x.page] \/ Depth(path[x.page]) < Depth(x.path)
      BY DEF SavedWell
    <2>2. x.page \in DOMAIN path' /\ (path'[x.page] = path[x.page] \/ Depth(path'[x.page]) < Depth(path[x.page]))
      BY <2>1
    <2>3. path[x.page] \in Trajectory /\ path'[x.page] \in Trajectory
      BY <2>1, <2>2 DEF Rooted, Sound, Trajectory, Step
    <2>4. Depth(path[x.page]) \in Nat /\ Depth(path'[x.page]) \in Nat /\ Depth(x.path) \in Nat
      BY <2>1, <2>3, MenusShort
    <2> HIDE DEF Depth
    <2> QED BY <2>1, <2>2, <2>4
  <1> HIDE DEF LeftNothing
  <1> QED BY <1>4, <1>5 DEF SavedWell, Depth, Trajectory, Step, Event

LEMMA AllSavedKept ==
    ASSUME AllSaved, app' = app, scope' = scope, flow \subseteq flow', Rooted, Rooted',
           explored' = explored, explorations' = explorations,
           \A p \in DOMAIN path :
               p \in DOMAIN path' /\ (path'[p] = path[p] \/ Depth(path'[p]) < Depth(path[p]))
    PROVE  AllSaved'
  <1>1. \A x : SavedWell(x) => SavedWell(x)'
    BY SavedKept
  <1> HIDE DEF SavedWell
  <1> QED BY <1>1 DEF AllSaved

\* A page begins to be explored, by its trajectory and with the routes in scope.
LEMMA TriesExplore ==
    ASSUME UNCHANGED <<app, scope, dynamic>>, NEW p, NEW t, path'[p] = t, NEW depth, NEW origin,
           work' = Explore(p, t, depth, origin), phase' = "explore"
    PROVE  Tries'
  <1>1. /\ work'.page = p /\ work'.path = t /\ work'.routes = RouteScope
        /\ work'.todo = Candidates(p, t) /\ ToSet(work'.results) = {}
    BY ExploreParts
  <1>2. Candidates(p, t)' = Candidates(p, t)
    BY DEF Candidates, Openers, Categories, Inside
  <1>3. WorkCandidates' = ToSet(work'.todo)
    <2>1. Candidates(work.page, work.path)' = Candidates(p, t)
      BY <1>1 DEF Candidates, Openers, Categories, Inside
    <2> HIDE DEF Candidates
    <2> QED BY <1>1, <2>1 DEF WorkCandidates, ToSet
  <1>4. RouteScope' = RouteScope
    BY DEF RouteScope
  <1>5. ToSet(work'.todo) = ToSet(work.todo)' /\ ToSet(work'.results) = ToSet(work.results)'
    BY DEF ToSet
  <1> HIDE DEF WorkCandidates, RouteScope
  <1> QED BY <1>1, <1>3, <1>4, <1>5 DEF Tries

\* No page is registered, nothing begins or ends to be explored.
LEMMA PagesStill ==
    ASSUME PagesKept, DOMAIN path' = DOMAIN path, tooDeep \subseteq tooDeep', explored \subseteq explored',
           pending' = pending, entered' = entered, ~Busy, phase # "enter"
    PROVE  PagesKept'
  <1>1. \A p : Waits(p)' <=> Waits(p)
    BY DEF Waits, ToSet
  <1>2. \A p : Entered(p) => Entered(p)'
    BY DEF Entered, ToSet, Last
  <1> HIDE DEF Waits, Entered
  <1> QED BY <1>1, <1>2 DEF PagesKept

\* The crawler goes on, with the same graphs and frontiers.
LEMMA CompleteStill ==
    ASSUME Complete, Rooted, UNCHANGED <<app, scope, expired, entered, frontiers, graphs>>, ~Busy, ~Busy',
           phase \notin {"start", "enter"}, phase' \notin {"start", "enter"}
    PROVE  Complete'
  <1>1. RoutesKept'
    <2>1. Settled' = Settled /\ Admitted' = Admitted /\ Tracked' = Tracked
      BY DEF Settled, RoutesIn, Admitted, RouteScope, Tracked, frontiers, graphs
    <2> QED BY <2>1, RoutesKeptStep DEF Complete
  <1>2. PagesKept'
    BY PagesStill DEF Complete, frontiers, graphs
  <1>3. AllSaved'
    <2>1. Rooted'
      BY SoundKept DEF Rooted, graphs
    <2> QED BY <2>1, AllSavedKept DEF Complete, frontiers, graphs
  <1>4. Tries'
    BY DEF Tries
  <1> QED BY <1>1, <1>2, <1>3, <1>4 DEF Complete

\* Nothing of it changes.
LEMMA CompleteKept ==
    ASSUME Complete, Rooted, UNCHANGED vars
    PROVE  Complete'
  <1>1. UNCHANGED <<app, scope, expired, phase, entered, frontiers, graphs, work>>
    BY DEF vars, env
  <1>2. RoutesKept'
    <2>1. Settled' = Settled /\ Admitted' = Admitted /\ Tracked' = Tracked
      BY <1>1 DEF Settled, RoutesIn, Admitted, RouteScope, Tracked, frontiers, graphs
    <2> QED BY <1>1, <2>1, RoutesKeptStep DEF Complete
  <1>3. PagesKept'
    <2>1. \A p : (Waits(p) => Waits(p)') /\ (Entered(p) => Entered(p)')
      BY <1>1 DEF Waits, Entered, ToSet, Last, frontiers
    <2> HIDE DEF Waits, Entered
    <2> QED BY <1>1, <2>1 DEF Complete, PagesKept, Busy, frontiers, graphs
  <1>4. AllSaved'
    <2>1. Rooted'
      BY <1>1, SoundKept DEF Rooted, graphs
    <2> QED BY <1>1, <2>1, AllSavedKept DEF Complete, frontiers, graphs
  <1>5. Tries'
    <2>1. WorkCandidates' = WorkCandidates /\ RouteScope' = RouteScope
      BY <1>1, WorkCandidatesKept DEF RouteScope, graphs
    <2>2. \A e : (Recorded(e) => Recorded(e)') /\ (InTurn(e) => InTurn(e)')
      <3>1. \A e : Recorded(e) => Recorded(e)'
        BY <1>1, RecordedKept DEF graphs
      <3>2. \A e : InTurn(e) => InTurn(e)'
        BY <1>1 DEF InTurn, ToSet, Opens
      <3> QED BY <3>1, <3>2
    <2>3. \A p, e : Opens(p, e)' = Opens(p, e)
      BY <1>1 DEF Opens
    <2>4. ToSet(work.todo)' = ToSet(work.todo) /\ ToSet(work.results)' = ToSet(work.results)
      BY <1>1 DEF ToSet
    <2> HIDE DEF WorkCandidates, RouteScope, Recorded, InTurn, Opens
    <2> QED BY <1>1, <2>1, <2>2, <2>3, <2>4 DEF Complete, Tries, Busy, graphs
  <1> QED BY <1>2, <1>3, <1>4, <1>5 DEF Complete

LEMMA InitComplete ==
    ASSUME Init PROVE Complete
  BY DEF Init, Complete, RoutesKept, Tracked, PagesKept, AllSaved, Tries, Busy

\* A screen is captured and its route settled, or its redirect is out of scope.
LEMMA CaptureComplete ==
    ASSUME Inv, Inv', Guided, Complete, Unblamed, NEW r0 \in Allowed, NEW rest \in Seq(RouteRow), NEW depth \in Nat,
           NEW origin \in {"start", "routes"}, RoutesIn(queue) \subseteq RoutesIn(rest) \cup {r0},
           phase = "routes" \/ (phase = "start" /\ scope # "module"),
           Capture(Navigated(r0), rest, depth, origin), UNCHANGED <<env, entered, tooDeep>>
    PROVE  Complete'
  <1>1. PICK p : p = app.entry[r0]
    OBVIOUS
  <1>2. r0 \in DOMAIN app.entry /\ p = Navigated(r0) /\ p \in Page /\ RouteOf[p] = Redirect(r0)
    BY <1>1, AppFacts DEF Inv, Unblamed, Navigated, Redirect
  <1>3. /\ \/ CaptureScreen(p, rest, depth, origin)
           \/ CaptureUnavailable(p, rest, origin)
           \/ CaptureNothing(p, rest, origin)
        /\ UNCHANGED <<pending, explored, nav, flow, dynamic, explorations>>
    BY <1>2 DEF Capture
  <1>4. ~Busy /\ After(origin) \in {"top", "routes"}
    BY DEF Busy, After
  <1>5. /\ visited' = visited \cup {RouteOf[p]} \/ (visited' = visited /\ RouteOf[p] \notin Admitted \ visited)
        /\ RoutesIn(rest) \subseteq RoutesIn(queue')
        /\ known' \subseteq known \cup visited' \cup RoutesIn(queue')
        /\ phase' \in {"top", "routes", "explore"} /\ (phase = "routes" => phase' # "top" \/ origin = "start")
    <2>1. CASE CaptureScreen(p, rest, depth, origin)
      <3>1. ScreenLinks(p) \in Seq(Allowed) /\ depth + 1 \in Nat
        BY <1>2, LinksFacts DEF Inv
      <3>2. /\ visited' = visited \cup {RouteOf[p]} /\ phase' = "explore"
            /\ known' = known \cup {RouteOf[p]} \cup ToSet(ScreenLinks(p))
            /\ queue' = Push(rest, visited', ScreenLinks(p), depth + 1)
        BY <2>1 DEF CaptureScreen
      <3> HIDE DEF RoutesIn, ScreenLinks
      <3> QED BY <3>1, <3>2, PushElements
    <2>2. CASE CaptureUnavailable(p, rest, origin)
      BY <1>4, <2>2 DEF CaptureUnavailable, After
    <2>3. CASE CaptureNothing(p, rest, origin)
      BY <1>4, <2>3 DEF CaptureNothing, After
    <2> QED BY <1>3, <2>1, <2>2, <2>3
  <1>6. RoutesKept'
    <2>1. RoutesIn(queue)' = RoutesIn(queue')
      BY DEF RoutesIn
    <2> HIDE DEF RoutesIn
    <2>2. Settled \subseteq Settled' \cup {r0}
      BY <1>5, <2>1 DEF Settled
    <2>3. Admitted' = Admitted
      BY <1>3 DEF Admitted, RouteScope, env
    <2>4. Tracked' \subseteq Tracked \cup Settled'
      <3>1. CASE scope # "module"
        BY <1>5, <2>1, <2>3, <3>1 DEF Tracked, Settled, env
      <3>2. CASE scope = "module"
        BY <1>5, <2>3, <3>2 DEF Tracked, env
      <3> QED BY <3>1, <3>2
    <2>5. Redirect(r0) \in Settled' \/ Redirect(r0) \notin Admitted
      BY <1>2, <1>5 DEF Settled
    <2> QED BY <1>3, <2>2, <2>4, <2>5, RoutesKeptTaken DEF Inv, Complete, env
  <1>7. CASE CaptureScreen(p, rest, depth, origin)
    <2>1. PICK t : t = RootPath(p)
      OBVIOUS
    <2>2. path' = Register(path, p, t) /\ phase' = "explore" /\ work' = Explore(p, path'[p], depth, origin)
      BY <1>7, <2>1 DEF CaptureScreen
    <2>3. t \in Trajectory
      BY <1>2, <2>1 DEF RootPath, Trajectory
    <2>4. /\ DOMAIN path' = DOMAIN path \cup {p}
          /\ \A o \in DOMAIN path : path'[o] = path[o] \/ Depth(path'[o]) < Depth(path[o])
      BY <2>2, <2>3, RegisterPath DEF Inv
    <2>5. Tries'
      BY <1>3, <2>2, TriesExplore DEF env
    <2>6. AllSaved'
      BY <1>3, <2>4, AllSavedKept DEF Inv, Complete, env
    <2>7. PagesKept'
      <3>1. \A o : (Waits(o) => Waits(o)') /\ (Entered(o) => Entered(o)')
        BY <1>3, <1>4 DEF Waits, Entered, Busy, ToSet, Last
      <3>2. Busy' /\ work'.page = p
        BY <2>2, ExploreParts DEF Busy
      <3> HIDE DEF Waits, Entered
      <3> QED BY <1>3, <1>4, <2>4, <3>1, <3>2 DEF Complete, PagesKept
    <2> QED BY <1>6, <2>5, <2>6, <2>7 DEF Complete
  <1>8. CASE CaptureUnavailable(p, rest, origin) \/ CaptureNothing(p, rest, origin)
    <2>1. path' = path /\ ~Busy' /\ phase # "enter"
      BY <1>4, <1>8 DEF CaptureUnavailable, CaptureNothing, Busy
    <2>2. PagesKept'
      BY <1>3, <1>4, <2>1, PagesStill DEF Complete
    <2>3. AllSaved'
      BY <1>3, <2>1, AllSavedKept DEF Inv, Complete, env
    <2> QED BY <1>6, <2>1, <2>2, <2>3 DEF Complete, Tries
  <1> QED BY <1>3, <1>7, <1>8

\* Home is registered, and shown while the module is entered.
LEMMA StartModuleComplete ==
    ASSUME Inv, Inv', Guided, Complete, Unblamed', StartModule PROVE Complete'
  <1>1. PICK p : p = Navigated(Home)
    OBVIOUS
  <1>2. /\ phase = "start" /\ phase' = "enter" /\ scope = "module"
        /\ path' = Register(path, p, RootPath(p)) /\ entered' = <<p>>
        /\ UNCHANGED <<env, frontiers, nav, flow, dynamic, explorations, work>>
    BY <1>1 DEF StartModule, Unblamed
  <1>3. p \in Page
    BY <1>1, CrawlAssumption, NavigatedFacts, AppFacts DEF Inv
  <1>4. PICK t : t = RootPath(p)
    OBVIOUS
  <1>5. t \in Trajectory
    BY <1>3, <1>4 DEF RootPath, Trajectory
  <1>6. /\ DOMAIN path' = DOMAIN path \cup {p}
        /\ \A o \in DOMAIN path : path'[o] = path[o] \/ Depth(path'[o]) < Depth(path[o])
    BY <1>2, <1>4, <1>5, RegisterPath DEF Inv
  <1>7. RoutesKept'
    <2>1. Settled' = Settled /\ Admitted' = Admitted /\ Tracked' = Tracked
      BY <1>2 DEF Settled, RoutesIn, Admitted, RouteScope, Tracked, frontiers, env
    <2> QED BY <1>2, <2>1, RoutesKeptStep DEF Complete, env
  <1>8. PagesKept'
    <2>1. ToSet(entered) = {} /\ p \in ToSet(entered')
      <3>1. entered = <<>>
        BY <1>2 DEF Guided, Entering
      <3> QED BY <1>2, <3>1 DEF ToSet
    <2>2. ToSet(entered') = ToSet(entered)' /\ \A o : Waits(o)' <=> Waits(o)
      BY <1>2 DEF ToSet, Waits, frontiers
    <2>3. ~Busy /\ ~Busy'
      BY <1>2 DEF Busy
    <2> HIDE DEF Waits
    <2> QED BY <1>2, <1>6, <2>1, <2>2, <2>3 DEF Complete, PagesKept, Entered, frontiers
  <1>9. AllSaved'
    BY <1>2, <1>6, AllSavedKept DEF Inv, Complete, env, frontiers
  <1>10. Tries'
    BY <1>2 DEF Tries, Busy
  <1> QED BY <1>7, <1>8, <1>9, <1>10 DEF Complete

\* A menu of the way in shows a page, which is registered.
LEMMA EnterMenuComplete ==
    ASSUME Inv, Inv', Guided, Complete, Unblamed', EnterMenu PROVE Complete'
  <1>1. PICK e : e = EntryPath[Len(entered)]
    OBVIOUS
  <1>2. PICK q : q = IF Opens(browser, e) = None THEN browser ELSE Clicked(browser, e)
    OBVIOUS
  <1>3. PICK t : t = PathTo(browser, e, q)
    OBVIOUS
  <1>4. PICK depth : depth = Len(entered) - 1
    OBVIOUS
  <1>5. /\ phase = "enter" /\ phase' = "enter" /\ Len(entered) <= Len(EntryPath)
        /\ UNCHANGED <<env, visited, tooDeep, pending, explored, explorations, work>>
        /\ path' = Register(path, q, t) /\ flow' = flow \cup {<<browser, e, q>>}
        /\ RegisterLinks(Home, browser, e, q, path'[q], depth)
        /\ entered' = Append(entered, q)
    BY <1>1, <1>2, <1>3, <1>4 DEF EnterMenu, Unblamed
  <1>6. browser \in DOMAIN path /\ browser \in Page /\ entered \in Seq(Page) /\ entered # <<>>
    BY <1>5 DEF Inv, Typed
  <1>7. depth \in Nat
    BY <1>4, <1>6
  <1>8. q \in Page
    BY <1>2, <1>6, ClickedFacts DEF Inv
  <1>9. /\ DOMAIN path' = DOMAIN path \cup {q}
        /\ \A o \in DOMAIN path : path'[o] = path[o] \/ Depth(path'[o]) < Depth(path[o])
    <2>1. CASE q = browser
      <3>1. path' = path
        BY <1>3, <1>5, <1>6, <2>1, RegisterLonger DEF Inv
      <3> QED BY <1>6, <2>1, <3>1
    <2>2. CASE q # browser
      <3>1. e \in Event
        <4>1. e \in EventsOf({"expand_menu"})
          <5>1. Len(entered) \in 1 .. Len(EntryPath)
            <6>1. Len(entered) \in Nat \ {0} /\ Len(EntryPath) \in Nat
              BY <1>6, CrawlAssumption
            <6> QED BY <1>5, <6>1
          <5> QED BY <1>1, <5>1, CrawlAssumption
        <4> QED BY <4>1 DEF EventsOf, Event
      <3>2. t \in Trajectory
        <4>1. PICK b : b = path[browser]
          OBVIOUS
        <4>2. PICK row : row = [event |-> e, to |-> q]
          OBVIOUS
        <4>3. b \in Trajectory
          BY <1>6, <4>1 DEF Inv, Rooted, Sound
        <4>4. b \in [root : Page, steps : Seq(Step)] /\ row \in Step
          BY <1>8, <3>1, <4>2, <4>3 DEF Trajectory, Step
        <4>5. PICK v : v = Append(b.steps, row)
          OBVIOUS
        <4>6. v \in Seq(Step)
          BY <4>4, <4>5, AppendProperties
        <4>7. t = [b EXCEPT !.steps = v]
          BY <1>3, <4>1, <4>2, <4>5 DEF PathTo, Extend
        <4> QED BY <4>4, <4>6, <4>7 DEF Trajectory
      <3> QED BY <1>5, <3>2, RegisterPath DEF Inv
    <2> QED BY <2>1, <2>2
  <1>10. RoutesKept'
    BY <1>5, <1>7, <1>8, RegisterLinksRoutes DEF Inv, Complete, env
  <1>11. PagesKept'
    <2>1. ToSet(entered') = ToSet(entered) \cup {q} /\ ToSet(entered') = ToSet(entered)'
      BY <1>5, <1>6, AppendElements DEF ToSet
    <2>2. \A o : Waits(o)' <=> Waits(o)
      BY <1>5 DEF ToSet, Waits
    <2>3. ~Busy /\ ~Busy'
      BY <1>5 DEF Busy
    <2> HIDE DEF Waits
    <2> QED BY <1>5, <1>9, <2>1, <2>2, <2>3 DEF Complete, PagesKept, Entered
  <1>12. AllSaved'
    BY <1>5, <1>9, AllSavedKept DEF Inv, Complete, env
  <1>13. Tries'
    BY <1>5 DEF Tries, Busy
  <1> QED BY <1>10, <1>11, <1>12, <1>13 DEF Complete

\* The known screens are queued and the page entered waits: the module is in reach.
LEMMA EnterModuleComplete ==
    ASSUME Inv, Inv', Guided, Complete, EnterModule PROVE Complete'
  <1>1. /\ phase = "enter" /\ phase' = "top"
        /\ queue' = Push(queue, visited, Known, 0) /\ pending' = Await(browser, path[browser])
        /\ UNCHANGED <<env, entered, visited, tooDeep, explored, graphs, work>>
    BY DEF EnterModule
  <1>2. scope = "module" /\ browser = Last(entered)
    BY <1>1 DEF Guided, Entering
  <1>3. queue \in Seq(RouteRow) /\ Known \in Seq(Allowed)
    BY CrawlAssumption DEF Inv, Typed
  <1>4. RoutesKept'
    <2>1. RoutesIn(queue) \subseteq RoutesIn(queue') /\ ToSet(Known) \subseteq visited \cup RoutesIn(queue')
      BY <1>1, <1>3, PushElements
    <2>2. RoutesIn(queue') = RoutesIn(queue)'
      BY DEF RoutesIn
    <2> HIDE DEF RoutesIn
    <2>3. Settled \subseteq Settled' /\ ToSet(Known) \subseteq Settled'
      BY <1>1, <2>1, <2>2 DEF Settled
    <2>4. Admitted' = Admitted /\ Admitted \subseteq ToSet(Known) \cup dynamic
      BY <1>1, <1>2 DEF Admitted, RouteScope, env, graphs
    <2>5. Tracked' \subseteq Tracked \cup ToSet(Known)
      BY <1>1, <1>2, <2>4 DEF Tracked, env
    <2> QED BY <1>1, <2>3, <2>4, <2>5, RoutesKeptStep DEF Complete, env
  <1>5. PagesKept'
    <2>1. /\ ToSet(pending) \subseteq ToSet(pending')
          /\ browser \in explored \/ \E row \in ToSet(pending') : row.page = browser
      BY <1>1, AwaitElements DEF Inv
    <2>2. ToSet(pending') = ToSet(pending)' /\ ToSet(entered)' = ToSet(entered) /\ Last(entered)' = Last(entered)
      BY <1>1 DEF ToSet, Last
    <2>3. ~Busy
      BY <1>1 DEF Busy
    <2>4. SUFFICES ASSUME NEW p \in DOMAIN path \ tooDeep
                   PROVE  p \in explored \/ Waits(p)' \/ Entered(p)'
      BY <1>1 DEF PagesKept, graphs
    <2>5. p \in explored \/ Waits(p) \/ p \in ToSet(entered)
      BY <2>3 DEF Complete, PagesKept, Entered
    <2>6. CASE p = browser
      BY <2>1, <2>2, <2>6 DEF Waits
    <2>7. CASE p # browser /\ p \in ToSet(entered)
      BY <1>2, <2>2, <2>7 DEF Entered
    <2>8. CASE Waits(p)
      BY <2>1, <2>2, <2>8 DEF Waits
    <2> QED BY <2>5, <2>6, <2>7, <2>8
  <1>6. AllSaved'
    BY <1>1, AllSavedKept DEF Inv, Complete, env, graphs
  <1>7. Tries'
    BY <1>1 DEF Tries, Busy
  <1> QED BY <1>4, <1>5, <1>6, <1>7 DEF Complete

\* A route is passed over: it is visited, too deep or out of scope.
LEMMA SkipRouteComplete ==
    ASSUME Inv, Inv', Complete, SkipRoute PROVE Complete'
  <1>1. PICK row : row = Head(queue)
    OBVIOUS
  <1>2. PICK r0 : r0 = row.route
    OBVIOUS
  <1>3. /\ phase = "routes" /\ queue # <<>> /\ queue' = Tail(queue) /\ Skipped(row)
        /\ tooDeep' = IF row.depth > MaxDepth THEN tooDeep \cup {r0} ELSE tooDeep
        /\ UNCHANGED <<env, phase, entered, visited, pending, explored, graphs, work>>
    BY <1>1, <1>2 DEF SkipRoute, NextTarget
  <1>4. RoutesIn(queue) = {r0} \cup RoutesIn(queue')
    BY <1>1, <1>2, <1>3, TailRoutes DEF Inv
  <1>5. RoutesKept'
    <2>1. Settled \subseteq Settled' \cup {r0}
      <3>1. RoutesIn(queue)' = RoutesIn(queue')
        BY DEF RoutesIn
      <3> HIDE DEF RoutesIn
      <3> QED BY <1>3, <1>4, <3>1 DEF Settled
    <2>2. Tracked' = Tracked
      BY <1>3 DEF Tracked, Admitted, RouteScope, env, graphs
    <2>3. r0 \in Settled' \/ r0 \notin Admitted
      BY <1>2, <1>3 DEF Skipped, Settled
    <2> HIDE DEF Settled, Admitted, Tracked
    <2> QED BY <1>3, <2>1, <2>2, <2>3, RoutesKeptTaken DEF Inv, Complete, env, graphs
  <1>6. PagesKept'
    BY <1>3, PagesStill DEF Complete, Busy, graphs
  <1>7. AllSaved'
    BY <1>3, AllSavedKept DEF Inv, Complete, env, graphs
  <1>8. Tries'
    BY <1>3 DEF Tries, Busy
  <1> QED BY <1>5, <1>6, <1>7, <1>8 DEF Complete

\* The crawl begins at home or at its screen, or goes on with a route.
LEMMA StartFullComplete ==
    ASSUME Inv, Inv', Guided, Complete, Unblamed, StartFull PROVE Complete'
  <1>1. /\ phase = "start" /\ scope = "full" /\ Capture(Navigated(Home), queue, 0, "start")
        /\ UNCHANGED <<env, entered, tooDeep>>
    BY DEF StartFull
  <1>2. queue \in Seq(RouteRow) /\ Home \in Allowed /\ RoutesIn(queue) \subseteq RoutesIn(queue) \cup {Home}
    BY CrawlAssumption DEF Inv, Typed
  <1> QED BY <1>1, <1>2, CaptureComplete

LEMMA StartScreenComplete ==
    ASSUME Inv, Inv', Guided, Complete, Unblamed, Unblamed', StartScreen PROVE Complete'
  <1>1. /\ phase = "start" /\ scope = "screen" /\ Capture(Navigated(Target), queue, 0, "start")
        /\ UNCHANGED <<env, entered, tooDeep>>
    BY DEF StartScreen, Unblamed
  <1>2. queue \in Seq(RouteRow) /\ Target \in Allowed /\ RoutesIn(queue) \subseteq RoutesIn(queue) \cup {Target}
    BY CrawlAssumption DEF Inv, Typed
  <1> QED BY <1>1, <1>2, CaptureComplete

LEMMA VisitRouteComplete ==
    ASSUME Inv, Inv', Guided, Complete, Unblamed, VisitRoute PROVE Complete'
  <1>1. PICK row : row = Head(queue)
    OBVIOUS
  <1>2. PICK rest : rest = Tail(queue)
    OBVIOUS
  <1>3. /\ phase = "routes" /\ queue # <<>> /\ Capture(Navigated(row.route), rest, row.depth, "routes")
        /\ UNCHANGED <<env, entered, tooDeep>>
    BY <1>1, <1>2 DEF VisitRoute, NextTarget
  <1>4. row \in RouteRow /\ rest \in Seq(RouteRow)
    BY <1>1, <1>2, <1>3, FrontierFacts DEF Inv
  <1>5. row.route \in Allowed /\ row.depth \in Nat
    BY <1>4 DEF RouteRow
  <1>6. RoutesIn(queue) \subseteq RoutesIn(rest) \cup {row.route}
    BY <1>1, <1>2, <1>3, TailRoutes DEF Inv
  <1>7. PICK r0 : r0 = row.route
    OBVIOUS
  <1>8. PICK depth : depth = row.depth
    OBVIOUS
  <1> QED BY <1>3, <1>4, <1>5, <1>6, <1>7, <1>8, CaptureComplete

\* While a page is explored the graphs and the frontiers wait for its results.
LEMMA WorkStill ==
    ASSUME Complete, Rooted, UNCHANGED <<app, scope, expired, entered, frontiers, graphs>>, Busy, Busy',
           work'.page = work.page
    PROVE  RoutesKept' /\ PagesKept' /\ AllSaved'
  <1>1. RoutesKept'
    <2>1. Settled' = Settled /\ Admitted' = Admitted /\ Tracked' = Tracked
      BY DEF Settled, RoutesIn, Admitted, RouteScope, Tracked, Busy, frontiers, graphs
    <2> QED BY <2>1, RoutesKeptStep DEF Complete
  <1>2. PagesKept'
    <2>1. \A p : (Waits(p) => Waits(p)') /\ (Entered(p) => Entered(p)')
      BY DEF Waits, Entered, ToSet, Last, Busy, frontiers
    <2> HIDE DEF Waits, Entered
    <2> QED BY <2>1 DEF Complete, PagesKept, frontiers, graphs
  <1>3. AllSaved'
    <2>1. Rooted'
      BY SoundKept DEF Rooted, graphs
    <2> QED BY <2>1, AllSavedKept DEF Complete, frontiers, graphs
  <1> QED BY <1>1, <1>2, <1>3

\* A candidate is tried: what it opens is its result, or an error is.
LEMMA TriedComplete ==
    ASSUME Inv, Complete, phase = "explore", work.todo # <<>>, phase' = phase,
           UNCHANGED <<app, scope, expired, entered, frontiers, graphs>>, NEW result, result.event = Head(work.todo),
           result.error = None => result.to = Opens(work.page, result.event), Tried(result)
    PROVE  Complete'
  <1>1. /\ work'.page = work.page /\ work'.path = work.path /\ work'.routes = work.routes
        /\ ToSet(work.todo) = {Head(work.todo)} \cup ToSet(work'.todo)
        /\ ToSet(work'.results) = ToSet(work.results) \cup {result}
    BY TriedParts
  <1>2. Busy /\ Busy'
    BY DEF Busy
  <1>3. RoutesKept' /\ PagesKept' /\ AllSaved'
    BY <1>1, <1>2, WorkStill DEF Inv
  <1>4. ToSet(work'.todo) = ToSet(work.todo)' /\ ToSet(work'.results) = ToSet(work.results)'
    BY DEF ToSet
  <1>5. WorkCandidates' = WorkCandidates /\ RouteScope' = RouteScope
    BY <1>1, WorkCandidatesKept DEF RouteScope, graphs
  <1>6. \A p, e : Opens(p, e)' = Opens(p, e)
    BY DEF Opens
  <1>7. Tries'
    <2> HIDE DEF WorkCandidates, RouteScope, Opens
    <2>1. /\ work.path = path[work.page] /\ work.routes \subseteq RouteScope
          /\ \A e \in WorkCandidates :
                e \in ToSet(work.todo) \/ \E r \in ToSet(work.results) : r.event = e
          /\ \A r \in ToSet(work.results) : r.error = None => r.to = Opens(work.page, r.event)
      BY <1>2 DEF Complete, Tries
    <2>2. \A e \in WorkCandidates :
             e \in ToSet(work'.todo) \/ \E r \in ToSet(work'.results) : r.event = e
      BY <1>1, <2>1
    <2>3. \A r \in ToSet(work'.results) : r.error = None => r.to = Opens(work.page, r.event)
      BY <1>1, <2>1
    <2>4. work'.path = path'[work'.page] /\ work'.routes \subseteq RouteScope'
      BY <1>1, <1>5, <2>1 DEF graphs
    <2> QED BY <1>1, <1>4, <1>5, <1>6, <2>2, <2>3, <2>4 DEF Tries
  <1> QED BY <1>3, <1>7 DEF Complete

LEMMA LosePageComplete ==
    ASSUME Inv, Complete, LosePage PROVE Complete'
  <1>1. PICK result : result = [event |-> Head(work.todo), to |-> None, error |-> "restore"]
    OBVIOUS
  <1>2. /\ phase = "explore" /\ work.todo # <<>> /\ phase' = phase /\ Tried(result)
        /\ UNCHANGED <<app, scope, expired, entered, frontiers, graphs>>
    BY <1>1 DEF LosePage, env
  <1>3. result.event = Head(work.todo) /\ result.error # None
    BY <1>1 DEF None
  <1> QED BY <1>2, <1>3, TriedComplete

LEMMA ClickFailsComplete ==
    ASSUME Inv, Complete, ClickFails PROVE Complete'
  <1>1. PICK result : result = [event |-> Head(work.todo), to |-> None, error |-> "interaction"]
    OBVIOUS
  <1>2. /\ phase = "explore" /\ work.todo # <<>> /\ phase' = phase /\ Tried(result)
        /\ UNCHANGED <<app, scope, expired, entered, frontiers, graphs>>
    BY <1>1 DEF ClickFails, env
  <1>3. result.event = Head(work.todo) /\ result.error # None
    BY <1>1 DEF None
  <1> QED BY <1>2, <1>3, TriedComplete

LEMMA ClickComplete ==
    ASSUME Inv, Complete, Unblamed, Click PROVE Complete'
  <1>1. PICK e : e = Head(work.todo)
    OBVIOUS
  <1>2. PICK q : q = Clicked(Shown(work.page), e)
    OBVIOUS
  <1>3. PICK result : result = [event |-> e, to |-> q, error |-> None]
    OBVIOUS
  <1>4. /\ phase = "explore" /\ work.todo # <<>> /\ phase' = phase /\ Tried(result)
        /\ Restorable(work.page) /\ UNCHANGED <<app, scope, expired, entered, frontiers, graphs>>
    BY <1>1, <1>2, <1>3 DEF Click, env
  <1>5. work.page \in DOMAIN path /\ work.page \in Page
    BY <1>4, WorkFacts DEF Busy
  <1>6. Shown(work.page) = work.page
    BY <1>4, <1>5, RestorableFacts DEF Inv
  <1>7. q = Opens(work.page, e)
    BY <1>2, <1>5, <1>6, ClickedFacts DEF Inv, Unblamed
  <1>8. result.event = Head(work.todo) /\ result.to = Opens(work.page, result.event)
    BY <1>1, <1>3, <1>7
  <1> QED BY <1>4, <1>8, TriedComplete

\* The results in scope are to be registered, with what their events open.
LEMMA EndTriesComplete ==
    ASSUME Inv, Complete, EndTries PROVE Complete'
  <1>1. /\ phase = "explore" /\ phase' = "register" /\ work.todo = <<>>
        /\ UNCHANGED <<app, scope, expired, entered, frontiers, graphs>>
    BY DEF EndTries, env
  <1>2. /\ work'.page = work.page /\ work'.path = work.path /\ work'.routes = work.routes
        /\ work'.results = work.results
        /\ ToSet(work'.todo) = {r \in ToSet(work.results) :
              r.to # None /\ ResultInScope(RouteScope, path[work.page], r.event, r.to)}
    BY EndTriesParts
  <1>3. Busy /\ Busy'
    BY <1>1 DEF Busy
  <1>4. RoutesKept' /\ PagesKept' /\ AllSaved'
    BY <1>1, <1>2, <1>3, WorkStill DEF Inv
  <1>5. /\ work.path = path[work.page] /\ work.routes \subseteq RouteScope
        /\ \A e \in WorkCandidates : e \in ToSet(work.todo) \/ \E r \in ToSet(work.results) : r.event = e
        /\ \A r \in ToSet(work.results) : r.error = None => r.to = Opens(work.page, r.event)
    BY <1>1, <1>3 DEF Complete, Tries
  <1>6. ToSet(work.todo) = {}
    BY <1>1 DEF ToSet
  <1>7. WorkCandidates' = WorkCandidates /\ RouteScope' = RouteScope
    BY <1>1, <1>2, WorkCandidatesKept DEF RouteScope, graphs
  <1>8. \A e : Recorded(e) => Recorded(e)'
    BY <1>1, <1>2, RecordedKept DEF graphs
  <1>9. ToSet(work'.todo) = ToSet(work.todo)'
    BY DEF ToSet
  <1>10. ASSUME NEW e \in WorkCandidates PROVE Recorded(e)' \/ InTurn(e)'
    <2>1. PICK r \in ToSet(work.results) : r.event = e
      BY <1>5, <1>6, <1>10
    <2>2. PICK q : q = Opens(work.page, e)
      OBVIOUS
    <2>3. CASE r.error # None
      BY <1>8, <2>1, <2>3 DEF Recorded
    <2>4. CASE q = None \/ ~ResultInScope(work.routes, work.path, e, q)
      <3> HIDE DEF ResultInScope
      <3>1. Recorded(e)
        BY <2>2, <2>4 DEF Recorded
      <3> QED BY <1>8, <3>1
    <2>5. CASE r.error = None /\ q # None /\ ResultInScope(work.routes, work.path, e, q)
      <3>1. r.to = q
        BY <1>5, <2>1, <2>2, <2>5
      <3>2. ResultInScope(RouteScope, path[work.page], e, q)
        BY <1>5, <2>5 DEF ResultInScope
      <3>3. r \in ToSet(work'.todo)
        BY <1>2, <2>1, <2>5, <3>1, <3>2
      <3>4. Opens(work.page, e)' = q
        BY <1>1, <1>2, <2>2 DEF Opens
      <3> HIDE DEF Opens
      <3> QED BY <1>9, <2>1, <3>1, <3>3, <3>4 DEF InTurn
    <2> QED BY <2>3, <2>4, <2>5
  <1>11. Tries'
    <2> HIDE DEF WorkCandidates, Recorded, InTurn, RouteScope
    <2>1. work'.path = path'[work'.page] /\ work'.routes \subseteq RouteScope'
      BY <1>1, <1>2, <1>5, <1>7 DEF graphs
    <2> QED BY <1>1, <1>7, <1>10, <2>1 DEF Tries
  <1> QED BY <1>4, <1>11 DEF Complete

\* A result is registered: its transition is recorded, what is in turn stays so.
LEMMA RegisteredTries ==
    ASSUME Inv, Complete, phase = "register", phase' = phase, work.todo # <<>>,
           work' = [work EXCEPT !.todo = Tail(@)], UNCHANGED <<app, scope>>,
           dynamic \subseteq dynamic', path'[work.page] = path[work.page],
           flow \cup {<<work.page, Head(work.todo).event, Head(work.todo).to>>} \subseteq flow'
    PROVE  Tries'
  <1>1. /\ work'.page = work.page /\ work'.path = work.path /\ work'.routes = work.routes
        /\ work'.results = work.results
        /\ ToSet(work.todo) = {Head(work.todo)} \cup ToSet(work'.todo)
    BY RegisteredParts
  <1>2. /\ work.path = path[work.page] /\ work.routes \subseteq RouteScope
        /\ \A e \in WorkCandidates : Recorded(e) \/ InTurn(e)
    BY DEF Complete, Tries, Busy
  <1>3. WorkCandidates' = WorkCandidates
    BY <1>1, WorkCandidatesKept
  <1>4. RouteScope \subseteq RouteScope'
    BY DEF RouteScope
  <1>5. \A e : Recorded(e) => Recorded(e)'
    BY <1>1, RecordedKept
  <1>6. ToSet(work'.todo) = ToSet(work.todo)'
    BY DEF ToSet
  <1>7. ASSUME NEW e, InTurn(e) PROVE Recorded(e)' \/ InTurn(e)'
    <2>1. PICK q : q = Opens(work.page, e)
      OBVIOUS
    <2>2. PICK r \in ToSet(work.todo) : r.event = e /\ r.to = q
      BY <1>7, <2>1 DEF InTurn
    <2>3. Opens(work.page, e)' = q
      BY <1>1, <2>1 DEF Opens
    <2> HIDE DEF Opens, ResultInScope
    <2>4. CASE r = Head(work.todo)
      <3>1. <<work.page, e, q>> \in flow'
        BY <2>2, <2>4
      <3> QED BY <1>1, <2>3, <3>1 DEF Recorded
    <2>5. CASE r \in ToSet(work'.todo)
      BY <1>6, <2>2, <2>3, <2>5 DEF InTurn
    <2> QED BY <1>1, <2>4, <2>5
  <1> HIDE DEF WorkCandidates, Recorded, InTurn, RouteScope
  <1>8. work'.path = path'[work'.page] /\ work'.routes \subseteq RouteScope'
    BY <1>1, <1>2, <1>4
  <1> QED BY <1>2, <1>3, <1>5, <1>7, <1>8 DEF Tries

\* The event changed the content only.
LEMMA RegisterContentComplete ==
    ASSUME Inv, Inv', Complete, RegisterContent PROVE Complete'
  <1>1. /\ phase = "register" /\ phase' = phase /\ work.todo # <<>> /\ Head(work.todo).to = work.page
        /\ flow' = flow \cup {<<work.page, Head(work.todo).event, work.page>>}
        /\ work' = [work EXCEPT !.todo = Tail(@)]
        /\ UNCHANGED <<app, scope, entered, frontiers, path, known, dynamic, explorations>>
    BY DEF RegisterContent, env
  <1>2. work'.page = work.page
    BY <1>1, RegisteredParts
  <1>3. Busy /\ Busy'
    BY <1>1 DEF Busy
  <1>4. Tries'
    BY <1>1, RegisteredTries
  <1>5. RoutesKept'
    <2>1. Settled' = Settled /\ Admitted' = Admitted /\ Tracked' = Tracked
      BY <1>1 DEF Settled, RoutesIn, Admitted, RouteScope, Tracked, frontiers
    <2> QED BY <1>1, <2>1, RoutesKeptStep DEF Complete
  <1>6. PagesKept'
    <2>1. \A p : (Waits(p) => Waits(p)') /\ (Entered(p) => Entered(p)')
      BY <1>1 DEF Waits, Entered, ToSet, Last, frontiers
    <2> HIDE DEF Waits, Entered
    <2> QED BY <1>1, <1>2, <1>3, <2>1 DEF Complete, PagesKept, frontiers
  <1>7. AllSaved'
    BY <1>1, AllSavedKept DEF Inv, Complete, frontiers
  <1> QED BY <1>4, <1>5, <1>6, <1>7 DEF Complete

\* Another page is registered: it waits unless it was known or is too deep.
LEMMA RegisterPageComplete ==
    ASSUME Inv, Inv', Complete, RegisterPage PROVE Complete'
  <1>1. PICK p : p = work.page
    OBVIOUS
  <1>2. PICK e : e = Head(work.todo).event
    OBVIOUS
  <1>3. PICK q : q = Head(work.todo).to
    OBVIOUS
  <1>4. PICK t : t = PathTo(p, e, q)
    OBVIOUS
  <1>5. PICK depth : depth = work.depth
    OBVIOUS
  <1>6. /\ phase = "register" /\ work.todo # <<>> /\ q # p /\ path' = Register(path, q, t)
        /\ flow' = flow \cup {<<p, e, q>>}
        /\ RegisterLinks(RouteOf[p], p, e, q, path'[q], depth)
        /\ \/ pending' = Await(q, path'[q]) /\ UNCHANGED tooDeep
           \/ UNCHANGED pending /\ tooDeep' = (IF q \in DOMAIN path THEN tooDeep ELSE tooDeep \cup {q})
        /\ work' = [work EXCEPT !.todo = Tail(@)]
        /\ UNCHANGED <<app, scope, phase, entered, visited, explored, explorations>>
    BY <1>1, <1>2, <1>3, <1>4, <1>5, Zenon DEF RegisterPage, env
  <1>7. p \in DOMAIN path /\ p \in Page /\ depth \in Nat /\ Busy /\ Busy'
    BY <1>1, <1>5, <1>6, WorkFacts DEF Busy
  <1>8. q \in Page /\ e \in Playable(p, path[p]) /\ Opens(p, e) = q
    BY <1>1, <1>2, <1>3, <1>6, RegistrableFacts
  <1>9. t \in Trajectory
    <2>1. Sound(t, q)
      BY <1>4, <1>7, <1>8, PathToFacts DEF Inv, Showed
    <2> QED BY <2>1 DEF Sound
  <1>10. /\ DOMAIN path' = DOMAIN path \cup {q} /\ path'[p] = path[p]
         /\ \A o \in DOMAIN path : path'[o] = path[o] \/ Depth(path'[o]) < Depth(path[o])
    BY <1>6, <1>7, <1>9, RegisterPath DEF Inv
  <1>11. dynamic \subseteq dynamic'
    BY <1>6 DEF RegisterLinks
  <1>12. Tries'
    BY <1>1, <1>2, <1>3, <1>6, <1>10, <1>11, RegisteredTries
  <1>13. AllSaved'
    BY <1>6, <1>10, AllSavedKept DEF Inv, Complete
  <1>14. tooDeep \subseteq tooDeep'
    BY <1>6
  <1>15. RoutesKept'
    BY <1>6, <1>7, <1>8, <1>14, RegisterLinksRoutes DEF Inv, Complete
  <1>16. ToSet(pending) \subseteq ToSet(pending')
    BY <1>6, AwaitElements DEF Inv
  <1>17. ToSet(pending') = ToSet(pending)' /\ work'.page = work.page
    BY <1>6, RegisteredParts DEF ToSet
  <1>18. PagesKept'
    <2>1. SUFFICES ASSUME NEW o \in DOMAIN path' \ tooDeep'
                   PROVE  o \in explored' \/ Waits(o)' \/ work'.page = o \/ Entered(o)'
      BY <1>7 DEF PagesKept
    <2>2. CASE o \in DOMAIN path
      <3>1. o \in explored \/ Waits(o) \/ work.page = o \/ Entered(o)
        BY <1>7, <1>14, <2>1, <2>2 DEF Complete, PagesKept
      <3>2. Waits(o) => Waits(o)'
        BY <1>16, <1>17 DEF Waits
      <3>3. Entered(o) => Entered(o)'
        BY <1>6 DEF Entered, ToSet, Last
      <3> HIDE DEF Waits, Entered
      <3> QED BY <1>6, <1>17, <3>1, <3>2, <3>3
    <2>3. CASE o \notin DOMAIN path
      <3>1. o = q /\ pending' = Await(q, path'[q])
        BY <1>6, <1>10, <2>1, <2>3
      <3>2. q \in explored \/ \E row \in ToSet(pending') : row.page = q
        BY <3>1, AwaitElements DEF Inv
      <3> QED BY <1>6, <1>17, <3>1, <3>2 DEF Waits
    <2> QED BY <2>2, <2>3
  <1> QED BY <1>12, <1>13, <1>15, <1>18 DEF Complete

\* The exploration is saved: every event tried left nothing.
LEMMA FinishExplorationComplete ==
    ASSUME Inv, Inv', Complete, FinishExploration PROVE Complete'
  <1>1. PICK x : x = [page |-> work.page, path |-> work.path, routes |-> work.routes, results |-> work.results]
    OBVIOUS
  <1>2. /\ phase = "register" /\ work.todo = <<>> /\ explored' = explored \cup {work.page}
        /\ explorations' = explorations \cup {x} /\ phase' = After(work.origin)
        /\ UNCHANGED <<app, scope, entered, queue, visited, tooDeep, pending, path, known, flow, dynamic>>
    BY <1>1 DEF FinishExploration, Saved, env
  <1>3. Busy /\ work.page \in DOMAIN path /\ work.origin \in {"start", "routes", "states"}
    BY <1>2, WorkFacts DEF Busy
  <1>4. phase' \in {"top", "routes", "states"} /\ ~Busy'
    BY <1>2, <1>3 DEF After, Busy
  <1>5. /\ work.path = path[work.page]
        /\ \A e \in WorkCandidates : Recorded(e) \/ InTurn(e)
    BY <1>2, <1>3 DEF Complete, Tries
  <1>6. SavedWell(x)
    <2>1. work.path \in Trajectory
      BY <1>2 DEF Inv, Working, Exploration
    <2>2. ToSet(work.todo) = {}
      BY <1>2 DEF ToSet
    <2>3. \A e \in WorkCandidates : Recorded(e)
      BY <1>5, <2>2 DEF InTurn
    <2>4. x.page = work.page /\ x.path = work.path /\ x.routes = work.routes /\ x.results = work.results
      BY <1>1
    <2>5. LeftNothing(x)
      <3> HIDE DEF ResultInScope, Opens, Candidates
      <3> QED BY <2>3, <2>4 DEF LeftNothing, Recorded, WorkCandidates
    <2> HIDE DEF LeftNothing
    <2> QED BY <1>3, <1>5, <2>1, <2>4, <2>5 DEF SavedWell
  <1>7. AllSaved'
    <2>1. \A o : SavedWell(o) => SavedWell(o)'
      BY <1>2, SavedKept DEF Inv
    <2>2. x.page = work.page
      BY <1>1
    <2> HIDE DEF SavedWell
    <2> QED BY <1>2, <1>6, <2>1, <2>2 DEF Complete, AllSaved
  <1>8. RoutesKept'
    <2>1. Settled' = Settled /\ Admitted' = Admitted /\ Tracked' = Tracked
      BY <1>2, <1>4 DEF Settled, RoutesIn, Admitted, RouteScope, Tracked
    <2> QED BY <1>2, <2>1, RoutesKeptStep DEF Complete
  <1>9. PagesKept'
    <2>1. \A o : (Waits(o) => Waits(o)') /\ (Entered(o) => Entered(o)')
      BY <1>2 DEF Waits, Entered, ToSet, Last
    <2> HIDE DEF Waits, Entered
    <2> QED BY <1>2, <2>1 DEF Complete, PagesKept
  <1>10. Tries'
    BY <1>4 DEF Tries
  <1> QED BY <1>7, <1>8, <1>9, <1>10 DEF Complete

\* A page that waited is explored.
LEMMA ExploreStateComplete ==
    ASSUME Inv, Inv', Complete, ExploreState PROVE Complete'
  <1>1. PICK row : row = Head(pending)
    OBVIOUS
  <1>2. PICK p : p = row.page
    OBVIOUS
  <1>3. /\ phase = "states" /\ pending # <<>> /\ pending' = Tail(pending) /\ phase' = "explore"
        /\ work' = Explore(p, path[p], row.depth, "states")
        /\ UNCHANGED <<app, scope, entered, queue, visited, tooDeep, explored, graphs>>
    BY <1>1, <1>2 DEF ExploreState, NextState, env
  <1>4. ~Busy /\ Busy' /\ work'.page = p
    BY <1>3, ExploreParts DEF Busy
  <1>5. RoutesKept'
    <2>1. Settled' = Settled /\ Admitted' = Admitted /\ Tracked' = Tracked
      BY <1>3 DEF Settled, RoutesIn, Admitted, RouteScope, Tracked, graphs
    <2> QED BY <1>3, <2>1, RoutesKeptStep DEF Complete
  <1>6. PagesKept'
    <2>1. ToSet(pending) = {row} \cup ToSet(pending')
      <3>1. pending \in Seq(StateRow)
        BY DEF Inv, Typed
      <3> QED BY <1>1, <1>3, <3>1, TailElements
    <2>2. ToSet(pending') = ToSet(pending)'
      BY DEF ToSet
    <2>3. \A o : Waits(o) => o = p \/ Waits(o)'
      BY <1>2, <2>1, <2>2 DEF Waits
    <2>4. \A o : Entered(o) => Entered(o)'
      BY <1>3 DEF Entered, ToSet, Last
    <2> HIDE DEF Waits, Entered
    <2> QED BY <1>3, <1>4, <2>3, <2>4 DEF Complete, PagesKept, graphs
  <1>7. AllSaved'
    BY <1>3, AllSavedKept DEF Inv, Complete, graphs
  <1>8. Tries'
    BY <1>3, TriesExplore DEF graphs
  <1> QED BY <1>5, <1>6, <1>7, <1>8 DEF Complete

\* Every step of a crawl that is not to blame keeps it complete.
LEMMA StepComplete ==
    ASSUME Inv, Inv', Guided, Complete, Unblamed, Unblamed', [Next]_vars PROVE Complete'
  <1>1. CASE Top \/ EndRoutes \/ EndRound
    <2>1. /\ phase \in {"top", "routes", "states"} /\ phase' \in {"top", "routes", "states", "done"}
          /\ UNCHANGED <<app, scope, expired, entered, frontiers, graphs>>
      BY <1>1, Zenon DEF Top, EndRoutes, EndRound, env
    <2> QED BY <2>1, CompleteStill DEF Inv, Busy
  <1>2. CASE LoseRoute \/ LoseState
    <2>1. problems' \in {problems \cup {"navigation"}, problems \cup {"dynamic restore"}}
      BY <1>2, Zenon DEF LoseRoute, LoseState
    <2> QED BY <2>1 DEF Unblamed
  <1>3. CASE FailStart \/ Expire
    BY <1>3 DEF FailStart, Expire, Unblamed
  <1>4. CASE BreakRegistration \/ BreakExploration
    <2>1. phase = "register" /\ \E marked : Handled(marked)
      BY <1>4 DEF BreakRegistration, BreakExploration
    <2> QED BY <2>1, HandledBlames
  <1>10. CASE BreakCapture
    BY <1>10 DEF BreakCapture, Unblamed
  <1>5. CASE UNCHANGED vars
    BY <1>5, CompleteKept DEF Inv
  <1>6. CASE StartFull \/ StartScreen \/ StartModule \/ EnterMenu \/ EnterModule
    BY <1>6, StartFullComplete, StartScreenComplete, StartModuleComplete, EnterMenuComplete,
       EnterModuleComplete
  <1>7. CASE SkipRoute \/ VisitRoute \/ ExploreState
    BY <1>7, SkipRouteComplete, VisitRouteComplete, ExploreStateComplete
  <1>8. CASE LosePage \/ ClickFails \/ Click \/ EndTries
    BY <1>8, LosePageComplete, ClickFailsComplete, ClickComplete, EndTriesComplete
  <1>9. CASE RegisterContent \/ RegisterPage \/ FinishExploration
    BY <1>9, RegisterContentComplete, RegisterPageComplete, FinishExplorationComplete
  <1> QED BY <1>1, <1>2, <1>3, <1>4, <1>5, <1>6, <1>7, <1>8, <1>9, <1>10 DEF Next, Crawler

\* What is complete has missed nothing once the crawl is certified.
LEMMA CompleteCertified ==
    ASSUME Typed, Unblamed => Complete PROVE CertifiedIsComplete
  <1>1. SUFFICES ASSUME Certified, ~expired
                 PROVE  /\ \A r \in known \cap Admitted :
                              \/ {r, RouteOf[app.entry[r]]} \cap (visited \cup tooDeep) # {}
                              \/ RouteOf[app.entry[r]] \notin Admitted
                        /\ \A p \in MustExplore : \E x \in explorations :
                              /\ x.page = p /\ LeftNothing(x)
                              /\ x.path = path[p] \/ Depth(path[p]) < Depth(x.path)
    BY DEF CertifiedIsComplete
  <1>2. phase = "done" /\ queue = <<>> /\ pending = <<>> /\ Complete
    BY <1>1 DEF Certified, Unblamed
  <1>3. ASSUME NEW r \in known \cap Admitted
        PROVE  \/ {r, RouteOf[app.entry[r]]} \cap (visited \cup tooDeep) # {}
               \/ RouteOf[app.entry[r]] \notin Admitted
    <2>1. r \in Tracked
      BY <1>2 DEF Tracked
    <2>2. r \in Settled \/ Redirect(r) \in Settled \/ Redirect(r) \notin Admitted
      BY <1>2, <2>1 DEF Complete, RoutesKept
    <2>3. RoutesIn(queue) = {}
      BY <1>2 DEF RoutesIn
    <2> HIDE DEF RoutesIn, Admitted
    <2> QED BY <2>2, <2>3 DEF Settled, Redirect
  <1>4. ASSUME NEW p \in MustExplore
        PROVE  \E x \in explorations :
                   /\ x.page = p /\ LeftNothing(x)
                   /\ x.path = path[p] \/ Depth(path[p]) < Depth(x.path)
    <2>1. p \in explored \/ Waits(p) \/ Entered(p)
      BY <1>2 DEF Complete, PagesKept, MustExplore, Busy
    <2>2. ~Waits(p)
      BY <1>2 DEF Waits, ToSet
    <2>3. ~Entered(p)
      BY <1>2 DEF Entered, MustExplore, Passed
    <2>4. PICK x \in explorations : x.page = p
      BY <1>2, <2>1, <2>2, <2>3 DEF Complete, AllSaved
    <2>5. SavedWell(x)
      BY <1>2, <2>4 DEF Complete, AllSaved
    <2> HIDE DEF LeftNothing, Depth
    <2> QED BY <2>4, <2>5 DEF SavedWell
  <1> HIDE DEF Admitted, MustExplore, LeftNothing, Depth
  <1> QED BY <1>3, <1>4

\* A certified crawl whose session lived missed nothing it knew of, in every application
\* and whatever failed before: its routes in scope are settled, and the events tried on
\* every page registered showed nothing that is not recorded
\* (build_crawl_execution_quality).
THEOREM NothingMissed == Spec => []CertifiedIsComplete
  <1> DEFINE Kept == Unblamed => Complete
  <1>1. Init => Kept
    BY InitComplete
  <1>2. Inv /\ Inv' /\ Guided /\ Kept /\ [Next]_vars => Kept'
    BY UnblamedBefore, StepComplete
  <1>3. Inv /\ Kept => CertifiedIsComplete
    BY CompleteCertified DEF Inv
  <1> HIDE DEF Kept
  <1>4. Spec => []Kept
    BY <1>1, <1>2, Invariance, StaysGuided, PTL DEF Spec
  <1> QED BY <1>3, <1>4, Invariance, PTL

-----------------------------------------------------------------------------
(* What the builder finds in the artifacts of a crawl. *)

\* The registry is finite; it has the roots, the ends of the transitions and the pages
\* of the screens.
Stated ==
    /\ IsFiniteSet(DOMAIN path)
    /\ \A p \in DOMAIN path : path[p].root \in DOMAIN path
    /\ \A t \in flow : t[1] \in DOMAIN path /\ t[3] \in DOMAIN path
    /\ \A r \in Screens : app.entry[r] \in DOMAIN path

\* The menus and the links of a state shown from home are some of its page; a module has
\* links of its own branch only, and all that its branch shows.
Reached(p) ==
    /\ nav[p].menus \in Seq(EventsOf({"expand_menu"})) /\ nav[p].menus \in app.menus[p]
    /\ nav[p].links \subseteq ToSet(app.links[p])
    /\ scope = "module" /\ nav[p].links # {} => \E menus \in app.menus[p] : Inside(menus)

\* The links that t reveals from home, when its page belongs to the branch alone.
Shows(t) ==
    Category[t[2]] = "expand_menu" /\ RouteOf[t[1]] = Home /\ (\A menus \in app.menus[t[3]] : Inside(menus)) =>
        \A r \in NewLinks(t[1], t[3]) : t[3] \in DOMAIN nav /\ r \in nav[t[3]].links

Navigable ==
    /\ \E most \in Nat : \A p \in DOMAIN nav : Len(nav[p].menus) <= most
    /\ \A p \in DOMAIN nav : Reached(p)
    /\ \A t \in flow \ torn : Shows(t)

Buildable == Stated /\ Navigable

\* What the builder reads does not change.
LEMMA NavigableStill ==
    ASSUME Navigable, UNCHANGED <<app, scope, nav>>,
           \A t \in flow' \ torn' : t \in flow \ torn \/ t[1] = t[3]
    PROVE  Navigable'
  <1>1. \A p : Reached(p) => Reached(p)'
    BY DEF Reached, Inside
  <1>2. \A t : Shows(t) \/ t[1] = t[3] => Shows(t)'
    BY DEF Shows, NewLinks, Inside
  <1> HIDE DEF Reached, Shows
  <1> QED BY <1>1, <1>2 DEF Navigable

LEMMA BuildableStill ==
    ASSUME Buildable, UNCHANGED <<app, scope, path, flow, nav, indexed, torn>>
    PROVE  Buildable'
  <1>1. Screens' = Screens
    BY DEF Screens
  <1>2. Stated'
    BY <1>1 DEF Buildable, Stated
  <1> QED BY <1>2, NavigableStill DEF Buildable

LEMMA InitBuildable ==
    ASSUME Init PROVE Buildable
  <1>1. IsFiniteSet(DOMAIN path) /\ DOMAIN path = {} /\ DOMAIN nav = {} /\ flow = {} /\ indexed = {}
    BY FS_EmptySet DEF Init
  <1>2. Stated
    BY <1>1 DEF Stated, Screens
  <1>3. Navigable
    <2>1. 0 \in Nat
      OBVIOUS
    <2> QED BY <1>1, <2>1 DEF Navigable
  <1> QED BY <1>2, <1>3 DEF Buildable

\* A page more is registered, by a trajectory with a root registered.
LEMMA RegisteredStated ==
    ASSUME Rooted, Stated, NEW q, NEW t \in Trajectory, path' = Register(path, q, t),
           t.root \in DOMAIN path' , app' = app,
           \A u \in flow' : u \in flow \/ (u[1] \in DOMAIN path' /\ u[3] \in DOMAIN path'),
           \A r \in indexed' : r \in indexed \/ app.entry[r] \in DOMAIN path'
    PROVE  Stated'
  <1>1. /\ DOMAIN path' = DOMAIN path \cup {q}
        /\ path'[q] = t \/ (q \in DOMAIN path /\ path'[q] = path[q])
        /\ \A p \in DOMAIN path : p # q => path'[p] = path[p]
    BY RegisterPath
  <1>2. IsFiniteSet(DOMAIN path')
    BY <1>1, FS_AddElement DEF Stated
  <1>3. \A p \in DOMAIN path' : path'[p].root \in DOMAIN path'
    BY <1>1 DEF Stated
  <1>4. \A r \in Screens' : app.entry[r] \in DOMAIN path'
    BY <1>1 DEF Stated, Screens
  <1>5. \A u \in flow' : u[1] \in DOMAIN path' /\ u[3] \in DOMAIN path'
    BY <1>1 DEF Stated
  <1> QED BY <1>2, <1>3, <1>4, <1>5 DEF Stated

\* The transition to a page, its menus and the links it reveals enter the graphs.
LEMMA RegisteredNavigable ==
    ASSUME Typed, Rooted', Navigable, Menued', app' = app, scope' = scope, NEW base, NEW p, NEW e,
           NEW q \in Page, q \in DOMAIN path', NEW depth, RegisterLinks(base, p, e, q, path'[q], depth),
           RouteOf[p] = Home => base = Home,
           \A u \in flow' \ torn' : u \in flow \ torn \/ u = <<p, e, q>>
    PROVE  Navigable'
  <1>1. PICK t : t = path'[q]
    OBVIOUS
  <1>2. PICK m : m = MenuPath(t)
    OBVIOUS
  <1>3. PICK shown : shown = ToSet(LinksShown(p, e, q, t))
    OBVIOUS
  <1>4. m \in Seq(EventsOf({"expand_menu"})) /\ m \in app.menus[q]
    <2>1. t \in Trajectory
      BY <1>1 DEF Rooted, Sound, Trajectory, Step, Event
    <2>2. m \in Seq(EventsOf({"expand_menu"}))
      BY <1>2, <2>1, MenusShort
    <2>3. MenuPath(path'[q]) \in app'.menus[q]
      BY DEF Menued, MenuPath
    <2> QED BY <1>1, <1>2, <2>2, <2>3
  <1>5. /\ shown \subseteq ToSet(app.links[q])
        /\ scope = "module" => shown = ToSet(app.links[q]) \cap Revealed(p, e, q, t)
    <2>1. app.links[q] \in Seq(ToSet(app.links[q]))
      BY AppFacts
    <2> HIDE DEF Revealed
    <2> QED BY <1>3, <2>1, WithinElements DEF LinksShown
  <1>6. scope = "module" /\ shown # {} => Inside(m)
    BY <1>2, <1>5 DEF Revealed
  <1>7. base = Home => nav' = Linked(q, m, shown)
    BY <1>1, <1>2, <1>3 DEF RegisterLinks
  <1>8. base # Home => nav' = nav
    BY DEF RegisterLinks
  <1>9. \A menus : Inside(menus)' <=> Inside(menus)
    BY DEF Inside
  <1>10. \A o \in DOMAIN nav : o \in DOMAIN nav' /\ nav[o].links \subseteq nav'[o].links
    BY <1>7, <1>8 DEF Linked
  <1>11. \E most \in Nat : \A o \in DOMAIN nav' : Len(nav'[o].menus) <= most
    <2>1. PICK most \in Nat : \A o \in DOMAIN nav : Len(nav[o].menus) <= most
      BY DEF Navigable
    <2>2. CASE base # Home
      BY <1>8, <2>1, <2>2
    <2>3. CASE base = Home
      <3>1. PICK l \in Nat : l = Len(m)
        BY <1>4
      <3>2. PICK more \in Nat : most <= more /\ l <= more
        <4>1. CASE most <= l
          BY <4>1
        <4>2. CASE l <= most
          BY <4>2
        <4> QED BY <4>1, <4>2
      <3>3. \A o \in DOMAIN nav' : nav'[o].menus = m \/ (o \in DOMAIN nav /\ nav'[o].menus = nav[o].menus)
        BY <1>7, <2>3 DEF Linked
      <3>4. \A o \in DOMAIN nav : Len(nav[o].menus) \in Nat
        BY DEF Navigable, Reached
      <3>5. ASSUME NEW o \in DOMAIN nav' PROVE Len(nav'[o].menus) <= more
        <4>1. CASE nav'[o].menus = m
          BY <3>1, <3>2, <4>1
        <4>2. CASE o \in DOMAIN nav /\ nav'[o].menus = nav[o].menus
          <5>1. PICK k \in Nat : k = Len(nav[o].menus)
            BY <3>4, <4>2
          <5> QED BY <2>1, <3>2, <4>2, <5>1
        <4> QED BY <3>3, <4>1, <4>2
      <3> QED BY <3>5
    <2> QED BY <2>2, <2>3
  <1>12. ASSUME NEW o \in DOMAIN nav' PROVE Reached(o)'
    <2>1. CASE o \in DOMAIN nav /\ nav'[o] = nav[o]
      BY <1>9, <2>1 DEF Navigable, Reached
    <2>2. CASE o = q /\ base = Home
      <3>1. nav'[q].menus = m /\ nav'[q].links = shown \cup IF q \in DOMAIN nav THEN nav[q].links ELSE {}
        BY <1>7, <2>2 DEF Linked
      <3>2. q \in DOMAIN nav => Reached(q)
        BY DEF Navigable
      <3>3. nav'[q].links \subseteq ToSet(app.links[q])
        BY <1>5, <3>1, <3>2 DEF Reached
      <3>4. scope = "module" /\ nav'[q].links # {} => \E menus \in app.menus[q] : Inside(menus)
        <4> HIDE DEF Inside
        <4> QED BY <1>4, <1>6, <3>1, <3>2 DEF Reached
      <3> HIDE DEF Inside
      <3> QED BY <1>4, <1>9, <2>2, <3>1, <3>3, <3>4 DEF Reached, ToSet
    <2>3. o = q \/ (o \in DOMAIN nav /\ nav'[o] = nav[o])
      BY <1>7, <1>8 DEF Linked
    <2>4. base # Home => o \in DOMAIN nav /\ nav'[o] = nav[o]
      BY <1>8
    <2> QED BY <2>1, <2>2, <2>3, <2>4
  <1>13. ASSUME NEW u \in flow' \ torn' PROVE Shows(u)'
    <2>1. NewLinks(u[1], u[3])' = NewLinks(u[1], u[3])
      BY DEF NewLinks
    <2>2. SUFFICES ASSUME Category[u[2]] = "expand_menu", RouteOf[u[1]] = Home,
                          \A menus \in app.menus[u[3]] : Inside(menus), NEW r \in NewLinks(u[1], u[3])
                   PROVE  u[3] \in DOMAIN nav' /\ r \in nav'[u[3]].links
      <3> HIDE DEF NewLinks, Inside
      <3> QED BY <1>9, <2>1 DEF Shows
    <2>3. CASE u \in flow \ torn
      <3>1. u[3] \in DOMAIN nav /\ r \in nav[u[3]].links
        <4> HIDE DEF NewLinks, Inside
        <4> QED BY <2>2, <2>3 DEF Navigable, Shows
      <3> QED BY <1>10, <3>1
    <2>4. CASE u = <<p, e, q>>
      <3>1. u[1] = p /\ u[2] = e /\ u[3] = q /\ base = Home
        BY <2>2, <2>4
      <3>2. Inside(m)
        BY <1>4, <2>2, <3>1
      <3>3. r \in Revealed(p, e, q, t) /\ scope = "module"
        BY <1>2, <2>2, <3>1, <3>2 DEF Revealed, Inside
      <3>4. r \in shown
        BY <1>5, <2>2, <3>1, <3>3 DEF NewLinks
      <3> QED BY <1>7, <3>1, <3>4 DEF Linked
    <2> QED BY <2>3, <2>4
  <1> HIDE DEF Reached, Shows
  <1> QED BY <1>11, <1>12, <1>13 DEF Navigable

\* A screen is captured: its page is registered.
LEMMA CaptureBuildable ==
    ASSUME Inv, Buildable, NEW r0 \in Allowed, NEW rest, NEW depth, NEW origin,
           Capture(Navigated(r0), rest, depth, origin), UNCHANGED env
    PROVE  Buildable'
  <1>1. PICK p : p = Navigated(r0)
    OBVIOUS
  <1>2. /\ \/ CaptureScreen(p, rest, depth, origin)
           \/ CaptureUnavailable(p, rest, origin)
           \/ CaptureNothing(p, rest, origin)
        /\ UNCHANGED <<app, scope, nav, flow, torn>>
    BY <1>1 DEF Capture, env
  <1>3. Navigable'
    BY <1>2, NavigableStill DEF Buildable
  <1>4. RouteOf[p] \in Admitted => p = app.entry[r0] /\ p \in Page /\ app.entry[RouteOf[p]] = p
    <2>1. r0 \in DOMAIN app.entry
      BY AppFacts DEF Inv
    <2>2. RouteOf[p] \in Allowed => p = app.entry[r0]
      BY <1>1, <2>1, NavigatedFacts DEF Inv
    <2> QED BY <2>1, <2>2, AppFacts DEF Inv, Admitted
  <1>5. CASE CaptureScreen(p, rest, depth, origin)
    <2>1. PICK t : t = RootPath(p)
      OBVIOUS
    <2>2. path' = Register(path, p, t) /\ RouteOf[p] \in Admitted /\ indexed' = indexed \cup {RouteOf[p]}
      BY <1>5, <2>1 DEF CaptureScreen
    <2>3. t \in Trajectory /\ t.root = p
      BY <1>4, <2>1, <2>2 DEF RootPath, Trajectory
    <2>4. p \in DOMAIN path' /\ DOMAIN path \subseteq DOMAIN path'
      BY <2>2, <2>3, RegisterPath DEF Inv
    <2>5. Stated'
      BY <1>2, <1>4, <2>2, <2>3, <2>4, RegisteredStated DEF Inv, Buildable
    <2> QED BY <1>3, <2>5 DEF Buildable
  <1>6. CASE CaptureUnavailable(p, rest, origin)
    BY <1>2, <1>6, BuildableStill DEF CaptureUnavailable
  <1>7. CASE CaptureNothing(p, rest, origin)
    BY <1>2, <1>7, BuildableStill DEF CaptureNothing
  <1> QED BY <1>2, <1>5, <1>6, <1>7

\* The artifacts of a screen raise: its page may be registered, and is no screen.
LEMMA BreakCaptureBuildable ==
    ASSUME Inv, Buildable, BreakCapture PROVE Buildable'
  <1>1. UNCHANGED <<app, scope, nav, flow, torn, indexed>>
    BY DEF BreakCapture, env
  <1>2. PICK p \in Page :
           \/ path' = path
           \/ Sound(RootPath(p), p) /\ path' = Register(path, p, RootPath(p))
    BY BreakCaptureFacts DEF Inv
  <1>3. CASE path' = path
    BY <1>1, <1>3, BuildableStill
  <1>4. CASE Sound(RootPath(p), p) /\ path' = Register(path, p, RootPath(p))
    <2>1. PICK t : t = RootPath(p)
      OBVIOUS
    <2>2. t \in Trajectory /\ t.root = p /\ path' = Register(path, p, t)
      BY <1>4, <2>1 DEF Sound, RootPath
    <2>3. p \in DOMAIN path'
      BY <2>2, RegisterPath DEF Inv
    <2>4. Stated'
      BY <1>1, <2>2, <2>3, RegisteredStated DEF Inv, Buildable
    <2>5. Navigable'
      BY <1>1, NavigableStill DEF Buildable
    <2> QED BY <2>4, <2>5 DEF Buildable
  <1> QED BY <1>2, <1>3, <1>4

\* Home is registered on the way into a module.
LEMMA StartModuleBuildable ==
    ASSUME Inv, Buildable, StartModule PROVE Buildable'
  <1>1. PICK p : p = Navigated(Home)
    OBVIOUS
  <1>2. PICK t : t = RootPath(p)
    OBVIOUS
  <1>3. UNCHANGED <<app, scope, nav, flow, indexed, torn>> /\ (path' = path \/ path' = Register(path, p, t))
    BY <1>1, <1>2 DEF StartModule, env, frontiers
  <1>4. p \in Page
    BY <1>1, CrawlAssumption, NavigatedFacts, AppFacts DEF Inv
  <1>5. t \in Trajectory /\ t.root = p
    BY <1>2, <1>4 DEF RootPath, Trajectory
  <1>6. CASE path' = Register(path, p, t)
    <2>1. p \in DOMAIN path' /\ DOMAIN path \subseteq DOMAIN path'
      BY <1>5, <1>6, RegisterPath DEF Inv
    <2>2. Stated'
      BY <1>3, <1>5, <1>6, <2>1, RegisteredStated DEF Inv, Buildable
    <2>3. Navigable'
      BY <1>3, NavigableStill DEF Buildable
    <2> QED BY <2>2, <2>3 DEF Buildable
  <1> QED BY <1>3, <1>6, BuildableStill

\* One event more from a page registered leads by its root.
LEMMA PathToTrajectory ==
    ASSUME Rooted, NEW p \in DOMAIN path, NEW e \in Event, NEW q \in Page
    PROVE  PathTo(p, e, q) \in Trajectory /\ PathTo(p, e, q).root = path[p].root
  <1>1. PICK b : b = path[p]
    OBVIOUS
  <1>2. PICK row : row = [event |-> e, to |-> q]
    OBVIOUS
  <1>3. b \in Trajectory
    BY <1>1 DEF Rooted, Sound
  <1>4. b \in [root : Page, steps : Seq(Step)] /\ row \in Step
    BY <1>2, <1>3 DEF Trajectory, Step
  <1>5. PICK v : v = Append(b.steps, row)
    OBVIOUS
  <1>6. v \in Seq(Step)
    BY <1>4, <1>5, AppendProperties
  <1>7. PICK u : u = [b EXCEPT !.steps = v]
    OBVIOUS
  <1>8. u = PathTo(p, e, q)
    BY <1>1, <1>2, <1>5, <1>7 DEF PathTo, Extend
  <1>9. u \in Trajectory /\ u.root = b.root
    BY <1>4, <1>6, <1>7 DEF Trajectory
  <1> QED BY <1>1, <1>8, <1>9

\* A menu of the way in shows a page.
LEMMA EnterMenuBuildable ==
    ASSUME Inv, Inv', Guided', Buildable, EnterMenu PROVE Buildable'
  <1>1. PICK e : e = EntryPath[Len(entered)]
    OBVIOUS
  <1>2. PICK q : q = IF Opens(browser, e) = None THEN browser ELSE Clicked(browser, e)
    OBVIOUS
  <1>3. PICK t : t = PathTo(browser, e, q)
    OBVIOUS
  <1>4. PICK depth : depth = Len(entered) - 1
    OBVIOUS
  <1>5. /\ phase = "enter" /\ Len(entered) <= Len(EntryPath) /\ UNCHANGED <<app, scope, indexed, torn>>
        /\ \/ /\ path' = Register(path, q, t) /\ flow' = flow \cup {<<browser, e, q>>}
              /\ RegisterLinks(Home, browser, e, q, path'[q], depth)
           \/ UNCHANGED <<path, flow, nav>>
    BY <1>1, <1>2, <1>3, <1>4 DEF EnterMenu, env
  <1>6. browser \in DOMAIN path /\ browser \in Page /\ entered \in Seq(Page) /\ entered # <<>>
    BY <1>5 DEF Inv, Typed
  <1>7. q \in Page
    BY <1>2, <1>6, ClickedFacts DEF Inv
  <1>8. e \in Event
    <2>1. e \in EventsOf({"expand_menu"})
      <3>1. Len(entered) \in 1 .. Len(EntryPath)
        <4>1. Len(entered) \in Nat \ {0} /\ Len(EntryPath) \in Nat
          BY <1>6, CrawlAssumption
        <4> QED BY <1>5, <4>1
      <3> QED BY <1>1, <3>1, CrawlAssumption
    <2> QED BY <2>1 DEF EventsOf, Event
  <1>9. t \in Trajectory /\ t.root = path[browser].root
    BY <1>3, <1>6, <1>7, <1>8, PathToTrajectory DEF Inv
  <1>10. CASE UNCHANGED <<path, flow, nav>>
    BY <1>5, <1>10, BuildableStill
  <1>11. CASE /\ path' = Register(path, q, t) /\ flow' = flow \cup {<<browser, e, q>>}
              /\ RegisterLinks(Home, browser, e, q, path'[q], depth)
    <2>1. DOMAIN path' = DOMAIN path \cup {q}
      BY <1>9, <1>11, RegisterPath DEF Inv
    <2>2. t.root \in DOMAIN path'
      BY <1>6, <1>9, <2>1 DEF Buildable, Stated
    <2>3. \A u \in flow' : u \in flow \/ (u[1] \in DOMAIN path' /\ u[3] \in DOMAIN path')
      BY <1>6, <1>11, <2>1
    <2>4. Stated'
      BY <1>5, <1>9, <1>11, <2>2, <2>3, RegisteredStated DEF Inv, Buildable
    <2>5. Navigable'
      BY <1>5, <1>7, <1>11, <2>1, RegisteredNavigable DEF Inv, Guided, Buildable
    <2> QED BY <2>4, <2>5 DEF Buildable
  <1> QED BY <1>5, <1>10, <1>11

\* A result is registered.
LEMMA RegisterContentBuildable ==
    ASSUME Inv, Buildable, RegisterContent PROVE Buildable'
  <1>1. /\ phase = "register" /\ flow' = flow \cup {<<work.page, Head(work.todo).event, work.page>>}
        /\ UNCHANGED <<app, scope, path, nav, indexed, torn>>
    BY DEF RegisterContent, env, frontiers
  <1>2. work.page \in DOMAIN path
    BY <1>1, WorkFacts DEF Busy
  <1>3. Navigable'
    BY <1>1, NavigableStill DEF Buildable
  <1>4. Screens' = Screens
    BY <1>1 DEF Screens
  <1>5. Stated'
    BY <1>1, <1>2, <1>4 DEF Buildable, Stated
  <1> QED BY <1>3, <1>5 DEF Buildable

LEMMA RegisterPageBuildable ==
    ASSUME Inv, Inv', Guided', Buildable, RegisterPage PROVE Buildable'
  <1>1. PICK p : p = work.page
    OBVIOUS
  <1>2. PICK e : e = Head(work.todo).event
    OBVIOUS
  <1>3. PICK q : q = Head(work.todo).to
    OBVIOUS
  <1>4. PICK t : t = PathTo(p, e, q)
    OBVIOUS
  <1>5. PICK base : base = RouteOf[p]
    OBVIOUS
  <1>6. PICK depth : depth = work.depth
    OBVIOUS
  <1>7. /\ phase = "register" /\ work.todo # <<>> /\ path' = Register(path, q, t)
        /\ flow' = flow \cup {<<p, e, q>>} /\ RegisterLinks(base, p, e, q, path'[q], depth)
        /\ torn' = torn \ {<<p, e, q>>} /\ UNCHANGED <<app, scope, indexed>>
    BY <1>1, <1>2, <1>3, <1>4, <1>5, <1>6 DEF RegisterPage, env
  <1>8. p \in DOMAIN path
    BY <1>1, <1>7, WorkFacts DEF Busy
  <1>9. q \in Page /\ e \in Event
    BY <1>2, <1>3, <1>7, RegistrableFacts DEF Playable
  <1>10. t \in Trajectory /\ t.root = path[p].root
    BY <1>4, <1>8, <1>9, PathToTrajectory DEF Inv
  <1>11. DOMAIN path' = DOMAIN path \cup {q}
    BY <1>7, <1>10, RegisterPath DEF Inv
  <1>12. t.root \in DOMAIN path'
    BY <1>8, <1>10, <1>11 DEF Buildable, Stated
  <1>13. \A u \in flow' : u \in flow \/ (u[1] \in DOMAIN path' /\ u[3] \in DOMAIN path')
    BY <1>7, <1>8, <1>11
  <1>14. Stated'
    BY <1>7, <1>10, <1>12, <1>13, RegisteredStated DEF Inv, Buildable
  <1>15. Navigable'
    BY <1>5, <1>7, <1>9, <1>11, RegisteredNavigable DEF Inv, Guided, Buildable
  <1> QED BY <1>14, <1>15 DEF Buildable

\* The artifacts of a page raise: its transition is torn, and is kept with its ends.
LEMMA BreakRegistrationBuildable ==
    ASSUME Inv, Inv', Buildable, BreakRegistration PROVE Buildable'
  <1>1. PICK p : p = work.page
    OBVIOUS
  <1>2. PICK e : e = Head(work.todo).event
    OBVIOUS
  <1>3. PICK q : q = Head(work.todo).to
    OBVIOUS
  <1>4. PICK t : t = PathTo(p, e, q)
    OBVIOUS
  <1>5. PICK torn1 : torn1 = <<p, e, q>>
    OBVIOUS
  <1>6. /\ phase = "register" /\ work.todo # <<>> /\ path' = Register(path, q, t)
        /\ flow' = flow \cup {torn1} /\ torn' = torn \cup {torn1}
        /\ UNCHANGED <<app, scope, indexed, nav>>
    BY <1>1, <1>2, <1>3, <1>4, <1>5 DEF BreakRegistration, Handled, env
  <1>7. p \in DOMAIN path
    BY <1>1, <1>6, WorkFacts DEF Busy
  <1>8. q \in Page /\ e \in Event
    BY <1>2, <1>3, <1>6, RegistrableFacts DEF Playable
  <1>9. t \in Trajectory /\ t.root = path[p].root
    BY <1>4, <1>7, <1>8, PathToTrajectory DEF Inv
  <1>10. DOMAIN path' = DOMAIN path \cup {q}
    BY <1>6, <1>9, RegisterPath DEF Inv
  <1>11. t.root \in DOMAIN path'
    BY <1>7, <1>9, <1>10 DEF Buildable, Stated
  <1>12. \A u \in flow' : u \in flow \/ (u[1] \in DOMAIN path' /\ u[3] \in DOMAIN path')
    BY <1>5, <1>6, <1>7, <1>10
  <1>13. Stated'
    BY <1>6, <1>9, <1>11, <1>12, RegisteredStated DEF Inv, Buildable
  <1>14. Navigable'
    BY <1>6, NavigableStill DEF Buildable
  <1> QED BY <1>13, <1>14 DEF Buildable

\* Every step keeps it.
LEMMA StepBuildable ==
    ASSUME Inv, Inv', Guided', Buildable, [Next]_vars PROVE Buildable'
  <1>1. CASE StartFull
    <2>1. Home \in Allowed
      BY CrawlAssumption
    <2> QED BY <1>1, <2>1, CaptureBuildable DEF StartFull
  <1>2. CASE StartScreen
    <2>1. CASE Target \notin Broken /\ RouteOf[Navigated(Target)] \in Admitted
      <3>1. Target \in Allowed
        BY CrawlAssumption
      <3> QED BY <1>2, <2>1, <3>1, CaptureBuildable DEF StartScreen
    <2>2. CASE ~(Target \notin Broken /\ RouteOf[Navigated(Target)] \in Admitted)
      BY <1>2, <2>2, BuildableStill DEF StartScreen, env, graphs
    <2> QED BY <2>1, <2>2
  <1>3. CASE VisitRoute
    <2>1. Head(queue).route \in Allowed
      BY <1>3, FrontierFacts DEF Inv, VisitRoute, NextTarget, RouteRow
    <2> QED BY <1>3, <2>1, CaptureBuildable DEF VisitRoute
  <1>4. CASE EnterModule \/ Top \/ SkipRoute \/ LoseRoute \/ EndRoutes \/ LoseState \/ EndRound \/ FailStart
    BY <1>4, BuildableStill DEF EnterModule, Top, SkipRoute, LoseRoute, EndRoutes, LoseState, EndRound,
       FailStart, NextTarget, NextState, env, graphs, frontiers
  <1>5. CASE FinishExploration \/ BreakExploration
    <2>1. UNCHANGED <<app, scope, path, flow, nav, indexed, torn>>
      BY <1>5 DEF FinishExploration, BreakExploration, Handled, env
    <2> QED BY <2>1, BuildableStill
  <1>6. CASE ExploreState \/ LosePage \/ ClickFails \/ Click \/ EndTries
    <2>1. UNCHANGED <<app, scope, path, flow, nav, indexed, torn>>
      BY <1>6, Zenon DEF ExploreState, LosePage, ClickFails, Click, EndTries, graphs, env, frontiers
    <2> QED BY <2>1, BuildableStill
  <1>7. CASE Expire \/ UNCHANGED vars
    BY <1>7, BuildableStill DEF Expire, vars, env, frontiers, graphs
  <1> QED BY <1>1, <1>2, <1>3, <1>4, <1>5, <1>6, <1>7, StartModuleBuildable, EnterMenuBuildable,
             RegisterContentBuildable, RegisterPageBuildable, BreakRegistrationBuildable,
             BreakCaptureBuildable DEF Next, Crawler

-----------------------------------------------------------------------------
(* The owners of the states. *)

\* The owners after each round, given those after the round before.
OwnersAt(f, n) == IF n = 0 THEN DirectOwners ELSE Round(f[n - 1])

\* The rounds have owners, whatever their number.
LEMMA RoundsExist ==
    ASSUME NEW l \in Nat
    PROVE  \E f : f = [n \in 0 .. l |-> OwnersAt(f, n)]
  <1> DEFINE Upto(m) == \E f : f = [n \in 0 .. m |-> OwnersAt(f, n)]
             Bad == {m \in 0 .. l : ~Upto(m)}
  <1>1. ASSUME Bad # {} PROVE FALSE
    <2>1. PICK m \in Bad : \A k \in Bad : m <= k
      <3>1. Bad \in SUBSET Nat
        OBVIOUS
      <3> HIDE DEF Bad
      <3> QED BY <1>1, <3>1, SmallestElement
    <2>2. m \in 0 .. l /\ ~Upto(m)
      BY <2>1
    <2>3. CASE m = 0
      <3> DEFINE f == [n \in 0 .. m |-> DirectOwners]
      <3>1. \A n \in 0 .. m : OwnersAt(f, n) = DirectOwners
        BY <2>3 DEF OwnersAt
      <3>2. f = [n \in 0 .. m |-> OwnersAt(f, n)]
        <4> HIDE DEF f
        <4>1. f = [n \in 0 .. m |-> DirectOwners]
          BY DEF f
        <4> QED BY <3>1, <4>1
      <3> HIDE DEF f
      <3>3. Upto(m)
        BY <3>2
      <3> QED BY <2>2, <3>3
    <2>4. CASE m # 0
      <3>1. m - 1 \in 0 .. l /\ ~(m <= m - 1)
        BY <2>2, <2>4
      <3>2. m - 1 \notin Bad
        BY <2>1, <3>1
      <3>3. Upto(m - 1)
        BY <3>1, <3>2
      <3> HIDE DEF Bad
      <3>4. PICK f : f = [n \in 0 .. m - 1 |-> OwnersAt(f, n)]
        BY <3>3
      <3> DEFINE h == [n \in 0 .. m |-> IF n = m THEN OwnersAt(f, m) ELSE f[n]]
      <3>5. ASSUME NEW n \in 0 .. m PROVE h[n] = OwnersAt(h, n)
        <4>1. n # 0 => n - 1 \in 0 .. m /\ n - 1 # m
          BY <2>2
        <4>2. n # 0 => h[n - 1] = f[n - 1]
          BY <4>1
        <4>3. OwnersAt(h, n) = OwnersAt(f, n)
          BY <4>2 DEF OwnersAt
        <4>4. n # m => n \in 0 .. m - 1
          BY <2>2
        <4>5. n # m => f[n] = OwnersAt(f, n)
          BY <3>4, <4>4
        <4>6. h[n] = OwnersAt(f, n)
          BY <4>5
        <4> QED BY <4>3, <4>6
      <3>6. h = [n \in 0 .. m |-> h[n]]
        OBVIOUS
      <3> HIDE DEF h
      <3>7. h = [n \in 0 .. m |-> OwnersAt(h, n)]
        BY <3>5, <3>6
      <3>8. Upto(m)
        BY <3>7
      <3> QED BY <2>2, <3>8
    <2> QED BY <2>3, <2>4
  <1>2. Upto(l)
    BY <1>1
  <1> QED BY <1>2

\* Owners are those after the last round.
LEMMA OwnersUnfold ==
    ASSUME Stated
    PROVE  \E l \in Nat : \E f : /\ l = Cardinality(DOMAIN path)
                                 /\ f = [n \in 0 .. l |-> OwnersAt(f, n)]
                                 /\ Owners = f[l]
  <1>1. PICK l \in Nat : l = Cardinality(DOMAIN path)
    BY FS_CardinalityType DEF Stated
  <1> DEFINE f == CHOOSE g : g = [n \in 0 .. Cardinality(DOMAIN path) |->
                     IF n = 0 THEN DirectOwners ELSE Round(g[n - 1])]
  <1>2. Owners = f[Cardinality(DOMAIN path)]
    BY Zenon DEF Owners
  <1>3. \E g : g = [n \in 0 .. Cardinality(DOMAIN path) |->
                     IF n = 0 THEN DirectOwners ELSE Round(g[n - 1])]
    <2> HIDE DEF f
    <2>1. \E g : g = [n \in 0 .. Cardinality(DOMAIN path) |-> OwnersAt(g, n)]
      BY <1>1, RoundsExist
    <2> QED BY <2>1, Zenon DEF OwnersAt
  <1>4. f = [n \in 0 .. Cardinality(DOMAIN path) |->
                     IF n = 0 THEN DirectOwners ELSE Round(f[n - 1])]
    BY <1>3, Zenon
  <1> HIDE DEF f
  <1>5. f = [n \in 0 .. l |-> OwnersAt(f, n)]
    BY <1>1, <1>4 DEF OwnersAt
  <1> QED BY <1>1, <1>2, <1>5

\* The screens that the states leading to p are on.
Claimants(p) == {RouteOf[q] : q \in Origins(p)} \cap Screens

\* A state of a screen belongs to it, another to the one screen that leads to it.
Fair(owners) ==
    /\ DOMAIN owners \subseteq DOMAIN path
    /\ \A p \in DOMAIN path : RouteOf[p] \in Screens => p \in DOMAIN owners /\ owners[p] = RouteOf[p]
    /\ \A p \in DOMAIN owners :
          owners[p] \in Screens /\ (RouteOf[p] \notin Screens => Claimants(p) \subseteq {owners[p]})

\* The states that one screen leads to have an owner.
Settling(owners) == \A p \in DOMAIN path : Cardinality(Claimants(p)) = 1 => p \in DOMAIN owners

LEMMA ScreensFinite ==
    ASSUME Typed, NEW S \in SUBSET Screens
    PROVE  IsFiniteSet(S)
  <1>1. S \in SUBSET visited /\ IsFiniteSet(visited)
    BY DEF Screens, Typed
  <1> QED BY <1>1, FS_Subset

LEMMA DirectFair ==
    Fair(DirectOwners)
  BY DEF Fair, DirectOwners

\* A round takes no owner away.
LEMMA RoundGrows ==
    ASSUME NEW owners
    PROVE  /\ DOMAIN owners \subseteq DOMAIN Round(owners)
           /\ \A p \in DOMAIN owners : Round(owners)[p] = owners[p]
           /\ DOMAIN Round(owners) \subseteq DOMAIN owners \cup DOMAIN path
           /\ \A p \in DOMAIN Round(owners) \ DOMAIN owners :
                 /\ Cardinality(Claims(owners, p)) = 1
                 /\ Round(owners)[p] = CHOOSE r \in Claims(owners, p) : TRUE
           /\ \A p \in DOMAIN path : Cardinality(Claims(owners, p)) = 1 => p \in DOMAIN Round(owners)
  <1> HIDE DEF Claims
  <1> QED BY DEF Round

\* What leads to a state is registered.
LEMMA OriginsStated ==
    ASSUME Stated, NEW p \in DOMAIN path
    PROVE  Origins(p) \subseteq DOMAIN path /\ path[p].root \in Origins(p)
  BY DEF Stated, Origins

LEMMA RoundFair ==
    ASSUME Typed, Stated, NEW owners, Fair(owners)
    PROVE  Fair(Round(owners))
  <1>1. PICK o : o = Round(owners)
    OBVIOUS
  <1>2. /\ DOMAIN owners \subseteq DOMAIN o
        /\ \A p \in DOMAIN owners : o[p] = owners[p]
        /\ DOMAIN o \subseteq DOMAIN owners \cup DOMAIN path
        /\ \A p \in DOMAIN o \ DOMAIN owners :
                 /\ Cardinality(Claims(owners, p)) = 1
                 /\ o[p] = CHOOSE r \in Claims(owners, p) : TRUE
    BY <1>1, RoundGrows
  <1>3. ASSUME NEW p \in DOMAIN o \ DOMAIN owners
        PROVE  o[p] \in Screens /\ (RouteOf[p] \notin Screens => Claimants(p) \subseteq {o[p]})
    <2>1. Claims(owners, p) \in SUBSET Screens
      BY DEF Claims, Fair
    <2>2. IsFiniteSet(Claims(owners, p))
      BY <2>1, ScreensFinite
    <2>3. PICK x : Claims(owners, p) = {x}
      BY <1>2, <2>2, FS_Singleton
    <2>4. o[p] = x /\ x \in Screens
      BY <1>2, <2>1, <2>3
    <2>5. p \in DOMAIN path
      BY <1>2
    <2>6. ASSUME NEW r \in Claimants(p) PROVE r = x
      <3>1. PICK q \in Origins(p) : r = RouteOf[q] /\ r \in Screens
        BY DEF Claimants
      <3>2. q \in DOMAIN path
        BY <2>5, OriginsStated
      <3>3. q \in DOMAIN owners /\ owners[q] = r
        BY <3>1, <3>2 DEF Fair
      <3>4. r \in Claims(owners, p)
        BY <3>1, <3>3 DEF Claims
      <3> QED BY <2>3, <3>4
    <2> QED BY <2>4, <2>6
  <1>4. ASSUME NEW p \in DOMAIN owners
        PROVE  o[p] \in Screens /\ (RouteOf[p] \notin Screens => Claimants(p) \subseteq {o[p]})
    BY <1>2 DEF Fair
  <1>5. DOMAIN o \subseteq DOMAIN path
    BY <1>2 DEF Fair
  <1>6. \A p \in DOMAIN path : RouteOf[p] \in Screens => p \in DOMAIN o /\ o[p] = RouteOf[p]
    BY <1>2 DEF Fair
  <1>7. Fair(o)
    BY <1>3, <1>4, <1>5, <1>6 DEF Fair
  <1> QED BY <1>1, <1>7

\* The first round gives an owner to the states that one screen leads to.
LEMMA FirstRoundSettles ==
    ASSUME Stated
    PROVE  Settling(Round(DirectOwners))
  <1>1. ASSUME NEW p \in DOMAIN path PROVE Claims(DirectOwners, p) = Claimants(p)
    <2>1. Origins(p) \subseteq DOMAIN path
      BY OriginsStated
    <2> QED BY <2>1 DEF Claims, Claimants, DirectOwners
  <1>2. \A p \in DOMAIN path : Cardinality(Claims(DirectOwners, p)) = 1 => p \in DOMAIN Round(DirectOwners)
    BY RoundGrows
  <1> QED BY <1>1, <1>2 DEF Settling

\* The owners are fair, and only the states that no screen leads to, or that screens
\* share, have none.
LEMMA OwnersFair ==
    ASSUME Typed, Stated
    PROVE  Fair(Owners) /\ Settling(Owners)
  <1>1. PICK l \in Nat : \E f : /\ l = Cardinality(DOMAIN path)
                                /\ f = [n \in 0 .. l |-> OwnersAt(f, n)]
                                /\ Owners = f[l]
    BY OwnersUnfold
  <1>2. PICK f : /\ l = Cardinality(DOMAIN path)
                 /\ f = [n \in 0 .. l |-> OwnersAt(f, n)]
                 /\ Owners = f[l]
    BY <1>1
  <1> DEFINE Good(m) == Fair(f[m]) /\ (m # 0 => Settling(f[m]))
             Bad == {m \in 0 .. l : ~Good(m)}
  <1>3. ASSUME Bad # {} PROVE FALSE
    <2>1. PICK m \in Bad : \A k \in Bad : m <= k
      <3>1. Bad \in SUBSET Nat
        OBVIOUS
      <3> HIDE DEF Bad
      <3> QED BY <1>3, <3>1, SmallestElement
    <2>2. m \in 0 .. l /\ ~Good(m)
      BY <2>1
    <2>3. f[m] = OwnersAt(f, m)
      BY <1>2, <2>2
    <2>4. CASE m = 0
      <3>1. f[m] = DirectOwners
        BY <2>3, <2>4 DEF OwnersAt
      <3> QED BY <2>2, <2>4, <3>1, DirectFair
    <2>5. CASE m # 0
      <3>1. m - 1 \in 0 .. l /\ ~(m <= m - 1)
        BY <2>2, <2>5
      <3>2. m - 1 \notin Bad
        BY <2>1, <3>1
      <3>3. Good(m - 1)
        BY <3>1, <3>2
      <3> HIDE DEF Bad
      <3>4. PICK o : o = f[m - 1]
        OBVIOUS
      <3>5. f[m] = Round(o)
        BY <2>3, <2>5, <3>4 DEF OwnersAt
      <3>6. Fair(f[m])
        BY <3>3, <3>4, <3>5, RoundFair
      <3>7. CASE m = 1
        <4>1. o = DirectOwners
          <5>1. f[0] = OwnersAt(f, 0)
            BY <1>2
          <5> QED BY <3>4, <3>7, <5>1 DEF OwnersAt
        <4>2. Settling(f[m])
          BY <3>5, <4>1, FirstRoundSettles
        <4> QED BY <2>2, <3>6, <4>2
      <3>8. CASE m # 1
        <4>1. Settling(o)
          <5>1. m - 1 # 0
            BY <2>2, <3>8
          <5> QED BY <3>3, <3>4, <5>1
        <4>2. DOMAIN o \subseteq DOMAIN Round(o)
          BY RoundGrows
        <4>3. Settling(f[m])
          BY <3>5, <4>1, <4>2 DEF Settling
        <4> QED BY <2>2, <3>6, <4>3
      <3> QED BY <3>7, <3>8
    <2> QED BY <2>4, <2>5
  <1>4. Good(l)
    BY <1>3
  <1>5. CASE l = 0
    <2>1. DOMAIN path = {}
      BY <1>2, <1>5, FS_EmptySet DEF Stated
    <2>2. Settling(Owners)
      BY <2>1 DEF Settling
    <2> QED BY <1>2, <1>4, <2>2
  <1>6. CASE l # 0
    BY <1>2, <1>4, <1>6
  <1> QED BY <1>5, <1>6

-----------------------------------------------------------------------------
(* What the knowledge built keeps. *)

LEMMA SharedLost ==
    ASSUME Typed, Stated
    PROVE  OnlySharedStatesAreLost(Owners)
  <1>1. PICK o : o = Owners
    OBVIOUS
  <1>2. Fair(o) /\ Settling(o)
    BY <1>1, OwnersFair
  <1>3. ASSUME NEW p \in DOMAIN path \ DOMAIN o, RouteOf[path[p].root] \in Screens
        PROVE  Cardinality({RouteOf[q] : q \in Origins(p)} \cap Screens) > 1
    <2>1. PICK S : S = Claimants(p)
      OBVIOUS
    <2>2. RouteOf[path[p].root] \in S
      BY <1>3, <2>1, OriginsStated DEF Claimants
    <2>3. IsFiniteSet(S)
      BY <2>1, ScreensFinite DEF Claimants
    <2>4. PICK c : c = Cardinality(S)
      OBVIOUS
    <2>5. c \in Nat /\ c # 0 /\ c # 1
      BY <1>2, <2>1, <2>2, <2>3, <2>4, FS_CardinalityType, FS_EmptySet DEF Settling
    <2>6. c > 1
      BY <2>5
    <2> QED BY <2>1, <2>4, <2>6 DEF Claimants
  <1>4. ASSUME NEW t \in flow, t \notin BuiltFlow(o)
        PROVE  \E p \in {t[1], t[3]} : RouteOf[p] \notin Screens
    <2>1. t[1] \in DOMAIN path /\ t[3] \in DOMAIN path
      BY DEF Stated
    <2>2. t[1] \notin DOMAIN o \/ t[3] \notin DOMAIN o
      BY <1>4 DEF BuiltFlow, Built
    <2> QED BY <1>2, <2>1, <2>2 DEF Fair
  <1>5. OnlySharedStatesAreLost(o)
    BY <1>3, <1>4 DEF OnlySharedStatesAreLost, Built
  <1> QED BY <1>1, <1>5

LEMMA Earned ==
    ASSUME Typed, Stated
    PROVE  PartsAreEarned(Owners)
  <1>1. PICK o : o = Owners
    OBVIOUS
  <1>2. Fair(o)
    BY <1>1, OwnersFair
  <1>3. ASSUME NEW r \in Screens, NEW part \in PartsOf(r, o)
        PROVE  \E p \in DOMAIN path :
                  /\ \E shown \in Named(p) : shown.kind = part.kind /\ shown.name = part.name
                  /\ \/ p = app.entry[r]
                     \/ RouteOf[p] \notin Screens /\ {RouteOf[q] : q \in Origins(p)} \cap Screens \subseteq {r}
    <2>1. PICK shown \in Named(app.entry[r]) \cup Projected(r, o) :
              shown.kind = part.kind /\ shown.name = part.name
      BY DEF PartsOf, Merge
    <2>2. CASE shown \in Named(app.entry[r])
      <3>1. app.entry[r] \in DOMAIN path
        BY DEF Stated
      <3> QED BY <2>1, <2>2, <3>1
    <2>3. CASE shown \in Projected(r, o)
      <3>1. PICK p \in DOMAIN o : o[p] = r /\ RouteOf[p] # r /\ shown \in Named(p)
        BY <2>3 DEF Projected, Built
      <3>2. p \in DOMAIN path
        BY <1>2 DEF Fair
      <3>3. RouteOf[p] \notin Screens /\ Claimants(p) \subseteq {r}
        BY <1>2, <3>1, <3>2 DEF Fair
      <3> QED BY <2>1, <3>1, <3>2, <3>3 DEF Claimants
    <2> QED BY <2>1, <2>2, <2>3
  <1>4. ASSUME NEW t \in flow, Category[t[2]] = "mutative", RouteOf[t[1]] \in Screens, t[3] \in DOMAIN o,
               NEW part \in PartsOf(RouteOf[t[1]], o), part.kind = "control", part.name = Pressed[t[2]]
        PROVE  part.mutative
    <2>1. t[1] \in DOMAIN path
      BY DEF Stated
    <2>2. t[1] \in DOMAIN o /\ o[t[1]] = RouteOf[t[1]]
      BY <1>2, <1>4, <2>1 DEF Fair
    <2>3. t \in BuiltFlow(o)
      BY <1>4, <2>2 DEF BuiltFlow, Built
    <2>4. PICK r : r = RouteOf[t[1]]
      OBVIOUS
    <2>5. PICK twin \in Merge(Named(app.entry[r]) \cup Projected(r, o)) :
              part = [kind |-> twin.kind, name |-> twin.name, mutative |-> Mutative(twin, r, o)]
      BY <2>4 DEF PartsOf
    <2>6. twin.kind = "control" /\ twin.name = Pressed[t[2]]
      BY <1>4, <2>5
    <2>7. Mutative(twin, r, o)
      BY <1>4, <2>2, <2>3, <2>4, <2>6 DEF Mutative
    <2>8. part.mutative = Mutative(twin, r, o)
      BY <2>5
    <2> HIDE DEF Mutative
    <2> QED BY <2>7, <2>8, Zenon
  <1>5. PartsAreEarned(o)
    BY <1>3, <1>4 DEF PartsAreEarned, Built
  <1> QED BY <1>1, <1>5

-----------------------------------------------------------------------------
(* The modules. *)

\* What SubSeq gives of the first elements of a sequence.
LEMMA FirstOf ==
    ASSUME NEW S, NEW s \in Seq(S), NEW l \in 0 .. Len(s)
    PROVE  /\ SubSeq(s, 1, l) \in Seq(S) /\ Len(SubSeq(s, 1, l)) = l
           /\ \A k \in 1 .. l : SubSeq(s, 1, l)[k] = s[k]
           /\ IsPrefix(SubSeq(s, 1, l), s)
  <1>1. /\ SubSeq(s, 1, l) \in Seq(S) /\ Len(SubSeq(s, 1, l)) = l
        /\ \A k \in 1 .. l : SubSeq(s, 1, l)[k] = s[k]
    OBVIOUS
  <1>2. PICK u \in Seq(S) : u = SubSeq(s, 1, l)
    BY <1>1
  <1>3. SubSeq(u, 1, l) = u
    BY <1>1, <1>2
  <1> QED BY <1>1, <1>2, <1>3 DEF IsPrefix

\* A sequence begins with another when their first elements are the same.
LEMMA PrefixPointwise ==
    ASSUME NEW S, NEW s \in Seq(S), NEW u \in Seq(S)
    PROVE  IsPrefix(s, u) <=> Len(s) <= Len(u) /\ \A k \in 1 .. Len(s) : s[k] = u[k]
  <1>1. PICK l \in Nat : l = Len(s)
    OBVIOUS
  <1>2. SubSeq(s, 1, l) = s
    BY <1>1
  <1>3. ASSUME l <= Len(u) PROVE SubSeq(u, 1, l) = s <=> \A k \in 1 .. l : s[k] = u[k]
    <2>1. l \in 0 .. Len(u)
      BY <1>3
    <2>2. PICK v \in Seq(S) : v = SubSeq(u, 1, l) /\ Len(v) = l /\ \A k \in 1 .. l : v[k] = u[k]
      BY <2>1, FirstOf
    <2>3. v = s <=> \A k \in 1 .. l : s[k] = v[k]
      BY <1>1, <2>2
    <2> QED BY <2>2, <2>3
  <1> QED BY <1>1, <1>2, <1>3 DEF IsPrefix

\* The menus are sequences, and those above them are menus too.
LEMMA MenusClosed ==
    ASSUME Navigable, NEW m \in Menus
    PROVE  /\ m \in Seq(EventsOf({"expand_menu"})) /\ m # <<>>
           /\ Front(m) \in Seq(EventsOf({"expand_menu"}))
           /\ IsPrefix(Front(m), m)
           /\ Front(m) \in Menus \cup {<<>>}
  <1>1. PICK p \in DOMAIN nav : m \in Prefixes(nav[p].menus) /\ m # <<>>
    BY DEF Menus
  <1>2. PICK E : E = EventsOf({"expand_menu"})
    OBVIOUS
  <1>3. PICK s \in Seq(E) : s = nav[p].menus
    BY <1>2 DEF Navigable, Reached
  <1>4. PICK l \in 0 .. Len(s) : m = SubSeq(s, 1, l)
    BY <1>1, <1>3 DEF Prefixes
  <1>5. m \in Seq(E) /\ Len(m) = l /\ l # 0 /\ \A k \in 1 .. l : m[k] = s[k]
    <2>1. m \in Seq(E) /\ Len(m) = l /\ \A k \in 1 .. l : m[k] = s[k]
      BY <1>4, FirstOf
    <2> QED BY <1>1, <2>1
  <1>6. l - 1 \in 0 .. l /\ l - 1 \in 0 .. Len(s) /\ l \in Nat
    BY <1>4, <1>5
  <1>7. Front(m) = SubSeq(m, 1, l - 1)
    BY <1>5 DEF Front
  <1>8. Front(m) \in Seq(E) /\ Len(Front(m)) = l - 1 /\ IsPrefix(Front(m), m) /\ \A k \in 1 .. l - 1 : Front(m)[k] = m[k]
    BY <1>5, <1>6, <1>7, FirstOf
  <1>9. PICK v \in Seq(E) : v = SubSeq(s, 1, l - 1) /\ Len(v) = l - 1 /\ \A k \in 1 .. l - 1 : v[k] = s[k]
    BY <1>6, FirstOf
  <1>10. Front(m) = v
    <2>1. PICK u \in Seq(E) : u = Front(m) /\ Len(u) = l - 1 /\ \A k \in 1 .. l - 1 : u[k] = m[k]
      BY <1>8
    <2>2. \A k \in 1 .. l - 1 : u[k] = v[k]
      BY <1>5, <1>6, <1>9, <2>1
    <2>3. u = v
      BY <1>6, <1>9, <2>1, <2>2
    <2> QED BY <2>1, <2>3
  <1>11. Front(m) \in Prefixes(nav[p].menus)
    BY <1>3, <1>6, <1>9, <1>10 DEF Prefixes
  <1> QED BY <1>1, <1>2, <1>5, <1>8, <1>11 DEF Menus

\* The screens below a menu are below the menu above it.
LEMMA SubtreeAbove ==
    ASSUME Navigable, NEW m \in Menus
    PROVE  SubtreeRoutes(m) \subseteq SubtreeRoutes(Front(m))
  <1> DEFINE E == EventsOf({"expand_menu"})
  <1>1. m \in Seq(E) /\ Front(m) \in Seq(E) /\ IsPrefix(Front(m), m)
    BY MenusClosed
  <1>2. ASSUME NEW n \in Menus, IsPrefix(m, n) PROVE IsPrefix(Front(m), n)
    <2>1. n \in Seq(E)
      BY MenusClosed
    <2>2. PICK f : f = Front(m)
      OBVIOUS
    <2> HIDE DEF E
    <2>3. Len(f) <= Len(m) /\ \A k \in 1 .. Len(f) : f[k] = m[k]
      BY <1>1, <2>2, PrefixPointwise
    <2>4. Len(m) <= Len(n) /\ \A k \in 1 .. Len(m) : m[k] = n[k]
      BY <1>1, <1>2, <2>1, PrefixPointwise
    <2>5. Len(f) <= Len(n) /\ \A k \in 1 .. Len(f) : f[k] = n[k]
      BY <1>1, <2>1, <2>2, <2>3, <2>4
    <2> QED BY <1>1, <2>1, <2>2, <2>5, PrefixPointwise
  <1> QED BY <1>2 DEF SubtreeRoutes

LEMMA Tree ==
    ASSUME Navigable
    PROVE  ModulesAreATree
  <1>1. ASSUME NEW m \in Modules PROVE Parent(m) = Front(m)
    <2>1. m \in Menus
      BY DEF Modules
    <2>2. CASE Front(m) = <<>>
      BY <2>2 DEF Parent
    <2>3. CASE Front(m) # <<>>
      <3>1. Front(m) \in Menus
        BY <2>1, <2>3, MenusClosed
      <3>2. SubtreeRoutes(m) \subseteq SubtreeRoutes(Front(m))
        BY <2>1, SubtreeAbove
      <3>3. Front(m) \in Modules
        BY <3>1, <3>2 DEF Modules
      <3> QED BY <3>3 DEF Parent
    <2> QED BY <2>2, <2>3
  <1> QED BY <1>1 DEF ModulesAreATree

\* Of the modules that link to a screen one is the deepest.
LEMMA DeepestLinks ==
    ASSUME Navigable, NEW r, Linking(r) # {}
    PROVE  Deepest(r) \in Linking(r) /\ \A n \in Linking(r) : Len(n) <= Len(Deepest(r))
  <1>1. PICK most \in Nat : \A p \in DOMAIN nav : Len(nav[p].menus) <= most
    BY DEF Navigable
  <1>2. ASSUME NEW m \in Linking(r) PROVE Len(m) \in Nat /\ Len(m) <= most
    <2>1. PICK p \in DOMAIN nav : nav[p].menus = m
      BY DEF Linking, DirectRoutes
    <2>2. m \in Seq(EventsOf({"expand_menu"}))
      BY <2>1 DEF Navigable, Reached
    <2> QED BY <1>1, <2>1, <2>2
  <1> DEFINE D == {most - Len(m) : m \in Linking(r)}
  <1>3. D \in SUBSET Nat /\ D # {}
    BY <1>2
  <1>4. PICK d \in D : \A k \in D : d <= k
    <2> HIDE DEF D
    <2> QED BY <1>3, SmallestElement
  <1>5. PICK m \in Linking(r) : d = most - Len(m)
    BY <1>4
  <1>6. \A n \in Linking(r) : Len(n) <= Len(m)
    <2>1. ASSUME NEW n \in Linking(r) PROVE Len(n) <= Len(m)
      <3>1. most - Len(n) \in D
        OBVIOUS
      <3>2. most - Len(m) <= most - Len(n)
        BY <1>4, <1>5, <3>1
      <3> QED BY <1>2, <3>2
    <2> QED BY <2>1
  <1> HIDE DEF D
  <1>7. \E x \in Linking(r) : \A n \in Linking(r) : Len(n) <= Len(x)
    BY <1>6
  <1> QED BY <1>7 DEF Deepest

LEMMA MenusKept ==
    ASSUME Typed, Rooted, Buildable
    PROVE  ScreensKeepTheirMenu
  <1> USE DEF Buildable
  <1>1. ASSUME NEW t \in flow \ torn, NEW r \in NewLinks(t[1], t[3]) \cap Screens,
               Category[t[2]] = "expand_menu", RouteOf[t[1]] = Home, OneBranch(r),
               \E menus \in app.menus[t[3]] : Inside(menus), t[3] \in Page
        PROVE  /\ IsPrefix(EntryPath, ModuleOf(r))
               /\ \E menus \in app.menus[t[3]] : Len(menus) <= Len(ModuleOf(r))
    <2>1. r \in ToSet(app.links[t[3]])
      BY <1>1 DEF NewLinks
    <2>2. \A menus \in app.menus[t[3]] : Inside(menus)
      BY <1>1, <2>1 DEF OneBranch
    <2>3. Shows(t)
      BY DEF Navigable
    <2>4. t[3] \in DOMAIN nav /\ r \in nav[t[3]].links
      BY <1>1, <2>2, <2>3 DEF Shows
    <2>5. PICK m : m = nav[t[3]].menus
      OBVIOUS
    <2>6. m \in Seq(EventsOf({"expand_menu"})) /\ m \in app.menus[t[3]]
      BY <2>4, <2>5 DEF Navigable, Reached
    <2>7. Inside(m)
      BY <2>2, <2>6
    <2>8. m # <<>>
      BY <2>7, CrawlAssumption DEF Inside, IsPrefix
    <2>9. m \in Prefixes(m) /\ IsPrefix(m, m)
      <3>1. PICK l \in Nat : l = Len(m)
        BY <2>6
      <3>2. SubSeq(m, 1, l) = m /\ l \in 0 .. l
        BY <2>6, <3>1
      <3>3. m \in Prefixes(m)
        BY <3>1, <3>2, Zenon DEF Prefixes
      <3> QED BY <3>1, <3>2, <3>3 DEF IsPrefix
    <2>10. m \in Menus
      BY <2>4, <2>5, <2>8, <2>9 DEF Menus
    <2>11. r \in DirectRoutes(m)
      BY <2>4, <2>5 DEF DirectRoutes
    <2>12. m \in Linking(r)
      <3>1. r \in SubtreeRoutes(m)
        BY <2>9, <2>10, <2>11 DEF SubtreeRoutes
      <3> QED BY <1>1, <2>10, <2>11, <3>1 DEF Linking, Modules
    <2>13. PICK n : n = Deepest(r)
      OBVIOUS
    <2>14. n \in Linking(r) /\ Len(m) <= Len(n)
      BY <2>12, <2>13, DeepestLinks
    <2>15. PICK p \in DOMAIN nav : nav[p].menus = n /\ r \in nav[p].links
      BY <2>14 DEF Linking, DirectRoutes
    <2>16. Reached(p)
      BY DEF Navigable
    <2>17. p \in Page
      BY DEF Typed, Rooted
    <2>18. r \in ToSet(app.links[p]) /\ n \in app.menus[p]
      BY <2>15, <2>16 DEF Reached
    <2>19. scope = "module"
      BY <2>7 DEF Inside
    <2>20. \E menus \in app.menus[p] : Inside(menus)
      BY <2>15, <2>16, <2>19 DEF Reached
    <2>21. Inside(n)
      BY <1>1, <2>17, <2>18, <2>20 DEF OneBranch
    <2>22. ModuleOf(r) = n
      BY <2>12, <2>13 DEF ModuleOf
    <2> QED BY <2>6, <2>14, <2>21, <2>22 DEF Inside
  <1>2. \A t \in flow : t[3] \in Page
    BY DEF Stated, Rooted
  <1> QED BY <1>1, <1>2 DEF ScreensKeepTheirMenu

\* The knowledge built from a crawl of any application keeps what was observed and where:
\* whatever the crawl registered, in whatever order and with whatever failures, no state
\* but those two screens share is lost, no part is given to a screen that did not show
\* it, and the menus of a module keep their parents and the screens they reveal, except
\* those revealed by a transition whose page has no node in the graph, because the write
\* of its artifacts raised (CanonicalKnowledgeBuilder.build, _persist_ui_event_state).
THEOREM BuildKeeps == Spec => []BuildKeepsTheCrawl
  <1>1. Init => Buildable
    BY InitBuildable
  <1>2. Inv /\ Inv' /\ Guided' /\ Buildable /\ [Next]_vars => Buildable'
    BY StepBuildable
  <1>3. Inv /\ Buildable => BuildKeepsTheCrawl
    <2> SUFFICES ASSUME Inv, Buildable PROVE BuildKeepsTheCrawl
      OBVIOUS
    <2>1. Typed /\ Rooted /\ Stated /\ Navigable
      BY DEF Inv, Buildable
    <2> HIDE DEF Inv
    <2> QED BY <2>1, SharedLost, Earned, Tree, MenusKept DEF BuildKeepsTheCrawl
  <1>4. Spec => []Buildable
    BY <1>1, <1>2, Invariance, StaysGuided, PTL DEF Spec
  <1> QED BY <1>3, <1>4, Invariance, PTL

=============================================================================
