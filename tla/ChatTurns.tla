----------------------------- MODULE ChatTurns -----------------------------
(***************************************************************************)
(* The turns of the conversations with the assistant (api/routes/chat.py,  *)
(* retrieval/conversation_store.py, conversation_context.py and the        *)
(* control of retriever.py).                                               *)
(*                                                                         *)
(* The endpoint is a coroutine that never awaits, so the process takes one *)
(* turn at a time.  A turn is several steps: it loads the conversation,    *)
(* turns the route hint into context, reads the ACTIVE version, narrows    *)
(* what the question names, searches the two indexes and the graph, reads  *)
(* the reviewed knowledge again, and lets the model write.  Reviews, the   *)
(* promotion of a version and the projections commit in between, from      *)
(* other threads and processes; a turn that raises leaves the conversation *)
(* as it was.  The vector index may be as old as it likes.                 *)
(***************************************************************************)
EXTENDS RankedEvidence

CONSTANTS
    Conversations,
    Requests,    \* what clients send: [q, route, condition, graph]
    Described,   \* screens with an approved description, see SemanticLifecycle
    Imported,    \* Imported[v]: the ids that version v has
    Versions,    \* 1..n, promoted in this order
    Indexed,     \* Indexed[v]: what the vector index may still have of v
    MaxEntries, MaxHits,
    Contested, MaxTurns, MaxReviews  \* bounds of the model: <<version, item, status>> reviewed

Statuses == {"PENDING", "APPROVED", "CORRECTED", "REJECTED"}
Questions == [intent : Intents, says : [Titles -> 0..100],
              cue : BOOLEAN, brief : BOOLEAN, executes : BOOLEAN]

ASSUME ChatAssumption ==
    /\ \A request \in Requests : request.q \in Questions
    /\ Cardinality(Versions) \in Nat \ {0} /\ Versions = 1..Cardinality(Versions)
    /\ {Imported, Indexed} \subseteq [Versions -> SUBSET Item]
    /\ Described \subseteq {i \in Item : TypeOf[i] = "screen"}
    /\ Contested \subseteq Versions \X Item \X Statuses
    /\ MaxEntries \in Nat \ {0} /\ {MaxHits, MaxTurns, MaxReviews} \subseteq Nat

VARIABLES
    know,    \* the items of each version: [status, fixed]
    active,  \* the ACTIVE version
    graph,   \* the items that Neo4j has of each version
    store,   \* the conversations, least recently used first: [conv, state]
    turn,    \* the turn in course
    turns,   \* delivered turns
    reviews, \* reviews made
    known,   \* history: the entities each conversation was shown
    since    \* history: the turn its screen and its module were set in
vars == <<know, active, graph, store, turn, turns, reviews, known, since>>

NoEntity == [id |-> 0, label |-> ""]
NoState == [version |-> 0, screen |-> NoEntity, module |-> NoEntity]
Idle == [phase |-> "idle"]

(* ------------------------- the store ----------------------------------- *)

Entry(s, c) == {e \in Elements(s) : e.conv = c}
Others(s, c) == Within(s, {e \in Elements(s) : e.conv # c})

\* load and save move the entry to the end; only save evicts.
Load(s, c) == IF Entry(s, c) = {} THEN NoState ELSE (CHOOSE e \in Entry(s, c) : TRUE).state
Put(s, c, state) == Append(Others(s, c), [conv |-> c, state |-> state])
Touch(s, c) == IF Entry(s, c) = {} THEN s ELSE Put(s, c, Load(s, c))
\* Mutant of Save: room is made before the new entry is counted.
SaveAfterEviction(s, c, state) ==
    Put(SubSeq(s, IF Len(s) > MaxEntries THEN 2 ELSE 1, Len(s)), c, state)
Save(s, c, state) == LET all == Put(s, c, state)
                         over == IF Len(all) > MaxEntries THEN Len(all) - MaxEntries ELSE 0
                     IN  SubSeq(all, over + 1, Len(all))

(* ------------------------- the context --------------------------------- *)

\* A route names a screen when exactly one reviewed screen has it now; the
\* query finds a screen by its imported route, or because it is corrected.
OnRoute(k, route) ==
    {i \in Reviewed(k) : /\ TypeOf[i] = "screen" /\ Route(k, i) = route
                         /\ RouteOf[i] = route \/ k[i].status = "CORRECTED"}
RouteState(v, route) ==
    LET found == OnRoute(know[v], route)
        screen == CHOOSE i \in found : TRUE
    IN  [NoState EXCEPT !.version = v,
            !.screen = IF Cardinality(found) = 1
                       THEN [id |-> screen, label |-> Label(know[v], screen)] ELSE NoEntity]

StateMatches(state, v) == state.version = v

Names(r) == Ambiguous(r) # {} \/ \E c \in r : c.score >= 80
Switches(r, state) ==
    \E c \in r : /\ c.score >= 80
                 /\ \/ TypeOf[c.id] = "screen" /\ c.id # state.screen.id
                    \/ TypeOf[c.id] = "module" /\ c.id # state.module.id
                    \/ TypeOf[c.id] = "erp_system"

Inherited(q, state) ==
    IF state.screen # NoEntity THEN state.screen
    ELSE IF q.intent = "LOCATE_SCREEN" THEN state.module ELSE NoEntity

Mode(q, r, state, v) ==
    LET reuse == q.cue /\ StateMatches(state, v) /\ state.screen # NoEntity /\ ~Switches(r, state)
        wants == q.cue \/ (StateMatches(state, v) /\ q.intent \in Reusable /\ q.brief)
    IN  IF (Names(r) /\ ~reuse) \/ ~wants THEN "DIRECT"
        ELSE IF ~StateMatches(state, v) \/ Inherited(q, state) = NoEntity
             THEN "CLARIFICATION_REQUIRED"
        ELSE "CONTEXTUALIZED"

Contextual(q, entity) == [q EXCEPT !.says[entity.label] = 100]

\* The narrowing of a direct question that also names one screen.
ByScreen(k, q, r) ==
    LET types == Targets[q.intent]
        screens == Resolve(k, q, <<"screen">>, Item)
        named == {c \in screens : c.id \in Primary(screens) /\ c.score >= 97}
        inside == Resolve(k, q, types, UNION {InScreen(k, c.id) : c \in named})
    IN  IF Ambiguous(r) # {} /\ ~q.executes /\ "screen" \in Elements(types) /\ inside # {}
        THEN inside ELSE r

ByContext(k, q, entity) ==
    LET r == Resolve(k, q, Targets[q.intent], Item)
    IN  IF TypeOf[entity.id] = "screen" THEN ScopeTo(k, r, entity.id, entity.label) ELSE r

\* The context that a turn leaves to the next one.
Shown(k, sources, type) ==
    LET found == Within(sources, {i \in Item : TypeOf[i] = type})
    IN  IF found = <<>> THEN NoEntity ELSE [id |-> Head(found), label |-> Label(k, Head(found))]
\* Mutant of KeptModule: the module is kept whatever screen comes.
KeptModuleOfVersion(prev, v, screen) ==
    IF StateMatches(prev, v) THEN prev.module ELSE NoEntity
KeptModule(prev, v, screen) ==
    IF StateMatches(prev, v) /\ (screen = NoEntity \/ screen.id = prev.screen.id)
    THEN prev.module ELSE NoEntity
NextState(prev, v, k, sources) ==
    LET screen == Shown(k, sources, "screen")
        module == Shown(k, sources, "module")
    IN  [version |-> v,
         screen |-> IF screen = NoEntity /\ StateMatches(prev, v) THEN prev.screen ELSE screen,
         module |-> IF module = NoEntity THEN KeptModule(prev, v, screen) ELSE module]

(* ------------------------- the steps of a turn -------------------------- *)

Init ==
    /\ know = [v \in Versions |-> [i \in Imported[v] |-> [status |-> "APPROVED", fixed |-> FALSE]]]
    /\ active = 1 /\ graph = [v \in Versions |-> IF v = 1 THEN Imported[1] ELSE {}]
    /\ store = <<>> /\ turn = Idle /\ turns = 0 /\ reviews = 0
    /\ known = [c \in Conversations |-> {}]
    /\ since = [c \in Conversations |-> [screen |-> 0, module |-> 0]]

World == <<know, active, graph, reviews>>
History == <<turns, known, since>>
At(phase) == turn.phase = phase
Reading == turn.phase \in {"understood", "narrowed", "searched", "writing", "decided"}

Ask(c, request) ==
    /\ At("idle") /\ turns < MaxTurns
    /\ store' = Touch(store, c)
    /\ turn' = [phase |-> "asked", conv |-> c, q |-> request.q, route |-> request.route,
                condition |-> request.condition, graph |-> request.graph,
                loaded |-> Load(store, c), prev |-> Load(store, c), hinted |-> {}]
    /\ UNCHANGED <<World, History>>

\* A hint replaces the context, also when it names nothing.
UseRoute ==
    /\ At("asked") /\ turn.route # ""
    /\ LET state == RouteState(active, turn.route)
       IN  turn' = [turn EXCEPT !.phase = "routed", !.prev = state,
                                !.hinted = {<<active, state.screen.id>>}]
    /\ UNCHANGED <<World, store, History>>

\* The version is read here again: a promotion may have come in between.
Understand ==
    /\ At("routed") \/ (At("asked") /\ turn.route = "")
    /\ LET k == know[active]
           r == Resolve(k, turn.q, Targets[turn.q.intent], Item)
       IN  turn' = [phase |-> "understood", conv |-> turn.conv, q |-> turn.q,
                    condition |-> turn.condition, graph |-> turn.graph,
                    loaded |-> turn.loaded, prev |-> turn.prev, hinted |-> turn.hinted,
                    version |-> active, r |-> r, mode |-> Mode(turn.q, r, turn.prev, active),
                    inherited |-> Inherited(turn.q, turn.prev),
                    semantic |-> <<>>, fused |-> <<>>, seeds |-> <<>>, walks |-> <<>>,
                    seen |-> Reviewed(k), touched |-> {}]
    /\ UNCHANGED <<World, store, History>>

\* The turn ends with the evidence e, the decision and the ids it rests on.
Concluded(t, e, decision, ids) ==
    [conv |-> t.conv, q |-> t.q, version |-> t.version, mode |-> t.mode, inherited |-> t.inherited,
     loaded |-> t.loaded, hinted |-> t.hinted, seen |-> t.seen, touched |-> t.touched,
     phase |-> IF decision = "GROUNDED_LLM" /\ t.condition = "C" THEN "writing" ELSE "decided",
     evidence |-> e, ids |-> ids,
     decision |-> IF decision = "GROUNDED_LLM" /\ t.condition # "C"
                  THEN Baseline(know[t.version], e) ELSE decision,
     next |-> NextState(t.prev, t.version, know[t.version], e.sources)]

Clarify ==
    /\ At("understood") /\ turn.mode = "CLARIFICATION_REQUIRED"
    /\ LET e == NoEvidence("clarification_required")
       IN  turn' = Concluded(turn, e, Decide(turn.q, e, FALSE), {})
    /\ UNCHANGED <<World, store, History>>

Narrow ==
    /\ At("understood") /\ turn.mode # "CLARIFICATION_REQUIRED"
    /\ LET k == know[turn.version]
           q == IF turn.mode = "DIRECT" THEN turn.q ELSE Contextual(turn.q, turn.inherited)
           r == IF turn.mode = "DIRECT" THEN ByScreen(k, q, turn.r) ELSE ByContext(k, q, turn.inherited)
       IN  turn' = [turn EXCEPT !.phase = "narrowed", !.q = q, !.r = r]
    /\ UNCHANGED <<World, store, History>>

\* An unknown intent that names nothing known is not searched for.
Unanchored(t) == t.q.intent = "UNKNOWN" /\ Ambiguous(t.r) = {} /\ Seeds(t.r) = {}
GiveUp ==
    /\ At("narrowed") /\ Unanchored(turn)
    /\ LET e == NoEvidence("insufficient")
       IN  turn' = Concluded(turn, e, Decide(turn.q, e, FALSE), {})
    /\ UNCHANGED <<World, store, History>>

Hits(S) == UNION {{s \in [1..n -> S] : \A a, b \in 1..n : s[a] = s[b] => a = b} : n \in 0..MaxHits}
Authorized(t) == IF t.condition = "A" THEN {} ELSE Described \cap Reviewed(know[t.version])
Generic(t, semantic) ==
    LET named == {c.id : c \in {d \in t.r : TypeOf[d.id] = "screen" /\ d.score >= 97}}
    IN  IF t.q.intent = "UNKNOWN" /\ Cardinality(named) = 1
        THEN Within(semantic, named) ELSE semantic

\* The indexes, the fusion, the first validation and the walk of the graph.
Search(dense, hits) ==
    /\ At("narrowed") /\ ~Unanchored(turn)
    /\ LET semantic == Generic(turn, hits)
           governed == Reviewed(know[turn.version])
           ranked == Fused(Rankings(turn.r, dense, semantic))
           fused == Within(ranked, Item \ Ids(Ambiguous(turn.r)))
           seeds == IF turn.graph
                    THEN GraphSeeds(turn.q.intent, turn.r, ranked, governed) ELSE <<>>
           walks == Walks(graph[turn.version], seeds, turn.q.intent)
       IN  turn' = [turn EXCEPT !.phase = "searched", !.semantic = semantic, !.fused = fused,
                                !.seeds = seeds, !.walks = walks]
    /\ UNCHANGED <<World, store, History>>

\* The second validation, of every candidate, and all that follows from it.
Answer ==
    /\ At("searched")
    /\ LET k == know[turn.version]
           governed == Reviewed(k)
           sources == Within(CandidateIds(turn.fused, turn.walks), governed)
           e == Select(turn.q, k, turn.r, turn.seeds, sources,
                       Relations(turn.walks, governed), turn.semantic)
       IN  \E about \in AnswerScreens(turn.q, k, e) :
              LET support == Support(turn.q, k, e, about)
                  ids == support \cup {ParentOf[c] : c \in support} \cup Purpose(turn.q, k, e)
                  decision == Decide(turn.q, e, ids # {})
              IN  turn' = Concluded(turn, e, decision,
                                    IF decision = "DETERMINISTIC_ANSWER" THEN ids ELSE {})
    /\ UNCHANGED <<World, store, History>>

Write(decision) ==
    /\ At("writing") /\ decision \in {"GROUNDED_LLM", "ABSTENTION"}
    /\ turn' = [turn EXCEPT !.phase = "decided", !.decision = decision]
    /\ UNCHANGED <<World, store, History>>

Deliver ==
    /\ At("decided")
    /\ LET c == turn.conv
           sources == turn.evidence.sources
           moved == turn.next.screen.id # turn.loaded.screen.id
           named == \E i \in Elements(sources) : TypeOf[i] = "module"
       IN  /\ store' = Save(store, c, turn.next)
           /\ turns' = turns + 1
           /\ known' = [known EXCEPT ![c] = @ \cup turn.hinted \cup
                {<<turn.version, i>> : i \in {j \in Elements(sources) : TypeOf[j] \in {"screen", "module"}}}]
           /\ since' = [since EXCEPT
                ![c].screen = IF moved THEN turns + 1 ELSE @,
                ![c].module = IF named THEN turns + 1 ELSE @]
    /\ turn' = Idle
    /\ UNCHANGED World

\* An index, the graph or the model is unreachable: 503, nothing is saved.
Fail ==
    /\ ~At("idle")
    /\ turn' = Idle
    /\ UNCHANGED <<World, store, History>>

(* ------------------------- the rest of the system ----------------------- *)

Changes == [PENDING |-> {"APPROVED", "REJECTED", "CORRECTED"},
            APPROVED |-> {"CORRECTED", "REJECTED", "PENDING"},
            REJECTED |-> {"PENDING"},
            CORRECTED |-> {"APPROVED", "REJECTED", "PENDING"}]

\* Reviews are taken of ACTIVE and IMPORTED versions.  A turn remembers what
\* it could have seen reviewed and what changed under it.
Review(v, i, status) ==
    /\ reviews < MaxReviews /\ v >= active /\ i \in DOMAIN know[v]
    /\ status \in Changes[know[v][i].status]
    /\ reviews' = reviews + 1
    /\ know' = [know EXCEPT ![v][i] = [status |-> status,
            fixed |-> status = "CORRECTED" \/ (@.fixed /\ status # "PENDING")]]
    /\ turn' = IF Reading /\ turn.version = v
               THEN [turn EXCEPT !.touched = @ \cup {i},
                                 !.seen = IF status \in Publishable THEN @ \cup {i} ELSE @]
               ELSE turn
    /\ UNCHANGED <<active, graph, store, History>>

Promote ==
    /\ active + 1 \in Versions
    /\ active' = active + 1
    /\ UNCHANGED <<know, graph, store, turn, reviews, History>>

\* The projection of the ACTIVE version adds and replaces, never removes.
Project ==
    /\ graph' = [graph EXCEPT ![active] = @ \cup Reviewed(know[active])]
    /\ UNCHANGED <<know, active, store, turn, reviews, History>>

\* An entry outlives its time.  The entries are in the order they were
\* touched in, so the first one is the first to be purged.
Expire ==
    /\ store # <<>>
    /\ store' = Tail(store)
    /\ UNCHANGED <<World, turn, History>>

Next ==
    \/ \E c \in Conversations, request \in Requests : Ask(c, request)
    \/ UseRoute \/ Understand \/ Clarify \/ Narrow \/ GiveUp
    \/ \E dense \in Hits(IF At("narrowed") THEN Indexed[turn.version] ELSE {}),
          hits \in Hits(IF At("narrowed") THEN Authorized(turn) ELSE {}) : Search(dense, hits)
    \/ Answer \/ (\E d \in {"GROUNDED_LLM", "ABSTENTION"} : Write(d)) \/ Deliver \/ Fail
    \/ \E row \in Contested : Review(row[1], row[2], row[3])
    \/ Promote \/ Project \/ Expire

Spec == Init /\ [][Next]_vars

(***************************************************************************)
(* Properties                                                              *)
(***************************************************************************)

Rows == [status : Statuses, fixed : BOOLEAN]
Entities == [id : Item \cup {0}, label : Titles \cup {""}]
States == [version : Versions \cup {0}, screen : Entities, module : Entities]

\* Every variable has its type; the store holds one entry per conversation,
\* within its capacity, a screen where it says screen and a module where it
\* says module, and no context without a version.
TypeOK ==
    /\ \A v \in Versions : know[v] \in [Imported[v] -> Rows] /\ graph[v] \subseteq Imported[v]
    /\ active \in Versions /\ turns \in 0..MaxTurns /\ reviews \in 0..MaxReviews
    /\ Len(store) <= MaxEntries
    /\ \A m, n \in DOMAIN store : store[m].conv = store[n].conv => m = n
    /\ \A e \in Elements(store) :
        /\ e.conv \in Conversations /\ e.state \in States /\ e.state.version # 0
        /\ e.state.screen # NoEntity => TypeOf[e.state.screen.id] = "screen"
        /\ e.state.module # NoEntity => TypeOf[e.state.module.id] = "module"
    /\ turn.phase \in {"idle", "asked", "routed", "understood", "narrowed", "searched", "writing", "decided"}

Concluding == turn.phase \in {"writing", "decided"}
Ends(rels) == rels \cup {ParentOf[c] : c \in rels}

\* However old the vector index and the graph are and whatever is reviewed or
\* promoted meanwhile, the sources, the relations, the descriptions and the
\* evidence ids of an answer are items that were approved or corrected in
\* the version of the turn while the turn ran: an item withdrawn before the
\* question is not in it, not even as a node a relation was reached through.
AnswersAreGoverned ==
    Concluding =>
        Elements(turn.evidence.sources) \cup Ends(turn.evidence.rels)
            \cup Elements(turn.evidence.semantics) \cup turn.ids \subseteq turn.seen

\* What a turn takes from the conversation was shown to this conversation
\* before, in the same version, or is the screen of the route hint; and the
\* module that a conversation keeps is not older than the screen it keeps,
\* so no module is carried over to a screen that came later.
ContextIsEarned ==
    /\ (Reading /\ turn.mode = "CONTEXTUALIZED") =>
        <<turn.version, turn.inherited.id>> \in known[turn.conv] \cup turn.hinted
    /\ \A e \in Elements(store) :
        e.state.module # NoEntity => since[e.conv].module >= since[e.conv].screen

Answers == {"DETERMINISTIC_ANSWER", "GROUNDED_LLM", "BASELINE"}

\* The reading of the label that a review leaves while the turn runs.
Firm(i) == i \in turn.seen \ turn.touched

\* What the question names is one reviewed item, or it names a screen.
Named(i) == turn.q.says[Matched(know[turn.version], i)] >= 97
Homonyms(i, j) ==
    /\ i # j /\ TypeOf[i] = TypeOf[j]
    /\ Matched(know[turn.version], i) = Matched(know[turn.version], j)
OneReading ==
    \/ \E s \in turn.seen : TypeOf[s] = "screen" /\ (Named(s) \/ s \in turn.touched)
    \/ ~\E i, j \in Item : /\ Firm(i) /\ Firm(j) /\ Homonyms(i, j) /\ Named(i)
                          /\ TypeOf[i] \in Elements(Targets[turn.q.intent])

\* The question finds more than the resolver keeps: more items it names than
\* candidates, more it names by their imported labels than rows, or too many
\* corrected ones.
Contenders == {i \in turn.seen : TypeOf[i] \in Elements(Targets[turn.q.intent])}
Crowded ==
    \/ Cardinality({i \in Contenders : i \in turn.touched \/ Named(i)}) > MaxCandidates
    \/ Cardinality({i \in Contenders : turn.q.says[TitleOf[i]] >= 97}) > MaxRows
    \/ Cardinality({i \in Contenders :
            i \in turn.touched \/ know[turn.version][i].status = "CORRECTED"}) > MaxCorrected

\* A question that names, and names no screen, something that two reviewed
\* items of one type are called is answered by asking back, unless it asks
\* for an action: no ranking, neighbour or description picks one of them.
\* Only the limits of the resolver do, which cut a homonym without a word
\* when the question names more than they let through.
AmbiguityIsAsked ==
    (Concluding /\ turn.mode = "DIRECT" /\ turn.decision \in Answers) => OneReading \/ Crowded

\* A question understood from the conversation is answered about the screen
\* of the conversation: unless the screen is reviewed meanwhile or is found
\* under another title than it shows, or the limits of the resolver are
\* passed before the question is narrowed to the screen, a deterministic
\* answer rests on the items of that screen and its module, also when
\* another screen has the same title.
ContextIsKept ==
    (Concluding /\ turn.mode = "CONTEXTUALIZED" /\ turn.decision = "DETERMINISTIC_ANSWER") =>
        LET s == turn.inherited.id
        IN  \/ TypeOf[s] # "screen" \/ ~Firm(s) \/ Crowded
            \/ Matched(know[turn.version], s) # turn.inherited.label
            \/ turn.ids \subseteq Subtree[s] \cup {ParentOf[s]}
=============================================================================
