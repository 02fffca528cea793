------------------------ MODULE MCCandidatePipeline ------------------------
(***************************************************************************)
(* Two modules with a screen each, a link and a transition from one screen *)
(* to the other.  The full crawl misses the link and renames a screen; the *)
(* crawl of the first module loses the link's target, a state of its       *)
(* screen and with it the transition, which can only be kept together;     *)
(* the crawl of the second screen does not see its module.                 *)
(***************************************************************************)
EXTENDS CandidatePipeline

CONSTANTS m1, m2, s1, s2, a1, a2, k, t

MCItem == {m1, m2, s1, s2, a1, a2, k, t}
MCKindOf == [i \in MCItem |->
    CASE i \in {m1, m2} -> "module" [] i \in {s1, s2} -> "screen"
      [] i \in {a1, a2} -> "state" [] i = k -> "link" [] i = t -> "transition"]

Says(at, to, title) == [at |-> at, to |-> to, via |-> None, title |-> title]

Known == [i \in MCItem |->
    CASE i \in {m1, m2} -> Says(None, None, "name")
      [] i = s1 -> Says(m1, None, "heading") [] i = s2 -> Says(m2, None, "heading")
      [] i = a1 -> Says(s1, None, "state") [] i = a2 -> Says(s2, None, "state")
      [] i = k -> Says(s1, s2, "link") [] i = t -> Says(a1, a2, "event")]

Only(c, items) == [i \in items |-> c[i]]

FullCrawl == [Only(Known, MCItem \ {k}) EXCEPT ![s2].title = "renamed"]
ModuleCrawl == [Only(Known, {m1, s1, k}) EXCEPT ![s1].title = "route_fallback",
                                                    ![k].to = None]
ScreenCrawl == [Only(Known, {s2, a2}) EXCEPT ![s2].at = None, ![s2].title = "heading2"]

ModuleScope == [kind |-> "module", target |-> m1]
ScreenScope == [kind |-> "screen", target |-> s2]

MCObserve == [s \in {FullScope, ModuleScope, ScreenScope} |->
    CASE s = FullScope -> {FullCrawl, Known}
      [] s = ModuleScope -> {ModuleCrawl}
      [] s = ScreenScope -> {ScreenCrawl}]

MCRepeats == [s \in DOMAIN MCObserve |-> IF s = FullScope THEN 3 ELSE 1]

=============================================================================
