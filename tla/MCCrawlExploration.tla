------------------------- MODULE MCCrawlExploration -------------------------
(***************************************************************************)
(* Small ERPs for the crawler: a home page with a menu of two modules, one *)
(* of which has a submenu, three screens, one of which another route       *)
(* redirects to, a screen that is not available and a route that never     *)
(* opens.  Where the events of screen a lead is left open, so that every   *)
(* combination is explored, and in one ERP a menu leads to another route.  *)
(***************************************************************************)
EXTENDS CanonicalBuild, TLC

Pages == [home |-> "/", m1 |-> "/", m2 |-> "/", sub |-> "/", login |-> "/login",
          m3 |-> "/m", a |-> "/a", tab |-> "/a", tab2 |-> "/a", dialog |-> "/a",
          d |-> "/d", b |-> "/b", c |-> "/a/c", u |-> "/u"]

MCCategory == [menu1 |-> "expand_menu", menu2 |-> "expand_menu", submenu |-> "expand_menu",
               open |-> "mutative", save |-> "mutative", t1 |-> "tab", t2 |-> "tab", link |-> "tab", deep |-> "tab"]

Routes == {Pages[p] : p \in DOMAIN Pages} \cup {"/old", "/x"}

MCAllowed == Routes \ {"/login"}

Entry == ("/" :> "home") @@ ("/login" :> "login") @@ ("/a" :> "a") @@ ("/b" :> "b") @@
         ("/a/c" :> "c") @@ ("/d" :> "d") @@ ("/u" :> "u") @@ ("/m" :> "m3") @@ ("/old" :> "b") @@ ("/x" :> "c")

Links == [p \in DOMAIN Pages |->
            CASE p = "m1" -> <<"/a", "/u">> [] p = "sub" -> <<"/a", "/u", "/a/c">>
              [] p = "m2" -> <<"/b", "/x">> [] p = "m3" -> <<"/a/c">> [] p = "a" -> <<"/b", "/a">>
              [] p = "b" -> <<"/login", "/a">>
              [] p = "tab" -> <<"/old", "/a">> [] p = "c" -> <<"/a", "/old">> [] OTHER -> <<>>]

Events == [p \in DOMAIN Pages |->
            CASE p = "home" -> <<"menu1", "menu2">> [] p = "m1" -> <<"menu1", "submenu">>
              [] p = "a" -> <<"open", "save", "t1">> [] p = "tab" -> <<"t1", "t2">>
              [] p = "b" -> <<"link">>
              [] p = "c" -> <<"deep">> [] p = "tab2" -> <<"t1">> [] p = "dialog" -> <<"t2">> [] OTHER -> <<>>]

\* home's menus are fixed; the events of the screens lead to any of these pages.
Effects ==
    {[t1 |-> x, t2 |-> y, link |-> z] : x \in {"tab", "a"}, y \in {"tab2", "d"}, z \in {"tab", "d"}}

OpensBy(f, m) == [p \in DOMAIN Pages |->
    CASE p = "home" -> [menu1 |-> m, menu2 |-> "m2"]
      [] p = "m1" -> [menu1 |-> "home", submenu |-> "sub"]
      [] p = "a" -> [open |-> "dialog", t1 |-> f.t1]
      [] p = "tab" -> [t1 |-> "a", t2 |-> f.t2]
      [] p = "dialog" -> [t2 |-> f.t2]
      [] p = "b" -> [link |-> f.link]
      [] p = "c" -> [deep |-> "tab2"]
      [] p = "tab2" -> [t1 |-> "b"]
      [] OTHER -> <<>>]

\* The menus that lead to each page, and no others; m3 has a route of its own.
MenusTo(m) == [p \in DOMAIN Pages |->
    CASE m = "m3" /\ p \in {"m3", "login"} -> {<<>>, <<"menu1">>}
      [] p = "m1" -> {<<"menu1">>} [] p = "sub" -> {<<"menu1", "submenu">>}
      [] p = "m2" -> {<<"menu2">>} [] OTHER -> {<<>>}]

App(f, h, m) ==
    [entry |-> Entry, links |-> [Links EXCEPT !["home"] = h], global |-> {"/b"},
     events |-> Events, opens |-> OpensBy(f, m), menus |-> MenusTo(m)]

\* In the last one the menu of the module leaves the home page.
MCApplications ==
    {App(f, h, "m1") : f \in Effects, h \in {<<>>, <<"/b">>}} \cup
        {App([t1 |-> "tab", t2 |-> "d", link |-> "tab"], <<>>, "m3")}

MCDescendant == {<<"submenu", "menu1">>}
MCEntryPath == <<"menu1">>
MCKnown == <<"/a", "/a/c">>

\* The parts of the pages: open is a plain button, found mutative when pressed.
Button(name, submits) == [kind |-> "control", name |-> name, submit |-> submits]
Field(name) == [kind |-> "field", name |-> name, submit |-> FALSE]
MCParts == [p \in DOMAIN Pages |->
    CASE p = "a" -> {Button("new", FALSE), Button("user", FALSE), Field("date")}
      [] p = "d" -> {Button("new", TRUE), Field("date"), Field("total")}
      [] p = "b" -> {Field("code")}
      [] OTHER -> {}]
MCPressed == [e \in DOMAIN MCCategory |-> IF e = "open" THEN "new" ELSE e]
MCBelow == {<<"/a/c", "/a">>}

=============================================================================
