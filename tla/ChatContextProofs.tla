-------------------------- MODULE ChatContextProofs --------------------------
(***************************************************************************)
(* A question understood from the conversation is answered about the       *)
(* screen of the conversation, in any structure of modules, screens and    *)
(* parts that an import accepts.                                           *)
(*                                                                         *)
(* The items of a screen are those whose home it is: the first section     *)
(* says what the chain of parents of an item looks like, the second that   *)
(* a walk of the graph that starts in a screen and keeps to the edges of   *)
(* its parts stays in it.  InContext follows the screen through narrowing, *)
(* the choice of seeds, the walks and the selection, on top of Inv.        *)
(***************************************************************************)
EXTENDS ChatTurnsProofs

------------------------------------------------------------------------------
(* The structure: systems and modules, screens, their parts, and parts of parts. *)

Above == {"module", "erp_system"}
Parts == {"ui_state", "field", "control", "table", "link", "event"}
Leaves == {"table_column", "transition"}
Up(i) == IF i = 0 THEN 0 ELSE ParentOf[i]

\* The screen that an item is in, or 0.
Home(i) == IF TypeOf[i] = "screen" THEN i
           ELSE IF TypeOf[i] \in Parts THEN Up(i)
           ELSE IF TypeOf[i] \in Leaves THEN Up(Up(i)) ELSE 0

\* Nothing, or an item above the screens.
High(x) == x = 0 \/ (x \in Item /\ TypeOf[x] \in Above)

\* The types come in four ranks, and a parent is of the rank above.
LEMMA ParentFacts ==
    ASSUME NEW i \in Item
    PROVE  /\ i # 0 /\ Up(i) = ParentOf[i] /\ Up(i) \in Item \cup {0} /\ Up(0) = 0
           /\ TypeOf[i] \in Above \cup {"screen"} \cup Parts \cup Leaves
           /\ TypeOf[i] \in Above => High(Up(i))
           /\ TypeOf[i] = "screen" => High(Up(i))
           /\ TypeOf[i] \in Parts /\ Up(i) # 0 => TypeOf[Up(i)] = "screen"
           /\ TypeOf[i] \in Leaves /\ Up(i) # 0 => TypeOf[Up(i)] \in Parts
           /\ ParentOf[i] # 0 /\ TypeOf[i] \in Above => TypeOf[i] = "module"
  <1>1. /\ i \in Nat \ {0} /\ TypeOf[i] \in Types /\ ParentOf[i] \in Item \cup {0} /\ 0 \notin Item
        /\ ParentOf[i] # 0 => TypeOf[ParentOf[i]] \in ParentTypes[TypeOf[i]]
    BY ItemAssumption
  <1>2. i # 0 /\ Up(i) = ParentOf[i] /\ Up(0) = 0
    BY <1>1 DEF Up
  <1>3. PICK t, p : t = TypeOf[i] /\ p = ParentOf[i]
    OBVIOUS
  <1>4. /\ t \in Types /\ p \in Item \cup {0}
        /\ p # 0 => TypeOf[p] \in ParentTypes[t]
    BY <1>1, <1>3
  <1>5. /\ t \in {"module", "screen"} => ParentTypes[t] = Above
        /\ ParentTypes["erp_system"] = {}
        /\ t \in Parts => ParentTypes[t] = {"screen"}
        /\ ParentTypes["table_column"] = {"table"} /\ ParentTypes["transition"] = {"ui_state"}
    BY DEF ParentTypes, Above, Parts
  <1>6. t \in Above \cup {"screen"} \cup Parts \cup Leaves
    BY <1>4 DEF Types, Above, Parts, Leaves
  <1>7. t \in Above \/ t = "screen" => High(p)
    BY <1>4, <1>5 DEF High, Above
  <1>8. t \in Parts /\ p # 0 => TypeOf[p] = "screen"
    BY <1>4, <1>5
  <1>9. t \in Leaves /\ p # 0 => TypeOf[p] \in Parts
    BY <1>4, <1>5 DEF Leaves, Parts
  <1>10. p # 0 /\ t \in Above => t = "module"
    BY <1>4, <1>5 DEF Above
  <1> QED BY <1>1, <1>2, <1>3, <1>6, <1>7, <1>8, <1>9, <1>10

\* The chain of an item are the item and its ancestors, five of them at most.
LEMMA ChainIs ==
    ASSUME NEW i \in Item
    PROVE  Chain[i] = {i, Up(i), Up(Up(i)), Up(Up(Up(i))), Up(Up(Up(Up(i)))),
                       Up(Up(Up(Up(Up(i)))))} \ {0}
  <1> DEFINE F(g) == [n \in 0 .. MaxDepth |-> IF n = 0 THEN i
                                  ELSE IF g[n - 1] = 0 THEN 0 ELSE ParentOf[g[n - 1]]]
  <1>1. PICK a, b, c, d, e : /\ a = Up(i) /\ b = Up(a) /\ c = Up(b) /\ d = Up(c) /\ e = Up(d)
    OBVIOUS
  <1>2. PICK g : g = [n \in 0 .. 5 |-> IF n = 0 THEN i ELSE IF n = 1 THEN a ELSE IF n = 2 THEN b
                                       ELSE IF n = 3 THEN c ELSE IF n = 4 THEN d ELSE e]
    OBVIOUS
  <1>3. i # 0
    BY ParentFacts
  <1>4. \A n \in 0 .. 5 : g[n] = IF n = 0 THEN i ELSE IF g[n - 1] = 0 THEN 0 ELSE ParentOf[g[n - 1]]
    <2>1. g[0] = i /\ g[1] = a /\ g[2] = b /\ g[3] = c /\ g[4] = d /\ g[5] = e
      BY <1>2
    <2>2. \A x : Up(x) = IF x = 0 THEN 0 ELSE ParentOf[x]
      BY DEF Up
    <2>3. \A n \in 1 .. 5 : g[n] = Up(g[n - 1])
      <3>1. g[1] = Up(g[0]) /\ g[2] = Up(g[1]) /\ g[3] = Up(g[2]) /\ g[4] = Up(g[3]) /\ g[5] = Up(g[4])
        BY <1>1, <2>1
      <3>2. \A n \in 1 .. 5 :
              \/ n = 1 /\ n - 1 = 0
              \/ n = 2 /\ n - 1 = 1
              \/ n = 3 /\ n - 1 = 2
              \/ n = 4 /\ n - 1 = 3
              \/ n = 5 /\ n - 1 = 4
        OBVIOUS
      <3> QED BY <3>1, <3>2
    <2>4. \A n \in 0 .. 5 : n = 0 \/ n \in 1 .. 5
      OBVIOUS
    <2> QED BY <2>1, <2>2, <2>3, <2>4
  <1>5. g = F(g)
    BY <1>2, <1>4 DEF MaxDepth
  <1>6. PICK f : f = CHOOSE h : h = F(h)
    OBVIOUS
  <1>7. f = F(f)
    <2> HIDE DEF F
    <2> QED BY <1>5, <1>6, Zenon
  <1>8. \A n \in 0 .. 5 : f[n] = IF n = 0 THEN i ELSE IF f[n - 1] = 0 THEN 0 ELSE ParentOf[f[n - 1]]
    BY <1>7 DEF MaxDepth
  <1>9. f[0] = i
    BY <1>8
  <1>10. f[1] = a
    <2>1. f[1] = IF f[0] = 0 THEN 0 ELSE ParentOf[f[0]]
      BY <1>8
    <2> QED BY <1>1, <1>9, <2>1 DEF Up
  <1>11. f[2] = b
    <2>1. f[2] = IF f[1] = 0 THEN 0 ELSE ParentOf[f[1]]
      BY <1>8
    <2> QED BY <1>1, <1>10, <2>1 DEF Up
  <1>12. f[3] = c
    <2>1. f[3] = IF f[2] = 0 THEN 0 ELSE ParentOf[f[2]]
      BY <1>8
    <2> QED BY <1>1, <1>11, <2>1 DEF Up
  <1>13. f[4] = d
    <2>1. f[4] = IF f[3] = 0 THEN 0 ELSE ParentOf[f[3]]
      BY <1>8
    <2> QED BY <1>1, <1>12, <2>1 DEF Up
  <1>14. f[5] = e
    <2>1. f[5] = IF f[4] = 0 THEN 0 ELSE ParentOf[f[4]]
      BY <1>8
    <2> QED BY <1>1, <1>13, <2>1 DEF Up
  <1>15. {f[n] : n \in 0 .. MaxDepth} = {i, a, b, c, d, e}
    <2>1. 0 .. MaxDepth = {0, 1, 2, 3, 4, 5}
      BY DEF MaxDepth
    <2> QED BY <1>9, <1>10, <1>11, <1>12, <1>13, <1>14, <2>1
  <1>16. Chain[i] = {f[n] : n \in 0 .. MaxDepth} \ {0}
    BY <1>6 DEF Chain
  <1> QED BY <1>1, <1>15, <1>16

\* Above the screens there are no screens.
LEMMA HighChain ==
    ASSUME NEW i \in Item, TypeOf[i] \in Above
    PROVE  \A x \in Chain[i] : x \in Item /\ TypeOf[x] \in Above
  <1>1. \A x : High(x) => High(Up(x))
    BY ParentFacts DEF High, Up
  <1>2. High(i)
    BY DEF High
  <1>3. PICK a, b, c, d, e : /\ a = Up(i) /\ b = Up(a) /\ c = Up(b) /\ d = Up(c) /\ e = Up(d)
    OBVIOUS
  <1>4. High(a) /\ High(b) /\ High(c) /\ High(d) /\ High(e)
    BY <1>1, <1>2, <1>3
  <1>5. Chain[i] = {i, a, b, c, d, e} \ {0}
    BY <1>3, ChainIs
  <1> QED BY <1>2, <1>4, <1>5 DEF High

\* A screen has only items above it.
LEMMA ScreenChain ==
    ASSUME NEW i \in Item, TypeOf[i] = "screen"
    PROVE  /\ i \in Chain[i]
           /\ \A x \in Chain[i] : x = i \/ (x \in Item /\ TypeOf[x] \in Above /\ ParentOf[i] # 0)
  <1>1. \A x : High(x) => High(Up(x))
    BY ParentFacts DEF High, Up
  <1>2. High(Up(i)) /\ Up(i) = ParentOf[i] /\ Up(0) = 0 /\ i # 0
    BY ParentFacts
  <1>3. PICK a, b, c, d, e : /\ a = Up(i) /\ b = Up(a) /\ c = Up(b) /\ d = Up(c) /\ e = Up(d)
    OBVIOUS
  <1>4. High(a) /\ High(b) /\ High(c) /\ High(d) /\ High(e)
    BY <1>1, <1>2, <1>3
  <1>5. Chain[i] = {i, a, b, c, d, e} \ {0}
    BY <1>3, ChainIs
  <1>6. a = 0 => b = 0 /\ c = 0 /\ d = 0 /\ e = 0
    BY <1>2, <1>3
  <1>7. a = ParentOf[i]
    BY <1>2, <1>3
  <1> QED BY <1>2, <1>4, <1>5, <1>6, <1>7 DEF High

\* What is in the chain of an item: items above, if it is in a screen only when that has
\* a parent; the screen it is in; and parts of this screen.
ChainOf(i, x) ==
    \/ TypeOf[x] \in Above /\ (TypeOf[i] \in Above \/ (Home(i) # 0 /\ ParentOf[Home(i)] # 0))
    \/ TypeOf[x] = "screen" /\ x = Home(i)
    \/ TypeOf[x] \in Parts \cup Leaves /\ TypeOf[i] \in Parts \cup Leaves /\ Home(x) = Home(i)

LEMMA HomeFacts ==
    ASSUME NEW i \in Item
    PROVE  /\ \A x \in Chain[i] : x \in Item /\ ChainOf(i, x)
           /\ Home(i) # 0 => Home(i) \in Chain[i] /\ Home(i) \in Item /\ TypeOf[Home(i)] = "screen"
  <1> USE DEF ChainOf
  <1>1. /\ i # 0 /\ Up(i) = ParentOf[i] /\ Up(i) \in Item \cup {0} /\ Up(0) = 0
        /\ TypeOf[i] \in Above \cup {"screen"} \cup Parts \cup Leaves
    BY ParentFacts
  <1>2. /\ "screen" \notin Above /\ \A t \in Above : t \notin Parts /\ t \notin Leaves /\ t # "screen"
        /\ \A t \in Parts : t \notin Leaves /\ t # "screen"
        /\ \A t \in Leaves : t # "screen" /\ t \notin Parts
    BY DEF Above, Parts, Leaves
  <1>3. \A x : High(x) => High(Up(x))
    BY ParentFacts DEF High, Up
  <1>4. CASE TypeOf[i] \in Above
    <2>1. Home(i) = 0
      BY <1>2, <1>4 DEF Home
    <2> QED BY <1>4, <2>1, HighChain
  <1>5. CASE TypeOf[i] = "screen"
    <2>1. Home(i) = i
      BY <1>5 DEF Home
    <2> QED BY <1>1, <1>5, <2>1, ScreenChain
  <1>6. PICK a, b, c, d, e : /\ a = Up(i) /\ b = Up(a) /\ c = Up(b) /\ d = Up(c) /\ e = Up(d)
    OBVIOUS
  <1>7. Chain[i] = {i, a, b, c, d, e} \ {0}
    BY <1>6, ChainIs
  <1>8. CASE TypeOf[i] \in Parts
    <2>1. Home(i) = a
      BY <1>2, <1>6, <1>8 DEF Home
    <2>2. CASE a = 0
      BY <1>1, <1>6, <1>7, <1>8, <2>1, <2>2
    <2>3. CASE a # 0
      <3>1. a \in Item /\ TypeOf[a] = "screen"
        BY <1>1, <1>6, <1>8, <2>3, ParentFacts
      <3>2. High(b) /\ b = ParentOf[a]
        BY <1>6, <3>1, ParentFacts
      <3>3. High(c) /\ High(d) /\ High(e)
        BY <1>3, <1>6, <3>2
      <3>4. b = 0 => c = 0 /\ d = 0 /\ e = 0
        BY <1>1, <1>6
      <3>5. \A x \in {b, c, d, e} \ {0} : x \in Item /\ TypeOf[x] \in Above /\ b # 0
        BY <3>2, <3>3, <3>4 DEF High
      <3> QED BY <1>7, <1>8, <2>1, <2>3, <3>1, <3>2, <3>5
    <2> QED BY <2>2, <2>3
  <1>9. CASE TypeOf[i] \in Leaves
    <2>1. Home(i) = b
      BY <1>2, <1>6, <1>9 DEF Home
    <2>2. CASE a = 0
      BY <1>1, <1>6, <1>7, <1>9, <2>1, <2>2
    <2>3. CASE a # 0
      <3>1. a \in Item /\ TypeOf[a] \in Parts
        BY <1>1, <1>6, <1>9, <2>3, ParentFacts
      <3>2. Home(a) = b /\ b \in Item \cup {0} /\ (b # 0 => TypeOf[b] = "screen")
        BY <1>2, <1>6, <3>1, ParentFacts DEF Home
      <3>3. CASE b = 0
        BY <1>1, <1>6, <1>7, <1>9, <2>1, <3>1, <3>2, <3>3
      <3>4. CASE b # 0
        <4>1. High(c) /\ c = ParentOf[b]
          BY <1>6, <3>2, <3>4, ParentFacts
        <4>2. High(d) /\ High(e)
          BY <1>3, <1>6, <4>1
        <4>3. c = 0 => d = 0 /\ e = 0
          BY <1>1, <1>6
        <4>4. \A x \in {c, d, e} \ {0} : x \in Item /\ TypeOf[x] \in Above /\ c # 0
          BY <4>1, <4>2, <4>3 DEF High
        <4> QED BY <1>7, <1>9, <2>1, <2>3, <3>1, <3>2, <3>4, <4>1, <4>4
      <3> QED BY <3>3, <3>4
    <2> QED BY <2>2, <2>3
  <1> QED BY <1>1, <1>4, <1>5, <1>8, <1>9

\* The items of a screen.
LEMMA SubtreeIs ==
    ASSUME NEW s \in Item, TypeOf[s] = "screen"
    PROVE  /\ Subtree[s] = {i \in Item : Home(i) = s}
           /\ s \in Subtree[s]
  <1>1. Subtree[s] = {i \in Item : s \in Chain[i]}
    BY DEF Subtree
  <1>2. s # 0 /\ "screen" \notin Above /\ "screen" \notin Parts \cup Leaves
    BY ParentFacts DEF Above, Parts, Leaves
  <1>3. \A i \in Item : s \in Chain[i] => Home(i) = s
    BY <1>2, HomeFacts DEF ChainOf
  <1>4. \A i \in Item : Home(i) = s => s \in Chain[i]
    BY <1>2, HomeFacts
  <1>5. Home(s) = s
    BY DEF Home
  <1> QED BY <1>1, <1>3, <1>4, <1>5

\* A reviewed screen belongs to itself.
LEMMA BelongsToItself ==
    ASSUME NEW s \in Item, TypeOf[s] = "screen", NEW k
    PROVE  s \in BelongsTo(k, s)
  <1>1. ASSUME NEW x \in Chain[s], x \in Subtree[s] PROVE x = s
    <2>1. Home(x) = s /\ s # 0
      BY <1>1, SubtreeIs, ParentFacts
    <2>2. x = s \/ TypeOf[x] \in Above
      BY ScreenChain
    <2>3. TypeOf[x] \in Above => Home(x) = 0
      BY DEF Home, Above, Parts, Leaves
    <2> QED BY <2>1, <2>2, <2>3
  <1> QED BY <1>1, SubtreeIs DEF BelongsTo

\* The parent of an item of a screen is in the screen, or is the parent of the screen.
LEMMA ParentStays ==
    ASSUME NEW s \in Item, TypeOf[s] = "screen", NEW c \in Subtree[s]
    PROVE  ParentOf[c] \in Subtree[s] \cup {ParentOf[s]}
  <1>1. c \in Item /\ Home(c) = s /\ s # 0
    BY SubtreeIs, ParentFacts
  <1>2. CASE TypeOf[c] = "screen"
    BY <1>1, <1>2 DEF Home
  <1>3. CASE TypeOf[c] \in Parts
    <2>1. ParentOf[c] = s
      BY <1>1, <1>3, ParentFacts DEF Home, Parts
    <2> QED BY <2>1, SubtreeIs
  <1>4. CASE TypeOf[c] \in Leaves
    <2>1. Up(Up(c)) = s
      BY <1>1, <1>4 DEF Home, Leaves, Parts
    <2>2. PICK p : p = Up(c)
      OBVIOUS
    <2>3. p # 0
      BY <1>1, <2>1, <2>2, ParentFacts
    <2>4. p \in Item /\ TypeOf[p] \in Parts /\ p = ParentOf[c]
      BY <1>1, <1>4, <2>2, <2>3, ParentFacts
    <2>5. Home(p) = s
      BY <2>1, <2>2, <2>4 DEF Home, Parts
    <2> QED BY <2>4, <2>5, SubtreeIs
  <1>5. CASE TypeOf[c] \in Above
    BY <1>1, <1>5 DEF Home, Above, Parts, Leaves
  <1> QED BY <1>1, <1>2, <1>3, <1>4, <1>5, ParentFacts

------------------------------------------------------------------------------
(* The walks: those that start in a screen and keep to the edges of parts stay in it. *)

Structural == {"HAS_MODULE", "HAS_SUBMODULE", "HAS_SCREEN"}

\* The edges between modules and screens, and the others.
LEMMA KindFacts ==
    ASSUME NEW i \in Item
    PROVE  /\ TypeOf[i] = "module" => Kind(i) \in Structural
           /\ TypeOf[i] = "screen" => Kind(i) = "HAS_SCREEN"
           /\ TypeOf[i] \in Parts \cup Leaves => Kind(i) \notin Structural
           /\ TypeOf[i] \in {"screen"} \cup Parts \cup Leaves /\ Kind(i) = "HAS_FIELD" => TypeOf[i] = "field"
  <1>1. PICK t : t = TypeOf[i]
    OBVIOUS
  <1>2. CASE t = "module"
    BY <1>1, <1>2 DEF Kind, Structural, Parts, Leaves
  <1>3. CASE t # "module"
    <2>1. Kind(i) = [module |-> "HAS_MODULE", screen |-> "HAS_SCREEN", ui_state |-> "HAS_STATE",
                     field |-> "HAS_FIELD", control |-> "HAS_CONTROL", table |-> "HAS_TABLE",
                     table_column |-> "HAS_COLUMN", link |-> "HAS_LINK", event |-> "HAS_EVENT",
                     transition |-> "FROM_STATE"][t]
      BY <1>1, <1>3 DEF Kind
    <2> QED BY <1>1, <1>3, <2>1 DEF Structural, Parts, Leaves
  <1> QED BY <1>2, <1>3

\* A walk from an item of a screen that uses the edges of parts only, or has two edges at
\* most, has no part of another screen on it.
LEMMA WalkStays ==
    ASSUME NEW s \in Item, TypeOf[s] = "screen", NEW a \in Subtree[s], NEW b \in Item,
           Chain[a] \cap Chain[b] # {}, NEW E, E = Edges(a, b), NEW x \in E, Kind(x) \notin Structural,
           (\A c \in E : Kind(c) # "HAS_SCREEN") \/ Cardinality(E) <= 2
    PROVE  x \in Subtree[s]
  <1>1. \A c : c \in E <=> /\ ParentOf[c] # 0
                           /\ \/ c \in Chain[a] /\ c \notin Chain[b]
                              \/ c \in Chain[b] /\ c \notin Chain[a]
    BY DEF Edges
  <1>2. a \in Item /\ Home(a) = s /\ s # 0
    BY SubtreeIs, ParentFacts
  <1>3. \A c \in Chain[a] : c \in Item /\ ChainOf(a, c)
    BY <1>2, HomeFacts
  <1>4. \A c \in Chain[b] : c \in Item /\ ChainOf(b, c)
    BY HomeFacts
  <1>5. x \in Item /\ ParentOf[x] # 0
    BY <1>1, <1>3, <1>4
  <1>6. TypeOf[x] \in Parts \cup Leaves
    <2>1. TypeOf[x] # "module" /\ TypeOf[x] # "screen"
      BY <1>5, KindFacts DEF Structural
    <2>2. TypeOf[x] \notin Above
      BY <1>5, <2>1, ParentFacts
    <2> QED BY <1>5, <2>1, <2>2, ParentFacts
  <1>7. \A t \in Parts \cup Leaves : t # "screen" /\ t \notin Above
    BY DEF Parts, Leaves, Above
  <1>8. "screen" \notin Above
    BY DEF Above
  <1>9. CASE x \in Chain[a]
    <2>1. Home(x) = s
      BY <1>2, <1>3, <1>6, <1>7, <1>9 DEF ChainOf
    <2> QED BY <1>5, <2>1, SubtreeIs
  <1>10. CASE x \in Chain[b] /\ Home(b) = s
    <2>1. Home(x) = s
      BY <1>4, <1>6, <1>7, <1>10 DEF ChainOf
    <2> QED BY <1>5, <2>1, SubtreeIs
  <1>11. ASSUME x \in Chain[b], x \notin Chain[a], Home(b) # s PROVE FALSE
    <2>1. PICK h : h = Home(b)
      OBVIOUS
    <2>2. TypeOf[b] \in Parts \cup Leaves /\ Home(x) = h
      BY <1>4, <1>6, <1>7, <1>11, <2>1 DEF ChainOf
    <2>3. PICK z : z \in Chain[a] /\ z \in Chain[b]
      OBVIOUS
    <2>4. TypeOf[a] \notin Above
      BY <1>2 DEF Home, Above, Parts, Leaves
    <2>5. ParentOf[s] # 0 /\ h # 0 /\ ParentOf[h] # 0
      <3>1. ChainOf(a, z) /\ ChainOf(b, z)
        BY <1>3, <1>4, <2>3
      <3>2. TypeOf[z] # "screen"
        BY <1>2, <1>7, <1>8, <1>11, <3>1 DEF ChainOf
      <3>3. TypeOf[z] \notin Parts \cup Leaves
        BY <1>2, <1>7, <1>11, <3>1 DEF ChainOf
      <3> QED BY <1>2, <1>7, <2>1, <2>2, <2>4, <3>1, <3>2, <3>3 DEF ChainOf
    <2>6. /\ s \in Chain[a] /\ h \in Chain[b] /\ h \in Item /\ TypeOf[h] = "screen"
      BY <1>2, <2>1, <2>5, HomeFacts
    <2>7. s \notin Chain[b] /\ h \notin Chain[a]
      BY <1>2, <1>3, <1>4, <1>7, <1>8, <1>11, <2>1, <2>6 DEF ChainOf
    <2>8. s \in E /\ h \in E
      BY <1>1, <2>5, <2>6, <2>7
    <2>9. Cardinality(E) <= 2
      BY <2>8, KindFacts
    <2>10. x # s /\ x # h /\ s # h
      BY <1>6, <1>7, <1>11, <2>1, <2>6
    <2>11. IsFiniteSet(E)
      <3>1. E \in SUBSET Item
        BY <1>1, <1>3, <1>4
      <3> QED BY <3>1, ItemAssumption, FS_Subset
    <2>12. IsFiniteSet({s, h, x}) /\ Cardinality({s, h, x}) = 3
      <3>1. IsFiniteSet({s}) /\ Cardinality({s}) = 1
        BY FS_Singleton
      <3>2. PICK two : two = {s} \cup {h}
        OBVIOUS
      <3>3. /\ IsFiniteSet(two)
            /\ Cardinality(two) = IF h \in {s} THEN Cardinality({s}) ELSE Cardinality({s}) + 1
        BY <3>1, <3>2, FS_AddElement, Zenon
      <3>4. h \notin {s}
        BY <2>10
      <3>5. Cardinality(two) = 2
        BY <3>1, <3>3, <3>4
      <3>6. PICK three : three = two \cup {x}
        OBVIOUS
      <3>7. /\ IsFiniteSet(three)
            /\ Cardinality(three) = IF x \in two THEN Cardinality(two) ELSE Cardinality(two) + 1
        BY <3>3, <3>6, FS_AddElement, Zenon
      <3>8. x \notin two
        BY <2>10, <3>2
      <3>9. three = {s, h, x}
        BY <3>2, <3>6
      <3> QED BY <3>5, <3>7, <3>8, <3>9
    <2>13. Cardinality({s, h, x}) <= Cardinality(E) /\ Cardinality(E) \in Nat
      <3>1. {s, h, x} \in SUBSET E
        BY <2>8
      <3> QED BY <2>11, <3>1, FS_Subset, FS_CardinalityType
    <2> QED BY <2>9, <2>12, <2>13
  <1> QED BY <1>1, <1>9, <1>10, <1>11

\* What the walks from the items of a screen bring is in the screen, but for modules and
\* screens, unless the question is where a screen is or of no known intent.
WalksIn(walks, intent, s) ==
    intent \notin {"LOCATE_SCREEN", "UNKNOWN"} =>
        \A w \in Elements(walks) : \A c \in w.edges : Kind(c) \in Structural \/ c \in Subtree[s]

LEMMA WalksStay ==
    ASSUME NEW s \in Item, TypeOf[s] = "screen", NEW g \in SUBSET Item, NEW q \in Questions,
           NEW seeds, Elements(seeds) \subseteq Subtree[s]
    PROVE  WalksIn(Walks(g, seeds, q.intent), q.intent, s)
  <1>1. PICK intent : intent = q.intent
    OBVIOUS
  <1>2. SUFFICES ASSUME intent \notin {"LOCATE_SCREEN", "UNKNOWN"},
                        NEW w \in Elements(Walks(g, seeds, intent)), NEW c \in w.edges,
                        Kind(c) \notin Structural
                 PROVE  c \in Subtree[s]
    BY <1>1 DEF WalksIn
  <1>3. TakenWalk(w, g, seeds, intent)
    BY WalksFacts
  <1>4. PICK a \in Elements(seeds) \cap g, b \in g :
          /\ w.edges = Edges(a, b) /\ Chain[a] \cap Chain[b] # {}
          /\ Cardinality(w.edges) <= Policies[intent].hops
          /\ \A d \in w.edges : Kind(d) \in Policies[intent].edges
    BY <1>3 DEF TakenWalk
  <1>5. "HAS_SCREEN" \notin Policies[intent].edges \/ Policies[intent].hops = 2
    <2>1. /\ Policies["SCREEN_PURPOSE"].edges = {} /\ Policies["LOCATE_FIELD"].hops = 2
          /\ Policies["FIND_CONTROL"].edges = {"HAS_CONTROL", "HAS_STATE"}
          /\ Policies["SEARCH_BY_FIELD"].edges = {"HAS_FIELD", "HAS_CONTROL", "HAS_STATE"}
          /\ Policies["LIST_FIELDS"].edges = {"HAS_FIELD", "HAS_CONTROL", "HAS_STATE"}
          /\ Policies["LIST_COLUMNS"].edges = {"HAS_STATE", "HAS_TABLE", "HAS_COLUMN"}
          /\ Policies["NAVIGATION_EVENT"].edges = {"HAS_CONTROL", "HAS_STATE", "HAS_EVENT", "FROM_STATE"}
          /\ Policies["MUTATIVE_ACTION"].edges = {"HAS_CONTROL", "HAS_STATE", "HAS_EVENT", "FROM_STATE"}
      BY DEF Policies
    <2> QED BY <1>1, <1>2, <2>1, IntentCases
  <1>6. (\A d \in w.edges : Kind(d) # "HAS_SCREEN") \/ Cardinality(w.edges) <= 2
    BY <1>4, <1>5
  <1>7. a \in Subtree[s] /\ b \in Item
    BY <1>4
  <1> QED BY <1>2, <1>4, <1>6, <1>7, WalkStays

------------------------------------------------------------------------------
(* The records: those found for a question that is about a screen are of its items, *)
(* and so are the seeds taken from them.                                            *)

\* Some types, a screen among them.
WithScreen(types) == DOMAIN types \subseteq Nat /\ "screen" \in Elements(types)

\* Every question looks for screens, and every policy walks from them.
LEMMA ScreensAreTargets ==
    ASSUME NEW q \in Questions
    PROVE  /\ WithScreen(Targets[q.intent])
           /\ Policies[q.intent].types = <<>> \/ WithScreen(Policies[q.intent].types)
  <1>1. ASSUME NEW t, DOMAIN t \subseteq Nat, NEW n \in DOMAIN t, t[n] = "screen"
        PROVE  WithScreen(t)
    BY <1>1 DEF WithScreen, Elements
  <1>2. /\ \A a : WithScreen(<<"screen">>) /\ WithScreen(<<"screen", a>>) /\ WithScreen(<<a, "screen">>)
        /\ \A a, b : /\ WithScreen(<<"screen", a, b>>) /\ WithScreen(<<a, "screen", b>>)
        /\ \A a, b, c : WithScreen(<<"screen", a, b, c>>) /\ WithScreen(<<a, "screen", b, c>>)
        /\ \A a, b, c, d : WithScreen(<<"screen", a, b, c, d>>) /\ WithScreen(<<a, b, c, d, "screen">>)
        /\ \A a, b, c, d, e, f : WithScreen(<<"screen", a, b, c, d, e, f>>)
    <2>1. \A a : WithScreen(<<"screen">>) /\ WithScreen(<<"screen", a>>) /\ WithScreen(<<a, "screen">>)
      <3> TAKE a
      <3>1. PICK s, t, u : s = <<"screen">> /\ t = <<"screen", a>> /\ u = <<a, "screen">>
        OBVIOUS
      <3>2. /\ DOMAIN s \subseteq Nat /\ DOMAIN t \subseteq Nat /\ DOMAIN u \subseteq Nat
            /\ 1 \in DOMAIN s /\ 1 \in DOMAIN t /\ 2 \in DOMAIN u
            /\ s[1] = "screen" /\ t[1] = "screen" /\ u[2] = "screen"
        BY <3>1
      <3> QED BY <1>1, <3>1, <3>2
    <2>2. \A a, b : WithScreen(<<"screen", a, b>>) /\ WithScreen(<<a, "screen", b>>)
      <3> TAKE a, b
      <3>1. PICK s, t : s = <<"screen", a, b>> /\ t = <<a, "screen", b>>
        OBVIOUS
      <3>2. /\ DOMAIN s \subseteq Nat /\ DOMAIN t \subseteq Nat /\ 1 \in DOMAIN s /\ 2 \in DOMAIN t
            /\ s[1] = "screen" /\ t[2] = "screen"
        BY <3>1
      <3> QED BY <1>1, <3>1, <3>2
    <2>3. \A a, b, c : WithScreen(<<"screen", a, b, c>>) /\ WithScreen(<<a, "screen", b, c>>)
      <3> TAKE a, b, c
      <3>1. PICK s, t : s = <<"screen", a, b, c>> /\ t = <<a, "screen", b, c>>
        OBVIOUS
      <3>2. /\ DOMAIN s \subseteq Nat /\ DOMAIN t \subseteq Nat /\ 1 \in DOMAIN s /\ 2 \in DOMAIN t
            /\ s[1] = "screen" /\ t[2] = "screen"
        BY <3>1
      <3> QED BY <1>1, <3>1, <3>2
    <2>4. \A a, b, c, d : WithScreen(<<"screen", a, b, c, d>>) /\ WithScreen(<<a, b, c, d, "screen">>)
      <3> TAKE a, b, c, d
      <3>1. PICK s, t : s = <<"screen", a, b, c, d>> /\ t = <<a, b, c, d, "screen">>
        OBVIOUS
      <3>2. /\ DOMAIN s \subseteq Nat /\ DOMAIN t \subseteq Nat /\ 1 \in DOMAIN s /\ 5 \in DOMAIN t
            /\ s[1] = "screen" /\ t[5] = "screen"
        BY <3>1
      <3> QED BY <1>1, <3>1, <3>2
    <2>5. \A a, b, c, d, e, f : WithScreen(<<"screen", a, b, c, d, e, f>>)
      <3> TAKE a, b, c, d, e, f
      <3>1. PICK s : s = <<"screen", a, b, c, d, e, f>>
        OBVIOUS
      <3>2. DOMAIN s \subseteq Nat /\ 1 \in DOMAIN s /\ s[1] = "screen"
        BY <3>1
      <3> QED BY <1>1, <3>1, <3>2
    <2> QED BY <2>1, <2>2, <2>3, <2>4, <2>5
  <1>3. WithScreen(Targets[q.intent])
    <2>1. /\ Targets["MUTATIVE_ACTION"] = <<"screen", "control", "event">>
          /\ Targets["SCREEN_PURPOSE"] = <<"screen">>
          /\ Targets["SEARCH_BY_FIELD"] = <<"screen", "field", "control">>
          /\ Targets["LIST_FIELDS"] = <<"screen", "field", "control">>
          /\ Targets["LOCATE_FIELD"] = <<"field", "screen", "module">>
          /\ Targets["LOCATE_SCREEN"] = <<"screen", "module", "erp_system">>
          /\ Targets["FIND_CONTROL"] = <<"control", "screen">>
          /\ Targets["LIST_COLUMNS"] = <<"screen", "table", "table_column">>
          /\ Targets["NAVIGATION_EVENT"] = <<"screen", "control", "ui_state", "event", "transition">>
          /\ Targets["UNKNOWN"] =
               <<"screen", "module", "field", "control", "table", "table_column", "link">>
      BY DEF Targets
    <2>2. /\ WithScreen(Targets["MUTATIVE_ACTION"]) /\ WithScreen(Targets["SCREEN_PURPOSE"])
          /\ WithScreen(Targets["SEARCH_BY_FIELD"]) /\ WithScreen(Targets["LIST_FIELDS"])
          /\ WithScreen(Targets["LOCATE_FIELD"]) /\ WithScreen(Targets["LOCATE_SCREEN"])
          /\ WithScreen(Targets["FIND_CONTROL"]) /\ WithScreen(Targets["LIST_COLUMNS"])
          /\ WithScreen(Targets["NAVIGATION_EVENT"]) /\ WithScreen(Targets["UNKNOWN"])
      BY <1>2, <2>1, Zenon
    <2> QED BY <2>2, IntentCases
  <1>4. Policies[q.intent].types = <<>> \/ WithScreen(Policies[q.intent].types)
    <2>1. /\ Policies["SCREEN_PURPOSE"].types = <<"screen">>
          /\ Policies["LOCATE_SCREEN"].types = <<"screen", "module", "erp_system", "ui_state">>
          /\ Policies["LOCATE_FIELD"].types = <<"field", "screen", "module", "ui_state">>
          /\ Policies["FIND_CONTROL"].types = <<"control", "screen", "ui_state">>
          /\ Policies["SEARCH_BY_FIELD"].types = <<"screen", "field", "control", "ui_state">>
          /\ Policies["LIST_FIELDS"].types = <<"screen", "field", "control", "ui_state">>
          /\ Policies["LIST_COLUMNS"].types = <<"screen", "table", "table_column", "ui_state">>
          /\ Policies["NAVIGATION_EVENT"].types = <<"event", "control", "transition", "ui_state", "screen">>
          /\ Policies["MUTATIVE_ACTION"].types = <<"screen", "ui_state", "control", "event", "transition">>
          /\ Policies["UNKNOWN"].types = <<>>
      BY DEF Policies
    <2>2. /\ WithScreen(Policies["MUTATIVE_ACTION"].types) /\ WithScreen(Policies["SCREEN_PURPOSE"].types)
          /\ WithScreen(Policies["SEARCH_BY_FIELD"].types) /\ WithScreen(Policies["LIST_FIELDS"].types)
          /\ WithScreen(Policies["LOCATE_FIELD"].types) /\ WithScreen(Policies["LOCATE_SCREEN"].types)
          /\ WithScreen(Policies["FIND_CONTROL"].types) /\ WithScreen(Policies["LIST_COLUMNS"].types)
          /\ WithScreen(Policies["NAVIGATION_EVENT"].types)
      BY <1>2, <2>1, Zenon
    <2> QED BY <2>1, <2>2, IntentCases
  <1> QED BY <1>3, <1>4

\* Records of items, one of each, that are compared by numbers.
Records(r) ==
    /\ IsFiniteSet(r)
    /\ \A c \in r : c.id \in Item /\ c.score \in Int /\ c.place \in Nat /\ Alphabet[c.label] \in Nat
    /\ \A c, d \in r : c.id = d.id => c = d

\* The place of a type in a list of types is a number.
LEMMA PlaceIsNumber ==
    ASSUME NEW types, DOMAIN types \subseteq Nat, NEW t \in Elements(types)
    PROVE  Place(types, t) \in Nat
  <1>1. \E n \in DOMAIN types : types[n] = t
    BY DEF Elements
  <1>2. Place(types, t) \in DOMAIN types
    BY <1>1, Zenon DEF Place
  <1> QED BY <1>2

\* The resolver finds such records.
LEMMA ResolveRecords ==
    ASSUME NEW k, DOMAIN k \in SUBSET Item, NEW q \in Questions, NEW within
    PROVE  Records(Resolve(k, q, Targets[q.intent], within))
  <1>1. PICK types : types = Targets[q.intent]
    OBVIOUS
  <1>2. PICK r : r = Resolve(k, q, types, within)
    OBVIOUS
  <1>3. DOMAIN types \subseteq Nat
    BY <1>1, ScreensAreTargets DEF WithScreen
  <1>4. \A c \in r : \E i \in Compared(k, q, types, within) :
            c = [id |-> i, label |-> Matched(k, i), score |-> Score(k, q, i), place |-> Place(types, TypeOf[i])]
    BY <1>2 DEF Resolve, Found
  <1>5. ASSUME NEW c \in r
        PROVE  c.id \in Item /\ c.score \in Int /\ c.place \in Nat /\ Alphabet[c.label] \in Nat
    <2>1. PICK i \in Compared(k, q, types, within) :
            c = [id |-> i, label |-> Matched(k, i), score |-> Score(k, q, i), place |-> Place(types, TypeOf[i])]
      BY <1>4
    <2>2. i \in Item /\ TypeOf[i] \in Elements(types)
      BY ComparedFacts DEF Reviewed
    <2>3. Score(k, q, i) \in 0 .. 100
      BY <2>2, SaysNumbers DEF Score
    <2>4. Place(types, TypeOf[i]) \in Nat
      BY <1>3, <2>2, PlaceIsNumber
    <2>5. Alphabet[Matched(k, i)] \in Nat
      BY <2>2, ItemAssumption DEF Matched, Titles
    <2> QED BY <2>1, <2>2, <2>3, <2>4, <2>5
  <1>6. ASSUME NEW c \in r, NEW d \in r, c.id = d.id PROVE c = d
    <2>1. PICK i : c = [id |-> i, label |-> Matched(k, i), score |-> Score(k, q, i), place |-> Place(types, TypeOf[i])]
      BY <1>4
    <2>2. PICK j : d = [id |-> j, label |-> Matched(k, j), score |-> Score(k, q, j), place |-> Place(types, TypeOf[j])]
      BY <1>4
    <2>3. i = j
      BY <1>6, <2>1, <2>2
    <2> QED BY <2>1, <2>2, <2>3
  <1>7. IsFiniteSet(r)
    BY <1>2, ResolveFacts
  <1> QED BY <1>1, <1>2, <1>5, <1>6, <1>7 DEF Records

\* Records are compared one way.
LEMMA StrongerOrder ==
    ASSUME NEW r, Records(r), NEW S \in SUBSET r
    PROVE  /\ \A c \in S : ~Stronger(c, c)
           /\ \A c, d \in S : c # d => Stronger(c, d) \/ Stronger(d, c)
           /\ \A c, d, e \in S : Stronger(c, d) /\ Stronger(d, e) => Stronger(c, e)
  <1>1. \A c \in S : c.id \in Nat /\ c.score \in Int /\ c.place \in Nat /\ Alphabet[c.label] \in Nat
    BY ItemAssumption DEF Records
  <1>2. \A c, d \in S : c # d => c.id # d.id
    BY DEF Records
  <1> QED BY <1>1, <1>2 DEF Stronger

\* The records that are sorted by their strength.
LEMMA StrongerSorted ==
    ASSUME NEW r, Records(r), NEW S \in SUBSET r, NEW s, s = Sorted(S, Stronger)
    PROVE  /\ IsList(s) /\ Elements(s) \subseteq S
           /\ S # {} => s # <<>>
  <1>1. IsFiniteSet(S)
    BY FS_Subset DEF Records
  <1>2. PICK n \in Nat : n = Cardinality(S)
    BY <1>1, FS_CardinalityType
  <1>3. PICK f : f = [m \in 1 .. n |-> CHOOSE x \in S : Cardinality({y \in S : Stronger(y, x)}) = m - 1]
    OBVIOUS
  <1>4. s = SubSeq(f, 1, n)
    BY <1>2, <1>3 DEF Sorted
  <1>5. PICK R : R = {p \in S \X S : Stronger(p[1], p[2])}
    OBVIOUS
  <1>6. \A c, d \in S : <<c, d>> \in R <=> Stronger(c, d)
    BY <1>5
  <1>7. OrderOf(R, S)
    BY <1>6, StrongerOrder DEF OrderOf
  <1>8. ASSUME NEW m \in 1 .. n PROVE f[m] \in S
    <2>1. \E x \in S : Cardinality({y \in S : <<y, x>> \in R}) = m - 1
      BY <1>1, <1>2, <1>7, RanksAreTaken
    <2>2. \A x \in S : {y \in S : <<y, x>> \in R} = {y \in S : Stronger(y, x)}
      BY <1>6
    <2>3. \E x \in S : Cardinality({y \in S : Stronger(y, x)}) = m - 1
      BY <2>1, <2>2, Zenon
    <2>4. f[m] = CHOOSE x \in S : Cardinality({y \in S : Stronger(y, x)}) = m - 1
      BY <1>3
    <2> QED BY <2>3, <2>4, Zenon
  <1>9. IsList(s) /\ Len(s) = n /\ Elements(s) = {f[m] : m \in 1 .. n}
    BY <1>4, PrefixFacts
  <1>10. Elements(s) \subseteq S
    BY <1>8, <1>9
  <1>11. S # {} => n # 0
    BY <1>1, <1>2, FS_EmptySet
  <1>12. s = <<>> => n = 0
    BY <1>9
  <1> QED BY <1>9, <1>10, <1>11, <1>12

\* The ids of a list of records.
LEMMA IdsOfFacts ==
    ASSUME NEW s, IsList(s)
    PROVE  IsList(IdsOf(s)) /\ Elements(IdsOf(s)) = {c.id : c \in Elements(s)}
  <1>1. Len(s) \in Nat /\ DOMAIN s = 1 .. Len(s)
    BY ListFacts DEF IsList
  <1>2. PICK f : f = [n \in DOMAIN s |-> s[n].id]
    OBVIOUS
  <1>3. IdsOf(s) = SubSeq(f, 1, Len(s))
    BY <1>2 DEF IdsOf
  <1>4. IsList(IdsOf(s)) /\ Elements(IdsOf(s)) = {f[n] : n \in 1 .. Len(s)}
    BY <1>1, <1>3, PrefixFacts
  <1>5. {f[n] : n \in 1 .. Len(s)} = {c.id : c \in Elements(s)}
    BY <1>1, <1>2 DEF Elements
  <1> QED BY <1>4, <1>5

\* Records of items of the screen s, itself among them.
ScopedTo(r, s) ==
    /\ Records(r) /\ \A c \in r : c.id \in Subtree[s]
    /\ \E c \in r : c.id = s /\ c.score >= 97


\* The seeds of a question that is about a screen are items of the screen.
LEMMA SeedsStay ==
    ASSUME NEW s \in Item, TypeOf[s] = "screen", NEW q \in Questions, NEW r, ScopedTo(r, s),
           NEW fused, NEW governed \in SUBSET Item, s \in governed,
           NEW seeds, seeds = GraphSeeds(q.intent, r, fused, governed)
    PROVE  IsList(seeds) /\ Elements(seeds) \subseteq Subtree[s]
  <1> DEFINE types == Policies[q.intent].types
             allowed == {i \in governed \ Ids(Ambiguous(r)) : types # <<>> => TypeOf[i] \in Elements(types)}
             strong == {c \in Seeds(r) : c.id \in allowed}
             Best(c) == types # <<>> =>
                 \A d \in strong : Place(types, TypeOf[c.id]) <= Place(types, TypeOf[d.id])
             best == {c \in strong : Best(c)}
             named == Sorted(best, Stronger)
  <1>1. seeds = IF q.intent = "SCREEN_PURPOSE" \/ Ambiguous(r) # {} THEN <<>>
                ELSE IF Primary(r) \cap allowed # {} THEN <<CHOOSE i \in Primary(r) : TRUE>>
                ELSE IF named # <<>> THEN Upto(IdsOf(named), MaxSeeds)
                ELSE Upto(Within(fused, allowed), MaxSeeds)
    BY Zenon DEF GraphSeeds
  <1>2. PICK t, n : t = types /\ n = named
    OBVIOUS
  <1>3. Records(r) /\ strong \in SUBSET r /\ best \in SUBSET r /\ \A c \in r : c.id \in Subtree[s]
    BY DEF ScopedTo, Seeds
  <1>4. \A S : \A x \in S : <<x>> \in Seq(S)
    OBVIOUS
  <1>5. IsList(n) /\ Elements(n) \subseteq best /\ (best # {} => n # <<>>)
    <2> HIDE DEF best
    <2> QED BY <1>2, <1>3, StrongerSorted
  <1>6. CASE q.intent = "SCREEN_PURPOSE" \/ Ambiguous(r) # {}
    <2>1. seeds = <<>>
      BY <1>1, <1>6
    <2>2. seeds \in Seq(Subtree[s])
      BY <2>1
    <2> QED BY <2>2, ListFacts
  <1>7. CASE /\ q.intent # "SCREEN_PURPOSE" /\ Ambiguous(r) = {}
             /\ Primary(r) \cap allowed # {}
    <2>1. PICK x : x = CHOOSE i \in Primary(r) : TRUE
      OBVIOUS
    <2>2. x \in Primary(r)
      BY <1>7, <2>1
    <2>3. x \in Subtree[s]
      BY <1>3, <2>2 DEF Primary, Ids, Seeds
    <2>4. seeds = <<x>>
      BY <1>1, <1>7, <2>1
    <2>5. seeds \in Seq(Subtree[s])
      BY <1>4, <2>3, <2>4, Zenon
    <2> QED BY <2>5, ListFacts
  <1>8. CASE q.intent # "SCREEN_PURPOSE" /\ Ambiguous(r) = {} /\ Primary(r) \cap allowed = {}
    <2>1. PICK c \in r : c.id = s /\ c.score >= 97
      BY DEF ScopedTo
    <2>2. c \in Seeds(r)
      BY <1>3, <1>8, <2>1 DEF Seeds, Records
    <2>3. t = <<>> \/ WithScreen(t)
      BY <1>2, ScreensAreTargets
    <2>4. s \in allowed
      BY <1>2, <1>8, <2>3 DEF Ids, WithScreen
    <2>5. c \in strong
      BY <2>1, <2>2, <2>4
    <2>6. best # {}
      <3>1. CASE t = <<>>
        BY <1>2, <2>5, <3>1
      <3>2. CASE t # <<>>
        <4>1. PICK P : P = {Place(t, TypeOf[d.id]) : d \in strong}
          OBVIOUS
        <4>2. \A d \in strong : TypeOf[d.id] \in Elements(t)
          BY <1>2, <3>2
        <4> HIDE DEF strong
        <4>3. P \in SUBSET Nat /\ P # {}
          BY <2>3, <2>5, <3>2, <4>1, <4>2, PlaceIsNumber DEF WithScreen
        <4>4. \E p \in P : \A m \in P : p <= m
          BY <4>3, SmallestElement
        <4>5. \E d \in strong : \A e \in strong : Place(t, TypeOf[d.id]) <= Place(t, TypeOf[e.id])
          BY <4>1, <4>4
        <4> QED BY <1>2, <4>5
      <3> QED BY <3>1, <3>2
    <2> HIDE DEF best, allowed, strong
    <2>7. seeds = Upto(IdsOf(n), MaxSeeds)
      <3> HIDE DEF named
      <3> QED BY <1>1, <1>2, <1>5, <1>8, <2>6
    <2>8. IsList(IdsOf(n)) /\ Elements(IdsOf(n)) \subseteq Subtree[s]
      BY <1>3, <1>5, IdsOfFacts
    <2>9. IsList(seeds) /\ Elements(seeds) \subseteq Elements(IdsOf(n))
      BY <2>7, <2>8, UptoFacts DEF MaxSeeds
    <2> QED BY <2>8, <2>9
  <1> QED BY <1>6, <1>7, <1>8


------------------------------------------------------------------------------
(* What an answer rests on. *)

\* A relation of a part, or the screen of a field among the relations.
PartOrHome(c, rels) ==
    Kind(c) \notin Structural \/ \E d \in rels : Kind(d) = "HAS_FIELD" /\ c = ParentOf[d]

\* A deterministic answer to another question than where a screen is rests on such relations.
LEMMA SupportKinds ==
    ASSUME NEW q \in Questions, q.intent # "LOCATE_SCREEN", NEW k, NEW e, e.rels \in SUBSET Item, NEW about
    PROVE  Support(q, k, e, about) \subseteq {c \in e.rels : PartOrHome(c, e.rels)}
  <1>1. PICK rels \in SUBSET Item : rels = e.rels
    OBVIOUS
  <1>2. PICK P : P = {c \in rels : PartOrHome(c, rels)}
    OBVIOUS
  <1> DEFINE here == Under({about}, rels)
             acting == One({c \in Of(rels, {"HAS_CONTROL", "HAS_EVENT"}) : Label(k, c) \in ActionLabels})
             found == {c \in Of(rels, {"HAS_CONTROL"}) : Mentions(q, k, c)}
             columns == Under(Of(here, {"HAS_TABLE"}), Of(rels, {"HAS_COLUMN"}))
  <1>3. here \in SUBSET rels
    BY RelationChoices
  <1> HIDE DEF here
  <1>4. P \in SUBSET Item
    BY <1>2
  <1>5. ASSUME NEW kinds, kinds \cap Structural = {}, NEW S \in SUBSET rels
        PROVE  Of(S, kinds) \in SUBSET P
    BY <1>2, <1>5 DEF Of, PartOrHome
  <1>6. /\ {"HAS_FIELD"} \cap Structural = {} /\ {"HAS_CONTROL"} \cap Structural = {}
        /\ {"HAS_EVENT"} \cap Structural = {} /\ {"HAS_COLUMN"} \cap Structural = {}
        /\ {"HAS_CONTROL", "HAS_EVENT"} \cap Structural = {}
        /\ {"HAS_CONTROL", "HAS_EVENT", "FROM_STATE"} \cap Structural = {}
    BY DEF Structural
  <1>7. /\ Of(rels, {"HAS_FIELD"}) \in SUBSET P /\ Of(rels, {"HAS_CONTROL"}) \in SUBSET P
        /\ Of(rels, {"HAS_EVENT"}) \in SUBSET P /\ Of(rels, {"HAS_COLUMN"}) \in SUBSET P
        /\ Of(rels, {"HAS_CONTROL", "HAS_EVENT"}) \in SUBSET P
        /\ Of(rels, {"HAS_CONTROL", "HAS_EVENT", "FROM_STATE"}) \in SUBSET P
        /\ Of(here, {"HAS_FIELD"}) \in SUBSET P /\ Of(here, {"HAS_CONTROL"}) \in SUBSET P
    BY <1>3, <1>5, <1>6
  <1>8. acting \in SUBSET P
    <2>1. {c \in Of(rels, {"HAS_CONTROL", "HAS_EVENT"}) : Label(k, c) \in ActionLabels} \in SUBSET P
      BY <1>7
    <2> QED BY <1>4, <2>1, RelationChoices
  <1>9. Searches(q, k, here) \in SUBSET P
    <2>1. /\ {c \in Of(here, {"HAS_FIELD"}) : Mentions(q, k, c)} \in SUBSET P
          /\ {c \in Of(here, {"HAS_CONTROL"}) : Label(k, c) \in SearchLabels} \in SUBSET P
      BY <1>7
    <2>2. /\ One({c \in Of(here, {"HAS_FIELD"}) : Mentions(q, k, c)}) \in SUBSET P
          /\ One({c \in Of(here, {"HAS_CONTROL"}) : Label(k, c) \in SearchLabels}) \in SUBSET P
      BY <1>4, <2>1, RelationChoices
    <2> QED BY <2>2 DEF Searches
  <1>10. FieldPlace(q, k, rels) \in SUBSET P
    <2>1. PICK fields : fields = {c \in Of(rels, {"HAS_FIELD"}) : Mentions(q, k, c)}
      OBVIOUS
    <2>2. fields \in SUBSET P /\ \A c \in fields : c \in rels /\ Kind(c) = "HAS_FIELD"
      BY <1>7, <2>1 DEF Of
    <2>3. One(fields) \in SUBSET fields
      <3>1. fields \in SUBSET Nat
        BY <1>4, <2>2, ItemAssumption
      <3> QED BY <3>1, OneOf
    <2>4. \A c \in Of(rels, {"HAS_SCREEN"}) \cap {ParentOf[d] : d \in One(fields)} : c \in P
      BY <1>2, <2>2, <2>3 DEF Of, PartOrHome
    <2>5. FieldPlace(q, k, rels)
            = One(fields) \cup (Of(rels, {"HAS_SCREEN"}) \cap {ParentOf[d] : d \in One(fields)})
      BY <2>1 DEF FieldPlace
    <2> QED BY <2>2, <2>3, <2>4, <2>5
  <1>11. Navigation(q, k, rels) \in SUBSET P
    <2>1. /\ {c \in Of(rels, {"HAS_EVENT"}) : Mentions(q, k, c)} \in SUBSET P
          /\ {c \in Of(rels, {"HAS_CONTROL"}) : Mentions(q, k, c)} \in SUBSET P
      BY <1>7
    <2>2. /\ One({c \in Of(rels, {"HAS_EVENT"}) : Mentions(q, k, c)}) \in SUBSET P
          /\ One({c \in Of(rels, {"HAS_CONTROL"}) : Mentions(q, k, c)}) \in SUBSET P
      BY <1>4, <2>1, RelationChoices
    <2> QED BY <1>7, <2>2 DEF Navigation, Some
  <1>12. columns \in SUBSET P /\ found \in SUBSET P
    BY <1>4, <1>7, RelationChoices
  <1>13. Support(q, k, e, about) =
           [SCREEN_PURPOSE |-> {}, MUTATIVE_ACTION |-> acting, SEARCH_BY_FIELD |-> Searches(q, k, here),
            LIST_FIELDS |-> Of(here, {"HAS_FIELD"}), LOCATE_FIELD |-> FieldPlace(q, k, rels),
            LOCATE_SCREEN |-> ScreenPlace(q, k, rels), FIND_CONTROL |-> found, LIST_COLUMNS |-> columns,
            NAVIGATION_EVENT |-> Navigation(q, k, rels), UNKNOWN |-> {}][q.intent]
    BY <1>1, Zenon DEF Support, here
  <1> HIDE DEF acting, found, columns
  <1>14. Support(q, k, e, about) \in SUBSET P
    BY <1>7, <1>8, <1>9, <1>10, <1>11, <1>12, <1>13, IntentCases
  <1> QED BY <1>1, <1>2, <1>14

\* The first screen is one of the focal items.
LEMMA FirstScreenIsFocal ==
    ASSUME NEW r, Records(r), NEW seeds, IsList(seeds), NEW focal, NEW sources, IsList(sources)
    PROVE  FirstScreen(r, seeds, focal, sources) \subseteq focal
  <1> DEFINE screens == {i \in focal \cap Elements(sources) : TypeOf[i] = "screen"}
             sorted == Sorted(Seeds(r), Stronger)
             named == Within(sorted, {c \in Seeds(r) : c.id \in screens})
             order == Within(seeds, screens) \o IdsOf(named) \o Within(sources, screens)
  <1>1. FirstScreen(r, seeds, focal, sources) = IF order = <<>> THEN {} ELSE {Head(order)}
    BY Zenon DEF FirstScreen
  <1>2. screens \subseteq focal
    OBVIOUS
  <1>3. IsList(sorted)
    <2>1. Seeds(r) \in SUBSET r
      BY DEF Seeds
    <2> QED BY <2>1, StrongerSorted
  <1> HIDE DEF sorted, screens
  <1>4. IsList(named) /\ \A c \in Elements(named) : c.id \in screens
    BY <1>3, WithinList
  <1>5. /\ IsList(Within(seeds, screens)) /\ Elements(Within(seeds, screens)) \subseteq screens
        /\ IsList(Within(sources, screens)) /\ Elements(Within(sources, screens)) \subseteq screens
    BY WithinList
  <1> HIDE DEF named
  <1>6. IsList(IdsOf(named)) /\ Elements(IdsOf(named)) \subseteq screens
    BY <1>4, IdsOfFacts
  <1>7. PICK front : front = Within(seeds, screens) \o IdsOf(named)
    OBVIOUS
  <1>8. IsList(front) /\ Elements(front) \subseteq screens
    BY <1>5, <1>6, <1>7, JoinedFacts
  <1>9. order = front \o Within(sources, screens)
    BY <1>7
  <1>10. IsList(order) /\ Elements(order) \subseteq screens
    BY <1>5, <1>8, <1>9, JoinedFacts
  <1> HIDE DEF order
  <1>11. order # <<>> => Head(order) \in screens
    BY <1>10, ListFacts DEF IsList
  <1> QED BY <1>1, <1>2, <1>11

\* The focal items of a question that is about a screen are of the screen.
LEMMA FocalStays ==
    ASSUME NEW s \in Item, NEW r, ScopedTo(r, s), Ambiguous(r) = {},
           NEW seeds, Elements(seeds) \subseteq Subtree[s], NEW intent, NEW sources, NEW semantics
    PROVE  Focal(intent, r, seeds, sources, semantics) \subseteq Subtree[s]
  <1>1. PICK named : named = Primary(r) \cup Elements(seeds) \cup Ids(Seeds(r))
    OBVIOUS
  <1>2. Ids(Seeds(r)) \subseteq Subtree[s] /\ Primary(r) \subseteq Ids(Seeds(r))
    BY DEF Ids, Seeds, ScopedTo, Primary
  <1>3. PICK c \in r : c.id = s /\ c.score >= 97 /\ c.score \in Int
    BY DEF ScopedTo, Records
  <1>4. c \in Seeds(r)
    BY <1>3 DEF Seeds
  <1>5. s \in named
    BY <1>1, <1>3, <1>4 DEF Ids
  <1>6. Focal(intent, r, seeds, sources, semantics) = named
    BY <1>1, <1>5 DEF Focal, Some
  <1> QED BY <1>1, <1>2, <1>6

\* What a deterministic answer rests on.
Basis(q, k, e, about) ==
    Support(q, k, e, about) \cup {ParentOf[c] : c \in Support(q, k, e, about)} \cup Purpose(q, k, e)

\* Relations that are of the screen s, but for modules and screens.
RelsIn(rels, intent, s) ==
    intent \notin {"LOCATE_SCREEN", "UNKNOWN"} =>
        \A c \in rels : Kind(c) \in Structural \/ c \in Subtree[s]

\* What an answer to a question about a screen rests on is of the screen, or is its parent.
LEMMA BasisStays ==
    ASSUME NEW s \in Item, TypeOf[s] = "screen", NEW q \in Questions, NEW k,
           NEW r, ScopedTo(r, s), Ambiguous(r) = {},
           NEW seeds, IsList(seeds), Elements(seeds) \subseteq Subtree[s],
           NEW sources \in Seq(Item), NEW rels \in SUBSET Item, RelsIn(rels, q.intent, s),
           NEW semantics \in Seq(Item),
           NEW e, e = Select(q, k, r, seeds, sources, rels, semantics), NEW about
    PROVE  Basis(q, k, e, about) \subseteq Subtree[s] \cup {ParentOf[s]}
  <1>1. PICK focal : focal = Focal(q.intent, r, seeds, sources, semantics)
    OBVIOUS
  <1>2. focal \subseteq Subtree[s]
    BY <1>1, FocalStays
  <1>3. PICK kept : kept = Kept(q, k, r, seeds, focal, sources, rels)
    OBVIOUS
  <1>4. /\ e.rels = kept
        /\ q.intent = "SCREEN_PURPOSE" => e.semantics = Purposes(focal, semantics)
    <2> DEFINE told == IF q.intent = "SCREEN_PURPOSE" THEN Purposes(focal, semantics)
                       ELSE IF q.intent = "UNKNOWN" THEN Upto(semantics, 2) ELSE <<>>
    <2>1. \E status, shown : e = [status |-> status, sources |-> shown, rels |-> kept, semantics |-> told]
      BY <1>1, <1>3, Zenon DEF Select
    <2>2. e.rels = kept /\ e.semantics = told
      BY <2>1
    <2> QED BY <2>2
  <1>5. kept \in SUBSET rels
    BY <1>3, KeptFacts
  <1>6. Support(q, k, e, about) \subseteq kept
    BY <1>4, <1>5, SupportFacts
  <1>7. PICK support : support = Support(q, k, e, about)
    OBVIOUS
  <1>8. q.intent # "SCREEN_PURPOSE" => Purpose(q, k, e) = {}
    BY DEF Purpose
  <1>9. ASSUME support \subseteq Subtree[s], Purpose(q, k, e) \subseteq Subtree[s]
        PROVE  Basis(q, k, e, about) \subseteq Subtree[s] \cup {ParentOf[s]}
    <2>1. \A c \in support : ParentOf[c] \in Subtree[s] \cup {ParentOf[s]}
      BY <1>9, ParentStays
    <2>2. Basis(q, k, e, about) = support \cup {ParentOf[c] : c \in support} \cup Purpose(q, k, e)
      BY <1>7 DEF Basis
    <2> QED BY <1>9, <2>1, <2>2
  <1>10. CASE q.intent = "SCREEN_PURPOSE"
    <2>1. support = {}
      BY <1>7, <1>10 DEF Support
    <2>2. IsList(semantics)
      BY ListFacts
    <2>3. IsList(Within(semantics, focal)) /\ Elements(Within(semantics, focal)) \subseteq focal
      BY <2>2, WithinList
    <2>4. Elements(Purposes(focal, semantics)) \subseteq focal
      BY <2>3, UptoFacts DEF Purposes
    <2>5. Purpose(q, k, e) \subseteq Subtree[s]
      BY <1>2, <1>4, <1>10, <2>4 DEF Purpose
    <2> QED BY <1>9, <2>1, <2>5
  <1>11. CASE q.intent = "LOCATE_SCREEN"
    <2>1. kept = FirstScreen(r, seeds, focal, sources) \cap rels
      BY <1>3, <1>11 DEF Kept
    <2>2. IsList(sources) /\ Records(r)
      BY ListFacts DEF ScopedTo
    <2>3. support \subseteq Subtree[s]
      BY <1>2, <1>6, <1>7, <2>1, <2>2, FirstScreenIsFocal
    <2> QED BY <1>8, <1>9, <1>11, <2>3
  <1>12. CASE q.intent = "UNKNOWN"
    <2>1. support = {}
      BY <1>7, <1>12 DEF Support
    <2> QED BY <1>8, <1>9, <1>12, <2>1
  <1>13. CASE q.intent \notin {"SCREEN_PURPOSE", "LOCATE_SCREEN", "UNKNOWN"}
    <2>1. e.rels \in SUBSET Item /\ e.rels \subseteq rels
      BY <1>4, <1>5
    <2>2. \A c \in support : PartOrHome(c, e.rels) /\ c \in rels
      BY <1>7, <1>13, <2>1, SupportKinds
    <2>3. ASSUME NEW c \in support PROVE c \in Subtree[s]
      <3>1. CASE Kind(c) \notin Structural
        BY <1>13, <2>2, <3>1 DEF RelsIn
      <3>2. ASSUME NEW d \in e.rels, Kind(d) = "HAS_FIELD", c = ParentOf[d]
            PROVE  c \in Subtree[s]
        <4>1. d \in Subtree[s]
          BY <1>13, <2>1, <3>2 DEF RelsIn, Structural
        <4>2. d \in Item /\ Home(d) = s /\ s # 0
          BY <4>1, SubtreeIs, ParentFacts
        <4>3. TypeOf[d] \in {"screen"} \cup Parts \cup Leaves
          BY <4>2 DEF Home
        <4>4. TypeOf[d] = "field"
          BY <3>2, <4>2, <4>3, KindFacts
        <4>5. Home(d) = Up(d) /\ Up(d) = ParentOf[d]
          BY <4>2, <4>4, ParentFacts DEF Home, Parts
        <4> QED BY <3>2, <4>2, <4>5, SubtreeIs
      <3> QED BY <2>2, <3>1, <3>2 DEF PartOrHome
    <2> QED BY <1>8, <1>9, <1>13, <2>3
  <1> QED BY <1>10, <1>11, <1>12, <1>13


------------------------------------------------------------------------------
(* The invariant. *)

\* The question is understood to be about a screen, which keeps its title and its review, and
\* the resolver has room for what the question names.
OnScreen ==
    /\ ~Crowded
    /\ turn.mode = "CONTEXTUALIZED" /\ TypeOf[turn.inherited.id] = "screen" /\ Firm(turn.inherited.id)
    /\ Matched(know[turn.version], turn.inherited.id) = turn.inherited.label

\* What is found, walked and answered is of this screen.
InContext ==
    /\ (turn.phase \in {"narrowed", "searched"} /\ OnScreen) => ScopedTo(turn.r, turn.inherited.id)
    /\ (turn.phase = "searched" /\ OnScreen) =>
        /\ IsList(turn.seeds) /\ Elements(turn.seeds) \subseteq Subtree[turn.inherited.id]
        /\ WalksIn(turn.walks, turn.q.intent, turn.inherited.id)
    /\ (Concluding /\ OnScreen /\ turn.decision = "DETERMINISTIC_ANSWER") =>
        turn.ids \subseteq Subtree[turn.inherited.id] \cup {ParentOf[turn.inherited.id]}

\* A turn that does not know yet what is found.
LEMMA QuietTurn ==
    ASSUME turn'.phase \in {"idle", "asked", "routed", "understood"}
    PROVE  InContext'
  BY DEF InContext, Concluding

\* A step that changes neither the knowledge nor what the turn is about.
LEMMA OnScreenFrame ==
    ASSUME know' = know, turn'.version = turn.version, turn'.mode = turn.mode,
           turn'.inherited = turn.inherited, turn'.seen = turn.seen, turn'.touched = turn.touched,
           turn'.q = turn.q
    PROVE  OnScreen' <=> OnScreen
  BY DEF OnScreen, Crowded, Contenders, Named, Firm

\* The screen of the question is a reviewed item.
LEMMA OnScreenFacts ==
    ASSUME Inv, Reading, OnScreen
    PROVE  /\ turn.inherited.id \in Item /\ TypeOf[turn.inherited.id] = "screen"
           /\ turn.version \in Versions /\ turn.q \in Questions
           /\ turn.inherited.id \in Reviewed(know[turn.version])
  <1>1. /\ turn.version \in Versions /\ turn.q \in Questions /\ turn.seen \in SUBSET Item
        /\ turn.seen \ turn.touched \subseteq Reviewed(know[turn.version])
    BY DEF Inv, TurnInv, TurnTyped, Governed, Running, Reading
  <1> QED BY <1>1 DEF OnScreen, Firm

\* Narrowing by the context keeps the items of the screen, and the screen.
LEMMA NarrowContext ==
    ASSUME Inv, Narrow
    PROVE  InContext'
  <1>1. PICK k : k = know[turn.version]
    OBVIOUS
  <1>2. PICK q : q = IF turn.mode = "DIRECT" THEN turn.q ELSE Contextual(turn.q, turn.inherited)
    OBVIOUS
  <1>3. PICK r : r = IF turn.mode = "DIRECT" THEN ByScreen(k, q, turn.r) ELSE ByContext(k, q, turn.inherited)
    OBVIOUS
  <1>4. /\ turn.phase = "understood" /\ turn = ReadFields(turn) /\ turn.q \in Questions /\ Reading
    BY DEF Inv, TurnInv, TurnTyped, Narrow, At, Looking, Running, Reading
  <1>5. /\ turn'.phase = "narrowed" /\ turn'.version = turn.version /\ turn'.q = q
        /\ turn'.r = r /\ turn'.mode = turn.mode /\ turn'.inherited = turn.inherited
        /\ turn'.seen = turn.seen /\ turn'.touched = turn.touched
    BY <1>1, <1>2, <1>3, <1>4 DEF Narrow, ReadFields
  <1>6. know' = know
    BY DEF Narrow, World
  <1>7. PICK s, label : s = turn.inherited.id /\ label = turn.inherited.label
    OBVIOUS
  <1>8. ASSUME OnScreen' PROVE ScopedTo(r, s)
    <2>1. /\ s \in Item /\ TypeOf[s] = "screen" /\ turn.version \in Versions /\ s \in Reviewed(k)
          /\ Matched(k, s) = label /\ turn.mode = "CONTEXTUALIZED"
      <3>1. /\ turn.version \in Versions /\ turn.seen \in SUBSET Item
            /\ turn.seen \ turn.touched \subseteq Reviewed(know[turn.version])
        BY <1>4 DEF Inv, TurnInv, TurnTyped, Governed, Running
      <3>2. /\ turn.mode = "CONTEXTUALIZED" /\ TypeOf[s] = "screen" /\ s \in turn.seen \ turn.touched
            /\ Matched(know[turn.version], s) = label
        BY <1>5, <1>6, <1>7, <1>8 DEF OnScreen, Firm
      <3> QED BY <1>1, <3>1, <3>2
    <2>2. q = [turn.q EXCEPT !.says[label] = 100]
      BY <1>2, <1>7, <2>1 DEF Contextual
    <2>3. q \in Questions /\ q.says[label] = 100
      <3>1. label \in Titles
        BY <2>1 DEF Matched, Titles
      <3>2. q \in Questions
        BY <1>4, <2>2 DEF Questions
      <3>3. q.says[label] = 100
        BY <1>4, <2>2, <3>1 DEF Questions
      <3> QED BY <3>2, <3>3
    <2>4. PICK types, found : types = Targets[q.intent] /\ found = Resolve(k, q, types, Item)
      OBVIOUS
    <2>5. r = ScopeTo(k, found, s, label)
      BY <1>3, <1>7, <2>1, <2>4 DEF ByContext
    <2>6. DOMAIN k \in SUBSET Item
      BY <1>1, <2>1, KnownItems DEF Inv, StoreInv
    <2>7. Records(found)
      BY <2>3, <2>4, <2>6, ResolveRecords
    <2>8. r \in SUBSET found
      BY <2>5 DEF ScopeTo
    <2>9. IsFiniteSet(r)
      BY <2>7, <2>8, FS_Subset DEF Records
    <2>10. Records(r)
      BY <2>7, <2>8, <2>9 DEF Records
    <2>11. \A c \in r : c.id \in Subtree[s]
      BY <2>5 DEF ScopeTo, BelongsTo
    <2>12. PICK c : c = [id |-> s, label |-> Matched(k, s), score |-> Score(k, q, s),
                         place |-> Place(types, TypeOf[s])]
      OBVIOUS
    <2>13. c \in found
      <3>1. TypeOf[s] \in Elements(types)
        BY <2>1, <2>3, <2>4, ScreensAreTargets DEF WithScreen
      <3>2. PICK named, titled, fixed :
              /\ named = {j \in Contenders : j \in turn.touched \/ Named(j)}'
              /\ titled = {j \in Contenders : turn.q.says[TitleOf[j]] >= 97}'
              /\ fixed = {j \in Contenders :
                            j \in turn.touched \/ know[turn.version][j].status = "CORRECTED"}'
        OBVIOUS
      <3>3. /\ ~(Cardinality(named) > MaxCandidates) /\ ~(Cardinality(titled) > MaxRows)
            /\ ~(Cardinality(fixed) > MaxCorrected)
        BY <1>8, <3>2 DEF OnScreen, Crowded
      <3>4. Reviewed(k) \subseteq turn.seen /\ turn.seen \in SUBSET Item
        BY <1>1, <1>4 DEF Inv, TurnInv, TurnTyped, Governed
      <3>5. /\ named = {j \in turn.seen : /\ TypeOf[j] \in Elements(types)
                                          /\ j \in turn.touched \/ q.says[Matched(k, j)] >= 97}
            /\ titled = {j \in turn.seen : TypeOf[j] \in Elements(types) /\ q.says[TitleOf[j]] >= 97}
            /\ fixed = {j \in turn.seen : /\ TypeOf[j] \in Elements(types)
                                          /\ j \in turn.touched \/ k[j].status = "CORRECTED"}
        BY <1>1, <1>5, <1>6, <2>4, <3>2 DEF Contenders, Named
      <3>6. IsFiniteSet(named) /\ IsFiniteSet(titled) /\ IsFiniteSet(fixed)
        <4>1. named \in SUBSET Item /\ titled \in SUBSET Item /\ fixed \in SUBSET Item
          BY <3>4, <3>5
        <4> QED BY <4>1, ItemAssumption, FS_Subset
      <3>7. \A j \in Reviewed(k) : TypeOf[j] \in Elements(types) =>
              /\ q.says[Matched(k, j)] >= 97 => j \in named
              /\ q.says[TitleOf[j]] >= 97 => j \in titled
              /\ k[j].status = "CORRECTED" => j \in fixed
        BY <3>4, <3>5
      <3>8. q.says[Matched(k, s)] >= 97
        BY <2>1, <2>3
      <3> QED BY <2>1, <2>3, <2>4, <2>6, <2>12, <3>1, <3>3, <3>6, <3>7, <3>8, NamedIsFound
    <2>14. c.id = s /\ c.score = 100
      BY <2>1, <2>3, <2>12 DEF Score
    <2>15. c \in r
      BY <2>1, <2>5, <2>13, <2>14, BelongsToItself DEF ScopeTo
    <2> QED BY <2>10, <2>11, <2>14, <2>15 DEF ScopedTo
  <1> QED BY <1>5, <1>7, <1>8 DEF InContext, Concluding

\* The search starts from items of the screen, and stays in it.
LEMMA SearchContext ==
    ASSUME Inv, InContext, NEW dense \in Hits(IF At("narrowed") THEN Indexed[turn.version] ELSE {}),
           NEW hits \in Hits(IF At("narrowed") THEN Authorized(turn) ELSE {}), Search(dense, hits)
    PROVE  InContext'
  <1>1. /\ turn.phase = "narrowed" /\ turn = ReadFields(turn) /\ Reading
    BY DEF Inv, TurnInv, TurnTyped, Search, At, Looking, Reading
  <1>2. PICK governed : governed = Reviewed(know[turn.version])
    OBVIOUS
  <1>3. PICK semantic : semantic = Generic(turn, hits)
    OBVIOUS
  <1>4. PICK ranked : ranked = Fused(Rankings(turn.r, dense, semantic))
    OBVIOUS
  <1>5. PICK fused : fused = Within(ranked, Item \ Ids(Ambiguous(turn.r)))
    OBVIOUS
  <1>6. PICK seeds : seeds = IF turn.graph
                             THEN GraphSeeds(turn.q.intent, turn.r, ranked, governed) ELSE <<>>
    OBVIOUS
  <1>7. PICK walks : walks = Walks(graph[turn.version], seeds, turn.q.intent)
    OBVIOUS
  <1>8. turn' = [turn EXCEPT !.phase = "searched", !.semantic = semantic, !.fused = fused,
                             !.seeds = seeds, !.walks = walks]
    BY <1>2, <1>3, <1>4, <1>5, <1>6, <1>7 DEF Search
  <1>9. /\ turn'.phase = "searched" /\ turn'.q = turn.q /\ turn'.version = turn.version
        /\ turn'.r = turn.r /\ turn'.mode = turn.mode /\ turn'.inherited = turn.inherited
        /\ turn'.seen = turn.seen /\ turn'.touched = turn.touched
        /\ turn'.seeds = seeds /\ turn'.walks = walks
    BY <1>1, <1>8 DEF ReadFields
  <1>10. OnScreen' <=> OnScreen
    <2>1. know' = know
      BY DEF Search, World
    <2> QED BY <1>9, <2>1, OnScreenFrame
  <1>11. PICK s : s = turn.inherited.id
    OBVIOUS
  <1>12. ASSUME OnScreen
         PROVE  /\ ScopedTo(turn.r, s) /\ IsList(seeds) /\ Elements(seeds) \subseteq Subtree[s]
                /\ WalksIn(walks, turn.q.intent, s)
    <2>1. /\ s \in Item /\ TypeOf[s] = "screen" /\ turn.version \in Versions /\ turn.q \in Questions
          /\ s \in governed
      BY <1>1, <1>2, <1>11, <1>12, OnScreenFacts
    <2>2. ScopedTo(turn.r, s)
      BY <1>1, <1>11, <1>12 DEF InContext
    <2>3. governed \in SUBSET Item /\ graph[turn.version] \in SUBSET Item
      BY <1>2, <2>1, KnownItems DEF Inv, StoreInv, WorldTyped
    <2>4. IsList(seeds) /\ Elements(seeds) \subseteq Subtree[s]
      <3>1. PICK q, r : q = turn.q /\ r = turn.r
        OBVIOUS
      <3>2. CASE turn.graph
        <4>1. seeds = GraphSeeds(q.intent, r, ranked, governed)
          BY <1>6, <3>1, <3>2
        <4>2. q \in Questions /\ ScopedTo(r, s)
          BY <2>1, <2>2, <3>1
        <4> QED BY <2>1, <2>3, <4>1, <4>2, SeedsStay
      <3>3. CASE ~turn.graph
        <4>1. seeds \in Seq(Subtree[s])
          BY <1>6, <3>3
        <4> QED BY <4>1, ListFacts
      <3> QED BY <3>2, <3>3
    <2>5. WalksIn(walks, turn.q.intent, s)
      BY <1>7, <2>1, <2>3, <2>4, WalksStay
    <2> QED BY <2>2, <2>4, <2>5
  <1> QED BY <1>9, <1>10, <1>11, <1>12 DEF InContext, Concluding


\* A turn that ends rests on what is of the screen.
LEMMA ConcludedContext ==
    ASSUME Inv, Looking, NEW e, NEW decision, NEW ids, turn' = Concluded(turn, e, decision, ids),
           know' = know,
           OnScreen => ids \subseteq Subtree[turn.inherited.id] \cup {ParentOf[turn.inherited.id]}
    PROVE  InContext'
  <1>1. PICK p, d, n :
          /\ p = IF decision = "GROUNDED_LLM" /\ turn.condition = "C" THEN "writing" ELSE "decided"
          /\ d = IF decision = "GROUNDED_LLM" /\ turn.condition # "C"
                 THEN Baseline(know[turn.version], e) ELSE decision
          /\ n = NextState(turn.prev, turn.version, know[turn.version], e.sources)
    OBVIOUS
  <1>2. turn' = [conv |-> turn.conv, q |-> turn.q, version |-> turn.version, mode |-> turn.mode,
                 inherited |-> turn.inherited, loaded |-> turn.loaded, hinted |-> turn.hinted,
                 seen |-> turn.seen, touched |-> turn.touched,
                 phase |-> p, evidence |-> e, ids |-> ids, decision |-> d, next |-> n]
    BY <1>1 DEF Concluded
  <1>3. /\ turn'.phase \in {"writing", "decided"} /\ turn'.version = turn.version /\ turn'.q = turn.q
        /\ turn'.mode = turn.mode /\ turn'.inherited = turn.inherited
        /\ turn'.seen = turn.seen /\ turn'.touched = turn.touched /\ turn'.ids = ids
    BY <1>1, <1>2
  <1>4. OnScreen' <=> OnScreen
    BY <1>3, OnScreenFrame
  <1> QED BY <1>3, <1>4 DEF InContext

\* An answer asks back, or rests on what was found, walked and selected.
LEMMA AnswerContext ==
    ASSUME Inv, InContext, Answer
    PROVE  InContext'
  <1> DEFINE k0 == know[turn.version]
             sources0 == Within(CandidateIds(turn.fused, turn.walks), Reviewed(k0))
             e0 == Select(turn.q, k0, turn.r, turn.seeds, sources0,
                          Relations(turn.walks, Reviewed(k0)), turn.semantic)
             ids0(x) == Support(turn.q, k0, e0, x) \cup {ParentOf[c] : c \in Support(turn.q, k0, e0, x)}
                            \cup Purpose(turn.q, k0, e0)
             decision0(x) == Decide(turn.q, e0, ids0(x) # {})
  <1>1. PICK about : turn' = Concluded(turn, e0, decision0(about),
                        IF decision0(about) = "DETERMINISTIC_ANSWER" THEN ids0(about) ELSE {})
    BY Zenon DEF Answer
  <1>2. PICK k, governed : k = k0 /\ governed = Reviewed(k)
    OBVIOUS
  <1>3. PICK sources, rels : /\ sources = Within(CandidateIds(turn.fused, turn.walks), governed)
                             /\ rels = Relations(turn.walks, governed)
    OBVIOUS
  <1>4. PICK q, r, seeds, semantic : /\ q = turn.q /\ r = turn.r
                                     /\ seeds = turn.seeds /\ semantic = turn.semantic
    OBVIOUS
  <1>5. PICK e : e = Select(q, k, r, seeds, sources, rels, semantic)
    OBVIOUS
  <1>6. k = k0 /\ e = e0
    BY <1>2, <1>3, <1>4, <1>5
  <1> HIDE DEF k0, sources0, e0
  <1>7. PICK basis : basis = Basis(q, k, e, about)
    OBVIOUS
  <1>8. basis = ids0(about)
    BY <1>4, <1>6, <1>7 DEF Basis
  <1> HIDE DEF ids0
  <1>9. PICK decision, ids : /\ decision = Decide(q, e, basis # {})
                             /\ ids = IF decision = "DETERMINISTIC_ANSWER" THEN basis ELSE {}
    OBVIOUS
  <1>10. decision = decision0(about)
    BY <1>4, <1>6, <1>8, <1>9
  <1> HIDE DEF decision0
  <1>11. turn' = Concluded(turn, e, decision, ids) /\ know' = know
    BY <1>1, <1>6, <1>8, <1>9, <1>10 DEF Answer, World
  <1>12. /\ turn.phase = "searched" /\ Looking /\ Reading /\ q \in Questions /\ turn.version \in Versions
         /\ semantic \in Seq(Item) /\ IsList(turn.fused)
         /\ IsList(turn.walks) /\ \A w \in Elements(turn.walks) : IsFiniteSet(Nodes(w))
    BY <1>4 DEF Inv, TurnInv, TurnTyped, Answer, At, Looking, Running, Reading
  <1>13. governed \in SUBSET Item
    BY <1>2, <1>12, KnownItems DEF k0, Inv, StoreInv
  <1>14. sources \in Seq(Item)
    <2>1. IsList(CandidateIds(turn.fused, turn.walks))
      BY <1>12, CandidatesList
    <2>2. sources \in Seq(governed)
      BY <1>3, <2>1, WithinList
    <2> QED BY <1>13, <2>2, SeqMonotonic
  <1>15. \A c \in rels : c \in Item /\ \E w \in Elements(turn.walks) : c \in w.edges
    BY <1>3, <1>13 DEF Relations, Nodes
  <1>16. PICK s : s = turn.inherited.id
    OBVIOUS
  <1>17. ASSUME OnScreen PROVE ids \subseteq Subtree[s] \cup {ParentOf[s]}
    <2>1. SUFFICES ASSUME decision = "DETERMINISTIC_ANSWER"
                   PROVE  basis \subseteq Subtree[s] \cup {ParentOf[s]}
      BY <1>9
    <2>2. s \in Item /\ TypeOf[s] = "screen"
      BY <1>12, <1>16, <1>17, OnScreenFacts
    <2>3. /\ ScopedTo(r, s) /\ IsList(seeds) /\ Elements(seeds) \subseteq Subtree[s]
          /\ WalksIn(turn.walks, q.intent, s)
      BY <1>4, <1>12, <1>16, <1>17 DEF InContext
    <2>4. rels \in SUBSET Item
      BY <1>15
    <2>5. Ambiguous(r) = {}
      <3>1. SelectedFrom(e, r, sources, rels, semantic)
        BY <1>5, <1>12, <1>14, <2>4, SelectFacts
      <3>2. e.status # "clarification_required"
        BY <1>9, <2>1 DEF Decide
      <3> QED BY <3>1, <3>2 DEF SelectedFrom
    <2>6. RelsIn(rels, q.intent, s)
      BY <1>15, <2>3 DEF WalksIn, RelsIn
    <2> QED BY <1>5, <1>7, <1>12, <1>14, <2>2, <2>3, <2>4, <2>5, <2>6, BasisStays
  <1> QED BY <1>11, <1>12, <1>16, <1>17, ConcludedContext

\* A review of the screen ends what is promised of it; another one leaves its title as it is.
LEMMA ReviewContext ==
    ASSUME Inv, InContext, NEW v, NEW i, NEW status, Review(v, i, status)
    PROVE  InContext'
  <1>1. PICK row : know' = [know EXCEPT ![v][i] = row]
    BY DEF Review
  <1>2. /\ know = [u \in Versions |-> know[u]]
        /\ \A u \in Versions : know[u] \in [Imported[u] -> Rows]
    BY DEF Inv, StoreInv, WorldTyped
  <1>3. ASSUME NEW u \in Versions, NEW j \in DOMAIN know[u], u # v \/ j # i
        PROVE  know'[u][j] = know[u][j]
    BY <1>1, <1>2, <1>3
  <1>4. PICK touched, seen : /\ touched = turn.touched \cup {i}
                             /\ seen = IF status \in Publishable THEN turn.seen \cup {i} ELSE turn.seen
    OBVIOUS
  <1>5. turn' = IF Reading /\ turn.version = v
                THEN [turn EXCEPT !.touched = touched, !.seen = seen] ELSE turn
    BY <1>4 DEF Review
  <1>6. i \in touched /\ turn.touched \subseteq touched /\ seen \subseteq turn.seen \cup {i}
    BY <1>4
  <1>7. CASE ~Reading
    <2>1. turn' = turn
      BY <1>7, <1>5
    <2> QED BY <1>7, <2>1 DEF InContext, Reading, Concluding
  <1>8. CASE Reading
    <2>1. /\ turn.version \in Versions
          /\ Looking \/ Concluding
          /\ Looking => turn = ReadFields(turn)
          /\ Concluding => turn = DoneFields(turn)
      BY <1>8 DEF Inv, TurnInv, TurnTyped, Reading, Looking, Concluding
    <2>2. /\ turn'.phase = turn.phase /\ turn'.q = turn.q /\ turn'.version = turn.version
          /\ turn'.mode = turn.mode /\ turn'.inherited = turn.inherited
          /\ Looking => turn'.r = turn.r /\ turn'.seeds = turn.seeds /\ turn'.walks = turn.walks
          /\ Concluding => turn'.ids = turn.ids /\ turn'.decision = turn.decision
      <3>1. CASE Looking
        <4>1. ~Concluding
          BY <3>1 DEF Looking, Concluding
        <4> QED BY <1>5, <2>1, <3>1, <4>1 DEF ReadFields
      <3>2. CASE Concluding
        <4>1. ~Looking
          BY <3>2 DEF Looking, Concluding
        <4> QED BY <1>5, <2>1, <3>2, <4>1 DEF DoneFields
      <3> QED BY <2>1, <3>1, <3>2
    <2>3. turn.version = v => turn'.touched = touched /\ turn'.seen = seen
      <3>1. CASE Looking
        BY <1>8, <1>5, <2>1, <3>1 DEF ReadFields
      <3>2. CASE Concluding
        BY <1>8, <1>5, <2>1, <3>2 DEF DoneFields
      <3> QED BY <2>1, <3>1, <3>2
    <2>4. PICK s : s = turn.inherited.id
      OBVIOUS
    <2>5. ASSUME OnScreen' PROVE OnScreen
      <3>1. /\ Firm(s)
            /\ turn.version = v => s # i
        <4>1. s \in turn'.seen \ turn'.touched
          BY <2>2, <2>4, <2>5 DEF OnScreen, Firm
        <4>2. CASE turn.version = v
          BY <1>6, <2>3, <4>1, <4>2 DEF Firm
        <4>3. CASE turn.version # v
          BY <1>5, <4>1, <4>3 DEF Firm
        <4> QED BY <4>2, <4>3
      <3>2. s \in DOMAIN know[turn.version]
        BY <1>8, <3>1 DEF Inv, TurnInv, Governed, Firm, Reviewed
      <3>3. know'[turn.version][s] = know[turn.version][s]
        BY <1>3, <2>1, <3>1, <3>2
      <3>4. Matched(know'[turn.version], s) = Matched(know[turn.version], s)
        BY <3>3 DEF Matched
      <3>5. ASSUME Crowded PROVE FALSE
        <4>1. PICK k, k2 : k = know[turn.version] /\ k2 = know'[turn'.version]
          OBVIOUS
        <4>2. CASE turn.version = v
          <5>1. turn.seen \in SUBSET Item /\ seen \in SUBSET Item /\ turn.seen \subseteq seen
            <6>1. i \in Item
              BY <1>2, <2>1, <4>2, ChatAssumption DEF Review
            <6> QED BY <1>4, <1>8, <6>1 DEF Inv, TurnInv, TurnTyped
          <5>2. \A j \in turn.seen \ turn.touched : j # i => Matched(k2, j) = Matched(k, j) /\ k2[j].status = k[j].status
            <6>1. \A j \in turn.seen \ turn.touched : j \in DOMAIN know[turn.version]
              BY <1>8 DEF Inv, TurnInv, Governed, Reviewed
            <6>2. \A j \in turn.seen \ turn.touched : j # i => k2[j] = k[j]
              BY <1>3, <2>1, <2>2, <4>1, <6>1
            <6> QED BY <6>2 DEF Matched
          <5>3. Crowded'
            BY <1>4, <2>2, <2>3, <3>5, <4>1, <4>2, <5>1, <5>2, CrowdedStays
          <5> QED BY <2>5, <5>3 DEF OnScreen
        <4>3. CASE turn.version # v
          <5>1. turn' = turn /\ know'[turn.version] = know[turn.version]
            BY <1>1, <1>2, <1>5, <2>1, <4>3
          <5>2. Crowded'
            BY <3>5, <5>1 DEF Crowded, Contenders, Named
          <5> QED BY <2>5, <5>2 DEF OnScreen
        <4> QED BY <4>2, <4>3
      <3> QED BY <2>2, <2>4, <2>5, <3>1, <3>4, <3>5 DEF OnScreen
    <2> QED BY <2>2, <2>5 DEF InContext, Looking, Concluding
  <1> QED BY <1>7, <1>8

\* Every step keeps the answer about the screen.
LEMMA StepContext == Inv /\ InContext /\ [Next]_vars => InContext'
  <1> SUFFICES ASSUME Inv, InContext, [Next]_vars PROVE InContext'
    OBVIOUS
  <1>1. ASSUME NEW c \in Conversations, NEW request \in Requests, Ask(c, request) PROVE InContext'
    BY <1>1, QuietTurn DEF Ask
  <1>2. CASE UseRoute
    <2>1. turn = AskedFields(turn) /\ turn.phase = "asked"
      BY <1>2 DEF Inv, TurnInv, TurnTyped, UseRoute, At, Asking
    <2>2. turn'.phase = "routed"
      BY <1>2, <2>1 DEF UseRoute, AskedFields
    <2> QED BY <2>2, QuietTurn
  <1>3. CASE Understand
    BY <1>3, QuietTurn DEF Understand
  <1>4. CASE Clarify
    <2>1. PICK e, d : e = NoEvidence("clarification_required") /\ d = Decide(turn.q, e, FALSE)
      OBVIOUS
    <2>2. Looking /\ turn' = Concluded(turn, e, d, {}) /\ know' = know
      BY <1>4, <2>1 DEF Clarify, Looking, At, World
    <2> QED BY <2>2, ConcludedContext
  <1>5. CASE Narrow
    BY <1>5, NarrowContext
  <1>6. CASE GiveUp
    <2>1. PICK e, d : e = NoEvidence("insufficient") /\ d = Decide(turn.q, e, FALSE)
      OBVIOUS
    <2>2. Looking /\ turn' = Concluded(turn, e, d, {}) /\ know' = know
      BY <1>6, <2>1 DEF GiveUp, Looking, At, World
    <2> QED BY <2>2, ConcludedContext
  <1>7. ASSUME NEW dense \in Hits(IF At("narrowed") THEN Indexed[turn.version] ELSE {}),
               NEW hits \in Hits(IF At("narrowed") THEN Authorized(turn) ELSE {}), Search(dense, hits)
        PROVE  InContext'
    BY <1>7, SearchContext
  <1>8. CASE Answer
    BY <1>8, AnswerContext
  <1>9. ASSUME NEW d \in {"GROUNDED_LLM", "ABSTENTION"}, Write(d) PROVE InContext'
    <2>1. turn.phase = "writing" /\ turn = DoneFields(turn)
      BY <1>9 DEF Inv, TurnInv, TurnTyped, Write, At, Concluding
    <2>2. turn'.phase = "decided" /\ turn'.decision = d
      BY <1>9, <2>1 DEF Write, DoneFields
    <2> QED BY <1>9, <2>2 DEF InContext
  <1>10. CASE Deliver
    BY <1>10, QuietTurn DEF Deliver, Idle
  <1>11. CASE Fail
    BY <1>11, QuietTurn DEF Fail, Idle
  <1>12. ASSUME NEW row \in Contested, Review(row[1], row[2], row[3]) PROVE InContext'
    BY <1>12, ReviewContext
  <1>13. CASE Promote \/ Project \/ Expire \/ UNCHANGED vars
    <2>1. know' = know /\ turn' = turn
      BY <1>13 DEF Promote, Project, Expire, World, vars
    <2>2. OnScreen' <=> OnScreen
      BY <2>1, OnScreenFrame
    <2> QED BY <2>1, <2>2 DEF InContext, Concluding
  <1> QED BY <1>1, <1>2, <1>3, <1>4, <1>5, <1>6, <1>7, <1>8, <1>9, <1>10, <1>11, <1>12, <1>13 DEF Next

------------------------------------------------------------------------------
(* The theorem. *)

\* A deterministic answer to a question that conversation_context.py
\* understands from the conversation is about the screen of the conversation,
\* in any structure that an import accepts, whatever the indexes return and
\* whatever other items are called: the narrowing of entity_resolver.py keeps
\* the screen and what is in it, the walks of graph_expansion.py leave it only
\* over edges between modules and screens, and evidence_selector.py and
\* answer_planner.py rest the answer on none of these but the screen's own,
\* unless the limits of the resolver are passed before the narrowing.
THEOREM ContextKept == Spec => []ContextIsKept
  <1>1. Init => InContext
    <2>1. Init => turn = Idle
      BY DEF Init
    <2> QED BY <2>1 DEF InContext, Idle, Concluding
  <1>2. Inv /\ InContext => ContextIsKept
    <2> SUFFICES ASSUME Inv, InContext PROVE ContextIsKept
      OBVIOUS
    <2> QED BY DEF InContext, OnScreen, ContextIsKept
  <1> QED BY <1>1, <1>2, StepContext, Invariance, PTL DEF Spec

=============================================================================
