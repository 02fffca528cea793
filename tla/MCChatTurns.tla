---------------------------- MODULE MCChatTurns ----------------------------
(***************************************************************************)
(* Screens "clientes" and "pedidos" in the module "ventas", "proveedores"  *)
(* in "compras"; "clientes" and "proveedores" each have a field "ruc" and  *)
(* "clientes" a control "buscar".  A reviewer may withdraw "clientes" or   *)
(* retitle "proveedores" to "clientes", and the second version no longer   *)
(* has "pedidos".  Two conversations share a store of one entry.           *)
(* "compras" stands for a label that says nothing.                         *)
(***************************************************************************)
EXTENDS ChatTurns, TLC

MCItem == 1..8
MCType == <<"module", "module", "screen", "screen", "field", "field", "screen", "control">>
MCParent == <<0, 0, 1, 2, 3, 4, 1, 3>>
MCTitle == <<"ventas", "compras", "clientes", "proveedores", "ruc", "ruc", "pedidos", "buscar">>
MCFixedTitle == [MCTitle EXCEPT ![4] = "clientes"]
MCRoute == <<"", "", "/c", "/p", "", "", "/o", "">>
MCFixedRoute == [MCRoute EXCEPT ![4] = "/c"]
MCImported == <<MCItem, MCItem \ {7}>>
MCIndexed == <<{4, 5}, {4, 5}>>
MCContested == {<<1, 3, "REJECTED">>, <<1, 4, "CORRECTED">>}

Symmetry == Permutations(Conversations)

Labels == {MCTitle[i] : i \in MCItem}
Ordered == <<"buscar", "clientes", "compras", "pedidos", "proveedores", "ruc", "ventas">>
MCAlphabet == [l \in Labels |-> CHOOSE n \in DOMAIN Ordered : Ordered[n] = l]
Says(S) == [l \in Labels |-> IF l \in S THEN 100 ELSE 0]
Question(intent, S) ==
    [intent |-> intent, says |-> Says(S), cue |-> FALSE, brief |-> TRUE, executes |-> FALSE]
About(q) == [q |-> [q EXCEPT !.cue = TRUE], route |-> "", condition |-> "B", graph |-> TRUE]
Plain(q) == [q |-> q, route |-> "", condition |-> "C", graph |-> TRUE]

MCRequests == {
    Plain(Question("LOCATE_SCREEN", {"pedidos"})),
    Plain(Question("LOCATE_FIELD", {"ruc"})),
    Plain(Question("LOCATE_FIELD", {"clientes", "ruc"})),
    [Plain(Question("UNKNOWN", {"compras"})) EXCEPT !.condition = "A", !.graph = FALSE],
    Plain(Question("UNKNOWN", {})),
    Plain(Question("UNKNOWN", {"ventas", "compras", "ruc"})),
    Plain([Question("MUTATIVE_ACTION", {"clientes"}) EXCEPT !.executes = TRUE]),
    About(Question("LOCATE_FIELD", {"ruc"})),
    About(Question("SEARCH_BY_FIELD", {"ruc", "buscar"})),
    [About(Question("LOCATE_FIELD", {"ruc"})) EXCEPT !.route = "/c"],
    About(Question("SCREEN_PURPOSE", {}))}
=============================================================================
