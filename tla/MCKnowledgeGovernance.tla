----------------------- MODULE MCKnowledgeGovernance -----------------------
(* Small instances of KnowledgeGovernance for TLC: a first version v1 with   *)
(* one item, and a version v2 whose item a2 carries it unchanged; b2 is NEW. *)
EXTENDS KnowledgeGovernance, TLC

CONSTANTS v1, v2, a1, a2, b2, neo4j, chromadb, api, other, cli, gate, gate2, worker, script, merger,
          description

MCVersions == {v1, v2}

\* Without the new item.
MCItems == {a1, a2}
MCVersionOf == (a1 :> v1) @@ (a2 :> v2)
MCCarriedFrom == (a1 :> None) @@ (a2 :> a1)

\* With it.
MCMoreItems == {a1, a2, b2}
MCMoreVersionOf == MCVersionOf @@ (b2 :> v2)
MCMoreCarriedFrom == MCCarriedFrom @@ (b2 :> None)

\* The source payloads have a description, their corrections have none.
MCSourceOnly == MCItems \X {0} \X {description}

\* A correction takes the safe label from a2.
MCCorrectedUnlabelled == {<<a2, 1>>}

\* Bound on the reviews: corrections of a2 only; payloads of a1 do not differ.
MCOnlyA2Corrected == payload[a1] = 0

\* Promotions do not differ, nor do the reviews of two scripts: safety runs only.
MCPromotionsAlike == Permutations({gate, gate2})
MCScriptsAlike == Permutations({cli, other})

\* The targets of the worker and of the scripts.
MCNeo4jRuns == (script :> neo4j) @@ (merger :> neo4j)
MCWorkerRun == worker :> chromadb
MCScriptRun == script :> chromadb

=============================================================================
