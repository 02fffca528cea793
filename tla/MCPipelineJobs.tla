--------------------------- MODULE MCPipelineJobs ---------------------------
(* Small instances of PipelineJobs for TLC: two requests compete for the    *)
(* same projection of the same version, a third creates an ordinary job.    *)
EXTENDS PipelineJobs, TLC

CONSTANTS p1, p2, c1, neo4jSync

MCJobs == {p1, p2, c1}
MCSlots == {neo4jSync}
MCSlotOf == (p1 :> neo4jSync) @@ (p2 :> neo4jSync) @@ (c1 :> NoSlot)
MCCancellable == {c1}
MCPair == {p1, c1}
MCPairSlotOf == (p1 :> neo4jSync) @@ (c1 :> NoSlot)

=============================================================================
