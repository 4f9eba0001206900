--------------------------- MODULE MCOrchestrator ---------------------------
EXTENDS Orchestrator

CONSTANTS p1, c1, c2

MCParentOf == (c1 :> p1) @@ (c2 :> p1)
MCFinalStage == p1 :> 1
MCFinalOutputs == p1 :> {0, 1}
MCPipelines == {[llm |-> {0}, chunked |-> FALSE],
                [llm |-> {0, 1}, chunked |-> FALSE],
                [llm |-> {0, 1}, chunked |-> TRUE]}
=============================================================================
