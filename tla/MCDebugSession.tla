--------------------------- MODULE MCDebugSession ---------------------------
(* Pipelines for checking DebugSession: two and three wired steps, a single *)
(* one, and one that Validate rejects.                                      *)
EXTENDS DebugSession

CONSTANT k1

MCKey == {k1}

S(requires, provides) == [valid |-> TRUE, requires |-> requires, provides |-> provides]

MCPipelines ==
    { << S({}, <<k1>>), S({k1}, <<>>) >>,
      << S({}, <<>>), S({}, <<k1>>), S({k1}, <<>>) >>,
      << S({}, <<k1>>) >>,
      << S({k1}, <<>>) >> }
=============================================================================
