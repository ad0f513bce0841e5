----------------------------- MODULE MCPipeline -----------------------------
(* Pipelines for checking Pipeline: a well wired one of three steps in which *)
(* the last reads what both others set, one whose step sets two keys, a      *)
(* single step, and one for each fault Validate reports.                     *)
EXTENDS Pipeline

CONSTANTS k1, k2

MCKey == {k1, k2}

S(requires, provides) == [valid |-> TRUE, requires |-> requires, provides |-> provides]
Misconfigured(requires, provides) == [S(requires, provides) EXCEPT !.valid = FALSE]

MCPipelines ==
    { << S({}, <<k1>>), S({k1}, <<k2>>), S({k1, k2}, <<>>) >>,
      << S({}, <<k1, k2>>), S({k2}, <<>>) >>,
      << S({}, <<>>) >>,
      << >>,
      << S({}, <<k1>>), Misconfigured({k2}, <<k1>>) >>,
      << S({k1}, <<k1>>) >>,
      << S({}, <<k1>>), S({k1}, <<k1>>) >>,
      << S({}, <<k1, k1>>) >> }
=============================================================================
