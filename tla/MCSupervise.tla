---------------------------- MODULE MCSupervise ----------------------------
(* Policies: the zero one, every small limit around zero, and delays below,  *)
(* at, and not dividing the cap.                                             *)
EXTENDS Supervise

Policy(b, m, n) == [Backoff |-> b, Max |-> m, MaxRestarts |-> n]

MCPolicies ==
    {Policy(0, 0, n) : n \in -2..3} \cup {Policy(b, 5, n) : b \in {1, 3, 5, 9}, n \in {-1, 4}}
=============================================================================
