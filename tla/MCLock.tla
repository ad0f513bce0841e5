------------------------------- MODULE MCLock -------------------------------
(* Three processes: two share a host, the third reaches the file over a     *)
(* shared file system.                                                      *)
EXTENDS Lock

CONSTANTS a, b, c, h1, h2

MCProc == {a, b, c}
MCHost == {h1, h2}
MCHostOf == [p \in MCProc |-> IF p = c THEN h2 ELSE h1]
MCWaits == {b, c}

\* Two processes of one host, which may both come back for more.
MCPair == {a, b}
MCPairHostOf == [p \in MCPair |-> h1]
MCPairWaits == {b}
=============================================================================
