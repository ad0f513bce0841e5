------------------------------ MODULE MCLaunch ------------------------------
(* A panel that may launch a run, one that attaches to what it finds, and a  *)
(* run started elsewhere whose PID may be used twice.                        *)
EXTENDS Launch

CONSTANTS t1, t2, r1
MCLaunchers == {t1}
MCPanels == {t1, t2}
MCRuns == {r1}
=============================================================================
