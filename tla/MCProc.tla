------------------------------- MODULE MCProc -------------------------------
(* One goroutine in Wait and one in Stop, whose own goroutine waits too: two *)
(* reapers race in every order.                                             *)
EXTENDS Proc

CONSTANTS w1, s1
MCWaiters == {w1}
MCStoppers == {s1}
=============================================================================
