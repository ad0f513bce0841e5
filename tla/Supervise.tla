------------------------------ MODULE Supervise ------------------------------
(***************************************************************************)
(* kit/supervise: runLoop, the engine behind Loop and Retry, with          *)
(* Policy.withDefaults.  A policy runs fn again after a failure, after a   *)
(* delay that doubles up to a cap and falls back after a healthy run.      *)
(* Durations are whole seconds.                                            *)
(***************************************************************************)
EXTENDS Integers

CONSTANTS
    Policies,  \* policies as callers write them: zero and negative fields too
    MaxCalls   \* bound: calls of fn (an Unlimited policy has none)

ASSUME PoliciesAssumption == Policies \subseteq [Backoff: Int, Max: Int, MaxRestarts: Int]
ASSUME MaxCallsAssumption == MaxCalls \in Nat

DefaultBackoff == 1
DefaultMax == 8
DefaultMaxRestarts == 10
Unlimited == -1
backoffFactor == 2

VARIABLES
    p,          \* the Policy, after withDefaults
    pc,         \* "top", "fn", "sleep", "done"
    backoff,
    restarts,   \* Stats.Restarts
    cancelled,  \* ctx.Err() # nil
    result,     \* "none", "nil", "permanent", "tooMany"
    \* History.
    calls,      \* calls of fn
    slept,      \* the delay of the latest sleep, 0 before the first
    healthy     \* the latest run lasted HealthyAfter

vars == <<p, pc, backoff, restarts, cancelled, result, calls, slept, healthy>>

\* Policy.withDefaults; any negative limit means unlimited.
withDefaults(q) ==
    [Backoff     |-> IF q.Backoff <= 0 THEN DefaultBackoff ELSE q.Backoff,
     Max         |-> IF q.Max <= 0 THEN DefaultMax ELSE q.Max,
     MaxRestarts |-> IF q.MaxRestarts = 0 THEN DefaultMaxRestarts
                     ELSE IF q.MaxRestarts < 0 THEN Unlimited ELSE q.MaxRestarts]

Init ==
    /\ \E q \in Policies : p = withDefaults(q)
    /\ pc = "top" /\ backoff = p.Backoff /\ restarts = 0
    /\ cancelled \in BOOLEAN /\ result = "none"
    /\ calls = 0 /\ slept = 0 /\ healthy = FALSE

Return(r) == result' = r /\ pc' = "done"

\* Mutant: ctx is only consulted before the first attempt.
StoppedAtStart == cancelled /\ calls = 0

Stopped == cancelled

\* The ctx check before every attempt, then fn is called.
Top ==
    /\ pc = "top"
    /\ \/ Stopped /\ Return("nil") /\ UNCHANGED calls
       \/ ~Stopped /\ calls' = calls + 1 /\ pc' = "fn" /\ UNCHANGED result
    /\ UNCHANGED <<p, backoff, restarts, cancelled, slept, healthy>>

\* Mutant: the limit counts restarts instead of attempts.
ExhaustedLate == p.MaxRestarts # Unlimited /\ restarts >= p.MaxRestarts

\* MaxRestarts attempts have been made.
Exhausted == p.MaxRestarts # Unlimited /\ restarts >= p.MaxRestarts - 1

\* A run of at least HealthyAfter restarts the schedule.
Rescheduled(lasted) == IF lasted THEN p.Backoff ELSE backoff

\* fn returns err, having lasted HealthyAfter or not.
FnReturns(err, lasted) ==
    /\ pc = "fn"
    /\ healthy' = lasted
    /\ \/ (cancelled \/ err = "nil") /\ Return("nil") /\ UNCHANGED <<backoff, slept>>
       \/ ~cancelled /\ err = "permanent" /\ Return("permanent") /\ UNCHANGED <<backoff, slept>>
       \/ /\ ~cancelled /\ err = "failure"
          /\ backoff' = Rescheduled(lasted)
          /\ \/ Exhausted /\ Return("tooMany") /\ UNCHANGED slept
             \/ ~Exhausted /\ pc' = "sleep" /\ slept' = backoff' /\ UNCHANGED result
    /\ UNCHANGED <<p, restarts, cancelled, calls>>

\* Mutant: the delay is not capped.
GrownUncapped == backoff * backoffFactor

\* The delay after the next failure: doubled, up to Max.
Grown == IF backoff < p.Max
         THEN IF backoff * backoffFactor > p.Max THEN p.Max ELSE backoff * backoffFactor
         ELSE p.Max

\* The interruptible sleep: with ctx done and the timer fired, select takes
\* either.
SleepInterrupted ==
    /\ pc = "sleep" /\ cancelled
    /\ Return("nil")
    /\ UNCHANGED <<p, backoff, restarts, cancelled, calls, slept, healthy>>

SleepEnds ==
    /\ pc = "sleep" /\ calls < MaxCalls
    /\ restarts' = restarts + 1
    /\ backoff' = Grown
    /\ pc' = "top"
    /\ UNCHANGED <<p, cancelled, result, calls, slept, healthy>>

Cancel ==
    /\ ~cancelled /\ pc # "done"
    /\ cancelled' = TRUE
    /\ UNCHANGED <<p, pc, backoff, restarts, result, calls, slept, healthy>>

Errs == {"nil", "failure", "permanent"}

RunLoop ==
    \/ Top
    \/ \E err \in Errs, lasted \in BOOLEAN : FnReturns(err, lasted)
    \/ SleepInterrupted \/ SleepEnds

Next == RunLoop \/ Cancel

Spec == Init /\ [][Next]_vars

-----------------------------------------------------------------------------
(* Properties.                                                              *)

\* Every variable keeps its type, and the policy in force has positive delays
\* and a positive limit or none.
TypeOK ==
    /\ p \in [Backoff: Nat \ {0}, Max: Nat \ {0}, MaxRestarts: (Nat \ {0}) \cup {Unlimited}]
    /\ pc \in {"top", "fn", "sleep", "done"}
    /\ backoff \in Nat \ {0}
    /\ restarts \in Nat /\ calls \in Nat /\ slept \in Nat
    /\ cancelled \in BOOLEAN /\ healthy \in BOOLEAN
    /\ result \in {"none", "nil", "permanent", "tooMany"}

\* The loop makes at most MaxRestarts attempts whatever fn does, and reports
\* too many only after exactly that many: a limit of 1 is one attempt, and no
\* negative limit collapses to giving up at once.
AttemptsBounded ==
    /\ p.MaxRestarts # Unlimited => calls <= p.MaxRestarts
    /\ result = "tooMany" => calls = p.MaxRestarts

\* No delay exceeds the larger of the first delay and the cap, through any
\* mix of healthy and unhealthy runs.
DelayBounded == slept <= p.Max \/ slept <= p.Backoff

\* Once the context is cancelled fn is not called again, whichever way the
\* sleep's select went.
NoCallAfterCancel == [][cancelled => calls' = calls]_vars
=============================================================================
