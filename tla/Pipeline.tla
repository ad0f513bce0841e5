------------------------------ MODULE Pipeline ------------------------------
(***************************************************************************)
(* The pipeline engine of package pipeline: Pipeline.Validate, Run and run *)
(* with the State bag it threads through the steps, the forced modes of    *)
(* LATH_MODE, context cancellation and the Debugger consulted between      *)
(* steps.  Steps and the debugger are the engine's environment: a step     *)
(* returns any outcome the Step contract allows, Pause returns any answer. *)
(***************************************************************************)
EXTENDS Naturals, Sequences

CONSTANTS
    Key,        \* the state keys
    Pipelines,  \* the pipelines a definition may build
    MaxRuns     \* bound: no rerun once st.Run was called this often (the code has none)

(* A step as Validate and run see it: what its own Validate reports, the   *)
(* keys Run reads, and the list of keys it sets (a list: Validate rejects  *)
(* a key listed twice by one step as well as by two).                      *)
Step == [valid: BOOLEAN, requires: SUBSET Key, provides: Seq(Key)]

ASSUME PipelinesAssumption == Pipelines \subseteq Seq(Step)
ASSUME MaxRunsAssumption == MaxRuns \in Nat

Asked  == {"execute", "dry-run", "undeclared"}
Forced == {"", "plan", "dry-run"}
Faults == {"NoSteps", "StepConfig", "NotWired", "DuplicateProvider"}
Errors == Faults \cup {"debugger", "cancelled", "StepFailed", "Aborted"}
Action == {"next", "rerun", "continue", "quit"}
Answer == Action \cup {"undeclared", "lost"}   \* "lost": Pause returned an error
Absent == 0                                    \* no value under a key

VARIABLES
    pipe,            \* the Pipeline's Steps
    asked, forced,   \* mode the definition asks for; LATH_MODE
    mode,            \* State.mode
    dbg,             \* State.debugger # nil
    cancelled,       \* ctx.Err() # nil
    pc,              \* where Run / run is
    i,               \* position of the current step, 1-based
    values,          \* State.values: the number of the st.Run call that set each key
    before,          \* the snapshot taken before the current step
    runErr,          \* the current step failed
    pauseOnSuccess,
    result,          \* what Run returned
    \* History, read by the properties only.
    runs,            \* st.Run calls so far
    last,            \* outcome of each step's latest run
    wrote,           \* number of each step's latest run
    firstIn,         \* the bag each step saw on its first run
    effects          \* positions of steps that had side effects

bag  == <<values, before>>
hist == <<runs, last, wrote, firstIn, effects>>
args == <<pipe, asked, forced>>
vars == <<args, mode, dbg, cancelled, pc, i, bag, runErr, pauseOnSuccess, result, hist>>

Bag == [Key -> Nat]
Elems(s) == {s[n] : n \in DOMAIN s}
Total == Len(pipe)

-----------------------------------------------------------------------------
(* Pipeline.Validate.                                                       *)

\* providerOf, once the first n steps have been accepted.
ProvidedBy(p, n) == UNION {Elems(p[j].provides) : j \in 1..n}

DuplicateProvider(p, n) ==
    \/ Elems(p[n].provides) \cap ProvidedBy(p, n - 1) # {}
    \/ \E a, b \in DOMAIN p[n].provides : a # b /\ p[n].provides[a] = p[n].provides[b]

\* Mutant: a step may count its own outputs among its inputs.
NotWiredBySelf(p, n) == ~(p[n].requires \subseteq ProvidedBy(p, n))

NotWired(p, n) == ~(p[n].requires \subseteq ProvidedBy(p, n - 1))

\* The fault Validate reports for step n: configuration first, then wiring.
StepFault(p, n) ==
    IF ~p[n].valid THEN "StepConfig"
    ELSE IF NotWired(p, n) THEN "NotWired"
    ELSE IF DuplicateProvider(p, n) THEN "DuplicateProvider"
    ELSE "none"

\* Validate returns the first fault in step order, or nil.
Validate(p, fault) ==
    \/ p = <<>> /\ fault = "NoSteps"
    \/ \E n \in DOMAIN p :
           /\ fault = StepFault(p, n) /\ fault # "none"
           /\ \A m \in 1..(n - 1) : StepFault(p, m) = "none"
    \/ /\ p # <<>> /\ fault = "none"
       /\ \A n \in DOMAIN p : StepFault(p, n) = "none"

-----------------------------------------------------------------------------
Init ==
    /\ pipe \in Pipelines
    /\ asked \in Asked
    /\ forced \in Forced
    /\ mode = "execute" /\ dbg = FALSE /\ cancelled = FALSE
    /\ pc = "new" /\ i = 1
    /\ values = [k \in Key |-> Absent] /\ before = values
    /\ runErr = FALSE /\ pauseOnSuccess = TRUE /\ result = "none"
    /\ runs = 0
    /\ last = [n \in DOMAIN pipe |-> "never"]
    /\ wrote = [n \in DOMAIN pipe |-> 0]
    /\ firstIn = [n \in DOMAIN pipe |-> values]
    /\ effects = {}

\* applyForcedMode: the runner can only make a run safer.
AppliedMode(m) == IF forced \in {"plan", "dry-run"} THEN "dry-run" ELSE m

\* NewState: an undeclared mode becomes execute, and attachedDebugger() says
\* whether there is a debugger.
NewState(d) ==
    /\ pc = "new"
    /\ mode' = AppliedMode(IF asked = "undeclared" THEN "execute" ELSE asked)
    /\ dbg' = d
    /\ pc' = "run"
    /\ UNCHANGED <<args, cancelled, i, bag, runErr, pauseOnSuccess, result, hist>>

\* Run returns e without reaching run (so without dbg.Finish).
Return(e) ==
    /\ pc = "run"
    /\ result' = e
    /\ pc' = "done"
    /\ UNCHANGED <<args, mode, dbg, cancelled, i, bag, runErr, pauseOnSuccess, hist>>

Reject == \E fault \in Faults : Return(fault) /\ Validate(pipe, fault)

\* planning(): the steps are listed and Run returns nil.
PrintPlan == Return("planned") /\ Validate(pipe, "none") /\ forced = "plan"

Runnable == Validate(pipe, "none") /\ forced # "plan"

\* dbg.Plan failed.
PlanFails == Return("debugger") /\ dbg /\ Runnable

Begin ==
    /\ pc = "run" /\ Runnable
    /\ pc' = "top"
    /\ UNCHANGED <<args, mode, dbg, cancelled, i, bag, runErr, pauseOnSuccess, result, hist>>

\* run returns e to Run, which still has to call dbg.Finish.
Leave(e) == result' = e /\ pc' = "finish"

Advance == i' = i + 1 /\ pc' = "top" /\ UNCHANGED result

\* Mutant: ctx is only consulted before the first step.
InterruptedAtStart == cancelled /\ runs = 0

\* ctx.Err(), consulted at the top of every iteration.
Interrupted == cancelled

\* Mutant: a cancelled run does not leave the loop.
LoopEndsOnlyAtEnd ==
    /\ pc = "top" /\ i > Total /\ Leave("ok")
    /\ UNCHANGED <<args, mode, dbg, cancelled, i, bag, runErr, pauseOnSuccess, hist>>

\* The loop condition and the ctx check.
LoopEnds ==
    /\ pc = "top"
    /\ \/ i > Total /\ Leave("ok")
       \/ i <= Total /\ Interrupted /\ Leave("cancelled")
    /\ UNCHANGED <<args, mode, dbg, cancelled, i, bag, runErr, pauseOnSuccess, hist>>

\* The snapshot (only with a debugger), StepStart, and st.Run begins.
StepStarts ==
    /\ pc = "top" /\ i <= Total /\ ~Interrupted
    /\ before' = IF dbg THEN values ELSE before
    /\ pc' = "running"
    /\ runs' = runs + 1
    /\ wrote' = [wrote EXCEPT ![i] = runs + 1]
    /\ firstIn' = IF last[i] = "never" THEN [firstIn EXCEPT ![i] = values] ELSE firstIn
    /\ UNCHANGED <<args, mode, dbg, cancelled, i, values, runErr, pauseOnSuccess, result,
                   last, effects>>

\* What a step may do to the bag and to the world, by the Step contract: it
\* sets declared keys (all of them when it succeeds), and has side effects
\* only outside a dry run.
StepSets(ok, set) ==
    /\ set \subseteq Elems(pipe[i].provides)
    /\ ok => set = Elems(pipe[i].provides)
    /\ values' = [k \in Key |-> IF k \in set THEN runs ELSE values[k]]
    /\ effects' = IF mode = "dry-run" THEN effects ELSE effects \cup {i}
    /\ last' = [last EXCEPT ![i] = IF ok THEN "ok" ELSE "failed"]

\* Whether run consults the debugger after a step.
Pauses(ok) == dbg /\ ~(ok /\ i = Total) /\ ~(ok /\ ~pauseOnSuccess)

\* st.Run returns, then run reports, pauses, advances or fails.
StepReturns(ok, set) ==
    /\ pc = "running"
    /\ StepSets(ok, set)
    /\ runErr' = ~ok
    /\ \/ Pauses(ok) /\ pc' = "paused" /\ UNCHANGED <<i, result>>
       \/ ~Pauses(ok) /\ ok /\ Advance
       \/ ~Pauses(ok) /\ ~ok /\ Leave("StepFailed") /\ UNCHANGED i
    /\ UNCHANGED <<args, mode, dbg, cancelled, before, pauseOnSuccess, runs, wrote, firstIn>>

\* Mutant: next and continue forget that the step failed.
MoveOnPastFailure == Advance

\* Mutant: moving on from a failed step tries it again.
MoveOnRetries == IF runErr THEN pc' = "top" /\ UNCHANGED <<i, result>> ELSE Advance

\* Moving on from a pause: past a step that failed there is only the failure.
MoveOn == IF runErr THEN Leave("StepFailed") /\ UNCHANGED i ELSE Advance

\* Mutant: the rerun keeps what the step left behind.
RestoreNothing == UNCHANGED values

Restore == values' = before

\* ActRerun: the same index again, against the inputs the step saw.
Rerun == Restore /\ pc' = "top" /\ UNCHANGED <<i, result, before>>

\* dbg.Pause returns a.
PauseReturns(a) ==
    /\ pc = "paused"
    /\ \/ a = "next" /\ MoveOn /\ UNCHANGED <<bag, pauseOnSuccess>>
       \/ a = "rerun" /\ runs < MaxRuns /\ Rerun /\ UNCHANGED pauseOnSuccess
       \/ a = "continue" /\ MoveOn /\ pauseOnSuccess' = FALSE /\ UNCHANGED bag
       \/ /\ a = "quit"
          /\ Leave(IF runErr THEN "StepFailed" ELSE "Aborted")
          /\ UNCHANGED <<i, bag, pauseOnSuccess>>
       \/ a \in {"undeclared", "lost"} /\ Leave("Aborted") /\ UNCHANGED <<i, bag, pauseOnSuccess>>
    /\ UNCHANGED <<args, mode, dbg, cancelled, runErr, hist>>

\* dbg.Finish, whose own error is dropped; Run returns.
Finish ==
    /\ pc = "finish"
    /\ pc' = "done"
    /\ UNCHANGED <<args, mode, dbg, cancelled, i, bag, runErr, pauseOnSuccess, result, hist>>

\* A signal cancels the context, at any moment.
Cancel ==
    /\ ~cancelled /\ pc # "done"
    /\ cancelled' = TRUE
    /\ UNCHANGED <<args, mode, dbg, pc, i, bag, runErr, pauseOnSuccess, result, hist>>

StepRun == \E ok \in BOOLEAN, set \in SUBSET Key : StepReturns(ok, set)

Engine == Reject \/ PrintPlan \/ PlanFails \/ Begin \/ LoopEnds \/ StepStarts \/ Finish

Next ==
    \/ \E d \in BOOLEAN : NewState(d)
    \/ Engine
    \/ StepRun
    \/ \E a \in Answer : PauseReturns(a)
    \/ Cancel

Spec == Init /\ [][Next]_vars

(* The engine never waits on its own, and the Step contract has a step     *)
(* return.  An operator may leave a pause unanswered for ever.             *)
Fairness == WF_vars(\E d \in BOOLEAN : NewState(d)) /\ WF_vars(Engine) /\ WF_vars(StepRun)

FairSpec == Spec /\ Fairness

-----------------------------------------------------------------------------
(* Properties.                                                              *)

PC == {"new", "run", "top", "running", "paused", "finish", "done"}

\* Every variable keeps its type.
TypeOK ==
    /\ pipe \in Pipelines /\ asked \in Asked /\ forced \in Forced
    /\ mode \in {"execute", "dry-run"}
    /\ dbg \in BOOLEAN /\ cancelled \in BOOLEAN
    /\ pc \in PC /\ i \in 1..(Total + 1)
    /\ values \in Bag /\ before \in Bag
    /\ runErr \in BOOLEAN /\ pauseOnSuccess \in BOOLEAN
    /\ result \in Errors \cup {"none", "ok", "planned"}
    /\ runs \in Nat
    /\ last \in [DOMAIN pipe -> {"never", "ok", "failed"}]
    /\ wrote \in [DOMAIN pipe -> Nat]
    /\ firstIn \in [DOMAIN pipe -> Bag]
    /\ effects \subseteq DOMAIN pipe
    /\ pc \in {"running", "paused"} => i \in DOMAIN pipe

\* Wiring: when a step runs, every key it requires is present, and holds what
\* the latest run of its one provider set.  This is what Validate promises
\* ("ErrKeyMissing is unreachable for a validated pipeline", "the second write
\* silently wins" never happens), through failures, reruns and restores.
InputsWired ==
    pc = "running" =>
        \A k \in pipe[i].requires :
            /\ values[k] # Absent
            /\ \A j \in DOMAIN pipe :
                   j < i /\ k \in Elems(pipe[j].provides) => values[k] = wrote[j]

\* A rerun replays the step against the bag its first run saw, not against
\* what a failed or earlier run of it left behind.
RerunSeesOriginalInputs == pc = "running" => values = firstIn[i]

\* Fail-fast, the load-bearing claim of Run: a step is only ever reached when
\* the latest run of every step before it succeeded, whatever the operator
\* answered, and Run returns nil only when all of them did.
FailFast ==
    /\ \A j \in DOMAIN pipe : last[j] # "never" =>
           \A h \in 1..(j - 1) : last[h] = "ok"
    /\ result = "ok" => \A j \in DOMAIN pipe : last[j] = "ok"

\* LATH_MODE can only make a run safer: a forced plan runs no step, a forced
\* dry run has no side effects, whatever mode the definition asked for.
RehearsalIsInert ==
    /\ forced # "" => effects = {}
    /\ forced = "plan" => runs = 0

\* Cancellation stops the run at the next boundary: no step starts after it,
\* not even one an operator asks to rerun.
NoStepAfterCancel == [][cancelled => runs' = runs]_vars

\* What is left of a run: the steps from the current one, what the engine has
\* still to do about that one, and a signal that may come.
Stage == CASE pc = "new" -> 6 [] pc = "run" -> 5 [] pc = "top" -> 4 [] pc = "running" -> 3
           [] pc = "paused" -> 2 [] pc = "finish" -> 1 [] pc = "done" -> 0
ToDo == 7 * (Total + 1 - i) + Stage + (IF cancelled THEN 0 ELSE 1)

\* A run goes nowhere but to its end: whatever the steps, the operator and the
\* context do, every step of it leaves less to do, but for an answered rerun,
\* and once cancelled it begins no step, neither the next nor one to rerun.
Descends ==
    [][/\ PauseReturns("rerun") \/ ToDo' \in 0 .. ToDo - 1
       /\ cancelled => runs' = runs]_vars

\* Without a debugger Run always returns.
RunReturns == <>(pc = "done" \/ dbg)
=============================================================================
